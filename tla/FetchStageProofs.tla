--------------------------- MODULE FetchStageProofs ---------------------------
(***************************************************************************)
(* What the fetch stage delivers, for any memory size, program, loops and  *)
(* jumps, whenever memory grants and answers.                              *)
(*                                                                         *)
(* FetchInv says, state by state, which line the buffer holds, which is    *)
(* asked for or in flight, which word is kept, and how the loops' counters *)
(* relate to the program's rounds. It is inductive: each state's cycle is  *)
(* a lemma (From...), and what all cycles have in common is Outcome, from  *)
(* which the loops and the program follow.                                 *)
(***************************************************************************)
EXTENDS FetchStage, WellFoundedInduction, TLAPS

-----------------------------------------------------------------------------
(* The invariant.                                                              *)

(* Memory owes an answer exactly when the buffer waits for one.                *)
OneInFlight == in_flight # NoLine <=> L0_CS \in {"WAIT_RVALID", "ABORTED_BRANCH"}

Awaits(line) == L0_CS = "WAIT_RVALID" /\ in_flight = line
Holds(line) == L0_CS \in {"VALID_L0", "WAIT_GNT"} /\ L0_buffer = line
Asks(line) == L0_CS = "WAIT_GNT" /\ LineOf(L0_addr_q) = line

(* w is the instruction at a, and whatever is behind it if that is short.      *)
Whole(w, a) == w[1] = a /\ (a \notin compressed => w[2] = Wrap(a + 1))

(* The last word of the line is kept.                                          *)
KeepsLast == rdata_last_q = Word(LineOf(addr_q), 3)
KeepsEnd == Whole(rdata_last_q, addr_q)

(* What remains of a counter when ID's instruction has left.                   *)
Left(i) == hwlp_counter[i] - IF hwlp_dec_cnt_id = i THEN 1 ELSE 0

(* i is the loop that jumps from a.                                            *)
JumpsFrom(a, i) == /\ i \in Loop /\ pc_is_end(a, i)
                   /\ \A j \in Loop : pc_is_end(a, j) => i <= j

AtLoopEnd == ~is_hwlp_q /\ JumpsFrom(addr_q, hwlp_dec_cnt_if)

LoopTarget == loops[hwlp_dec_cnt_if].start

(* What the buffers hold, and what has been asked for, in each state.          *)
BufferByState ==
  /\ CS = "IDLE" => L0_CS = "EMPTY"
  /\ CS = "BRANCHED" =>
       \/ Awaits(LineOf(addr_q))
       \/ L0_CS \in {"WAIT_GNT", "ABORTED_BRANCH"} /\ LineOf(L0_addr_q) = LineOf(addr_q)
  /\ CS = "NOT_VALID" => Slot(addr_q) = 0 /\ Asks(LineOf(addr_q))
  /\ CS = "NOT_VALID_GRANTED" => Slot(addr_q) = 0 /\ Awaits(LineOf(addr_q))
  /\ CS = "NOT_VALID_CROSS" =>
       /\ Slot(addr_q) = 7 /\ addr_q \notin compressed
       /\ Holds(LineOf(addr_q))
       /\ L0_CS = "WAIT_GNT" => Asks(NextLine(addr_q))
  /\ CS = "NOT_VALID_CROSS_GRANTED" =>
       /\ Slot(addr_q) = 7 /\ addr_q \notin compressed
       /\ Awaits(NextLine(addr_q)) /\ KeepsLast
  /\ CS = "VALID" =>
       /\ Slot(addr_q) = 7 => addr_q \in compressed
       /\ Holds(LineOf(addr_q))
       /\ L0_CS = "WAIT_GNT" /\ ~hwlp_jump(addr_q) =>
            WordIn(addr_q) = 3 /\ Asks(NextLine(addr_q))
  /\ CS = "VALID_CROSS" =>
       /\ Slot(addr_q) = 7 /\ Holds(NextLine(addr_q)) /\ KeepsLast
       /\ L0_CS = "WAIT_GNT" => hwlp_jump(addr_q)
  /\ CS = "VALID_GRANTED" =>
       /\ WordIn(addr_q) = 3 /\ (Slot(addr_q) = 7 => addr_q \in compressed)
       /\ L0_buffer = LineOf(addr_q) /\ Awaits(NextLine(addr_q)) /\ KeepsLast
  /\ CS = "VALID_FETCH_DONE" =>
       /\ WordIn(addr_q) = 3 /\ Holds(NextLine(addr_q)) /\ KeepsLast
       /\ L0_CS = "WAIT_GNT" => hwlp_jump(addr_q)
  /\ CS = "HWLP_WAIT_GNT" =>
       AtLoopEnd /\ L0_CS \in {"VALID_L0", "WAIT_GNT", "WAIT_RVALID"}
  /\ CS = "HWLP_GRANTED" =>
       AtLoopEnd /\ L0_addr_q = LoopTarget /\ Awaits(LineOf(LoopTarget)) /\ KeepsEnd
  /\ CS = "HWLP_GRANTED_WAIT" =>
       ~is_hwlp_q /\ L0_addr_q = addr_q /\ Awaits(LineOf(addr_q))
  /\ CS = "HWLP_FETCH_DONE" =>
       /\ AtLoopEnd /\ L0_CS = "VALID_L0" /\ L0_buffer = LineOf(LoopTarget)
       /\ KeepsEnd

(* The loops: the counters, the loop that was jumped to, and what is due.      *)
LoopsByState ==
  /\ \A i \in Loop : Left(i) = rounds[i] + IF Pending /\ hwlp_dec_cnt_if = i THEN 1 ELSE 0
  /\ \A i, j \in Loop : Left(i) >= 2 /\ Left(j) >= 2 => loops[i].start # loops[j].end
  /\ is_hwlp_q \/ CS = "HWLP_GRANTED_WAIT" =>
       /\ hwlp_dec_cnt_if \in Loop /\ addr_q = LoopTarget
       /\ \A j \in Loop : Left(j) >= 2 => loops[j].end # addr_q
  /\ due = IF CS = "HWLP_WAIT_GNT" THEN LoopTarget ELSE addr_q

Delivered == id.valid => id.pc = ordered /\ Whole(id.rdata, id.pc)

FetchInv == TypeOK /\ OneInFlight /\ BufferByState /\ LoopsByState /\ Delivered

-----------------------------------------------------------------------------
(* Addresses.                                                                  *)

\* An address is its line and its slot in it.
LEMMA Place ==
  ASSUME NEW a \in Nat
  PROVE  /\ LineOf(a) \in Nat /\ Slot(a) \in 0 .. 7 /\ a = 8 * LineOf(a) + Slot(a)
         /\ 2 * (a \div 2) = 8 * LineOf(a) + 2 * WordIn(a)
         /\ Upper(a) <=> Slot(a) \in {1, 3, 5, 7}
BY DEF LineOf, Slot, WordIn, Upper

\* The word of a line that a slot is in.
LEMMA Words ==
  ASSUME NEW a \in Nat
  PROVE  /\ WordIn(a) \in 0 .. 3
         /\ WordIn(a) = 0 <=> Slot(a) \in {0, 1}
         /\ WordIn(a) = 1 <=> Slot(a) \in {2, 3}
         /\ WordIn(a) = 2 <=> Slot(a) \in {4, 5}
         /\ WordIn(a) = 3 <=> Slot(a) \in {6, 7}
BY Place DEF WordIn

\* A line and a slot make the address they are of.
LEMMA Split ==
  ASSUME NEW l \in Nat, NEW s \in 0 .. 7
  PROVE  LineOf(8 * l + s) = l /\ Slot(8 * l + s) = s
BY DEF LineOf, Slot

\* What wrapping does to an address that is past the end by less than memory.
LEMMA Wraps ==
  ASSUME NEW x \in Nat, x < 16 * Lines
  PROVE  /\ x < 8 * Lines => Wrap(x) = x
         /\ ~(x < 8 * Lines) => Wrap(x) = x - 8 * Lines
BY LinesAssumption DEF Wrap

\* The line of an address is one of memory's.
LEMMA InLine ==
  ASSUME NEW a \in Addr
  PROVE  LineOf(a) \in Line
<1>1. Lines \in Nat /\ a \in Nat /\ a < 8 * Lines
  BY LinesAssumption DEF Addr
<1>2. LineOf(a) \in Nat /\ Slot(a) \in 0 .. 7 /\ a = 8 * LineOf(a) + Slot(a)
  BY <1>1, Place
<1>3. LineOf(a) < Lines
  BY <1>1, <1>2
<1> QED
  BY <1>1, <1>2, <1>3 DEF Line

\* So is the line behind it, which is the first after the last.
LEMMA LineBehind ==
  ASSUME NEW a \in Addr
  PROVE  /\ NextLine(a) \in Line
         /\ NextLine(a) = IF LineOf(a) = Lines - 1 THEN 0 ELSE LineOf(a) + 1
<1> DEFINE l == LineOf(a)
<1>1. l \in Nat /\ l < Lines
  BY InLine, LinesAssumption DEF Line
<1>2. Wrap(8 * l + 8) = IF l = Lines - 1 THEN 8 * 0 + 0 ELSE 8 * (l + 1) + 0
  BY <1>1, Wraps, LinesAssumption
<1>3. LineOf(8 * 0 + 0) = 0 /\ LineOf(8 * (l + 1) + 0) = l + 1
  BY <1>1, Split
<1> QED
  BY <1>1, <1>2, <1>3, LinesAssumption DEF NextLine, Line

\* One or two halfwords further: in the same line or in the one behind.
LEMMA Steps ==
  ASSUME NEW a \in Addr, NEW n \in {1, 2}
  PROVE  /\ Wrap(a + n) \in Addr
         /\ Slot(a) + n <= 7 => /\ Wrap(a + n) = a + n
                                /\ LineOf(Wrap(a + n)) = LineOf(a)
                                /\ Slot(Wrap(a + n)) = Slot(a) + n
         /\ Slot(a) + n > 7 => /\ Wrap(a + n) = 8 * NextLine(a) + (Slot(a) + n - 8)
                               /\ LineOf(Wrap(a + n)) = NextLine(a)
                               /\ Slot(Wrap(a + n)) = Slot(a) + n - 8
<1> DEFINE l == LineOf(a)
           s == Slot(a)
<1>1. /\ l \in Nat /\ l < Lines /\ s \in 0 .. 7 /\ a = 8 * l + s /\ a \in Nat
  BY InLine, Place, LinesAssumption DEF Line, Addr
<1>2. NextLine(a) \in Nat /\ NextLine(a) = IF l = Lines - 1 THEN 0 ELSE l + 1
  BY LineBehind DEF Line
<1>3. CASE s + n <= 7
  <2>1. Wrap(a + n) = 8 * l + (s + n) /\ s + n \in 0 .. 7
    BY <1>1, <1>3, Wraps, LinesAssumption
  <2>2. LineOf(8 * l + (s + n)) = l /\ Slot(8 * l + (s + n)) = s + n
    BY <2>1, <1>1, Split
  <2> QED
    BY <2>1, <2>2, <1>1, <1>3, LinesAssumption DEF Addr
<1>4. CASE s + n > 7
  <2>1. Wrap(a + n) = 8 * NextLine(a) + (s + n - 8) /\ s + n - 8 \in 0 .. 7
    <3>1. a + n = 8 * (l + 1) + (s + n - 8) /\ s + n - 8 \in 0 .. 7
      BY <1>1, <1>4
    <3>2. PICK x \in Nat : x = a + n /\ x < 16 * Lines
      BY <1>1, LinesAssumption
    <3>3. /\ x < 8 * Lines => Wrap(x) = x
          /\ ~(x < 8 * Lines) => Wrap(x) = x - 8 * Lines
      BY <3>2, Wraps
    <3> QED
      BY <1>1, <1>2, <3>1, <3>2, <3>3, LinesAssumption
  <2>2. /\ LineOf(8 * NextLine(a) + (s + n - 8)) = NextLine(a)
        /\ Slot(8 * NextLine(a) + (s + n - 8)) = s + n - 8
    BY <2>1, <1>2, Split
  <2> QED
    BY <2>1, <2>2, <1>1, <1>2, <1>4, LinesAssumption DEF Addr
<1> QED BY <1>1, <1>3, <1>4

\* The two addresses the prefetcher asks for are in the line they are meant to be.
LEMMA Asking ==
  ASSUME NEW a \in Addr
  PROVE  /\ Wrap(8 * LineOf(a) + 11) \in Addr
         /\ LineOf(Wrap(8 * LineOf(a) + 11)) = NextLine(a)
         /\ Wrap(2 * (a \div 2) + 2) \in Addr
         /\ LineOf(Wrap(2 * (a \div 2) + 2)) =
              IF WordIn(a) = 3 THEN NextLine(a) ELSE LineOf(a)
<1> DEFINE l == LineOf(a)
           w == WordIn(a)
           n == NextLine(a)
<1>1. l \in Nat /\ l < Lines /\ w \in 0 .. 3 /\ 2 * (a \div 2) = 8 * l + 2 * w
  BY InLine, Place, Words, LinesAssumption DEF Line, Addr
<1>2. n \in Nat /\ n < Lines /\ n = IF l = Lines - 1 THEN 0 ELSE l + 1
  BY LineBehind, LinesAssumption DEF Line
<1>3. Wrap(8 * l + 11) = 8 * n + 3
  BY <1>1, <1>2, Wraps, LinesAssumption
<1>4. LineOf(8 * n + 3) = n /\ 8 * n + 3 \in Addr
  <2>1. n \in Nat /\ 3 \in 0 .. 7
    BY <1>2
  <2>2. LineOf(8 * n + 3) = n
    BY <2>1, Split, Zenon
  <2> QED BY <1>2, <2>2, LinesAssumption DEF Addr
<1>5. CASE w = 3
  <2>1. Wrap(8 * l + 2 * w + 2) = 8 * n + 0
    BY <1>1, <1>2, <1>5, Wraps, LinesAssumption
  <2>2. LineOf(8 * n + 0) = n /\ 8 * n + 0 \in Addr
    <3>1. n \in Nat /\ 0 \in 0 .. 7
      BY <1>2
    <3>2. LineOf(8 * n + 0) = n
      BY <3>1, Split, Zenon
    <3> QED BY <1>2, <3>2, LinesAssumption DEF Addr
  <2> QED BY <2>1, <2>2, <1>1, <1>3, <1>4, <1>5
<1>6. CASE w # 3
  <2>1. Wrap(8 * l + 2 * w + 2) = 8 * l + (2 * w + 2) /\ 2 * w + 2 \in 0 .. 7
    BY <1>1, <1>6, Wraps, LinesAssumption
  <2>2. LineOf(8 * l + (2 * w + 2)) = l /\ 8 * l + (2 * w + 2) \in Addr
    <3>1. LineOf(8 * l + (2 * w + 2)) = l
      BY <1>1, <2>1, Split
    <3> QED BY <1>1, <2>1, <3>1, LinesAssumption DEF Addr
  <2> QED BY <2>1, <2>2, <1>1, <1>3, <1>4, <1>6
<1> QED BY <1>5, <1>6

\* The word at an address holds its halfword and the next, or the next word does.
LEMMA Content ==
  ASSUME NEW a \in Addr
  PROVE  /\ ~Upper(a) => /\ Word(LineOf(a), WordIn(a))[1] = a
                         /\ Word(LineOf(a), WordIn(a))[2] = Wrap(a + 1)
         /\ Upper(a) => /\ Word(LineOf(a), WordIn(a))[2] = a
                        /\ Slot(a) # 7 => Word(LineOf(a), (WordIn(a) + 1) % 4)[1] = Wrap(a + 1)
                        /\ Slot(a) = 7 => Word(NextLine(a), (WordIn(a) + 1) % 4)[1] = Wrap(a + 1)
<1> DEFINE l == LineOf(a)
           s == Slot(a)
           w == WordIn(a)
<1>1. l \in Nat /\ s \in 0 .. 7 /\ a = 8 * l + s /\ (Upper(a) <=> s \in {1, 3, 5, 7})
  BY InLine, Place, LinesAssumption DEF Line, Addr
<1>2. /\ s \in {0, 1} => w = 0
      /\ s \in {2, 3} => w = 1
      /\ s \in {4, 5} => w = 2
      /\ s \in {6, 7} => w = 3
  BY Words DEF Addr
<1>3. /\ s # 7 => Wrap(a + 1) = a + 1
      /\ s = 7 => Wrap(a + 1) = 8 * NextLine(a)
  BY <1>1, Steps, LineBehind DEF Line
<1>4. NextLine(a) \in Nat
  BY LineBehind DEF Line
<1> QED BY <1>1, <1>2, <1>3, <1>4 DEF Word

-----------------------------------------------------------------------------
(* The loops.                                                                  *)

Inputs == [branch: BOOLEAN, addr: Addr, advance: BOOLEAN, gnt: BOOLEAN,
           rvalid: BOOLEAN, hwloop: BOOLEAN, target: Addr]

(* A clock edge with what the block sees of the loops.                         *)
Clocked(in, clear) == /\ in \in Inputs /\ clear \in BOOLEAN
                      /\ in.hwloop = hwlp_jump(addr_q)
                      /\ in.target = hwlp_target(addr_q)
                      /\ Edge(in, clear)

\* A nonempty set of naturals has a least member.
LEMMA Least ==
  ASSUME NEW T, T \subseteq Nat, T # {}
  PROVE  \E m \in T : \A k \in T : m <= k
<1> DEFINE R == {ss \in Nat \X Nat : ss[1] < ss[2]}
<1>1. IsWellFoundedOn(R, Nat)
  BY NatLessThanWellFounded DEF OpToRel
<1> HIDE DEF R
<1>2. \E x \in T : \A y \in T : ~ (<<y, x>> \in R)
  BY <1>1, WFMin
<1>3. \A x, y \in Nat : <<y, x>> \notin R => x <= y
  BY DEF R
<1>4. QED BY <1>2, <1>3

\* Among the loops that jump from an address there is a first, and one only.
LEMMA FirstJumps ==
  ASSUME NEW a, hwlp_jump(a)
  PROVE  JumpsFrom(a, Ending(a))
<1> DEFINE T == {i \in Loop : pc_is_end(a, i)}
<1>1. T # {} /\ T \subseteq Nat
  BY NLoopsAssumption DEF hwlp_jump, Loop
<1>2. \E m \in T : \A k \in T : m <= k
  BY <1>1, Least
<1>3. \E i \in Loop : pc_is_end(a, i) /\ \A j \in Loop : pc_is_end(a, j) => i <= j
  BY <1>2
<1> QED BY <1>3, Zenon DEF Ending, JumpsFrom

\* There is one such loop only.
LEMMA OneJumps ==
  ASSUME NEW a, NEW i, NEW j, JumpsFrom(a, i), JumpsFrom(a, j)
  PROVE  i = j
BY NLoopsAssumption DEF JumpsFrom, Loop

\* The comparator takes the decrement in ID into account.
LEMMA EndsWhenLeft ==
  ASSUME TypeOK, NEW a, NEW i \in Loop
  PROVE  pc_is_end(a, i) <=> loops[i].end = a /\ Left(i) >= 2
BY DEF pc_is_end, Left, TypeOK

\* What remains of the counters changes when a loop's first instruction is taken.
LEMMA LeftEdge ==
  ASSUME TypeOK, TypeOK', NEW in, NEW clear, Clocked(in, clear), NEW i \in Loop
  PROVE  Left(i)' = Left(i) - IF ready(in) /\ is_hwlp_q /\ hwlp_dec_cnt_if = i THEN 1 ELSE 0
<1>1. /\ hwlp_counter'[i] = IF clear /\ hwlp_dec_cnt_id = i THEN hwlp_counter[i] - 1
                            ELSE hwlp_counter[i]
      /\ hwlp_counter[i] \in Int
  BY DEF Clocked, Edge, HwLoopEdge, TypeOK
<1>2. ready(in) => clear
  BY DEF Clocked, Edge, ready
<1>3. i # NoLoop
  BY NLoopsAssumption DEF Loop, NoLoop
<1>4. id' = IF ready(in)
        THEN [valid |-> TRUE, pc |-> addr_q, rdata |-> rdata_o(in),
              hwlp |-> is_hwlp_q,
              dec |-> IF is_hwlp_q THEN hwlp_dec_cnt_if ELSE NoLoop]
        ELSE IF clear THEN NoInstruction ELSE id
  BY DEF Clocked, Edge, IfIdEdge
<1>5. hwlp_dec_cnt_id' = IF ready(in) THEN IF is_hwlp_q THEN hwlp_dec_cnt_if ELSE NoLoop
                         ELSE IF clear THEN NoLoop ELSE hwlp_dec_cnt_id
  BY <1>4 DEF hwlp_dec_cnt_id, NoInstruction, TypeOK
<1> QED BY <1>1, <1>2, <1>3, <1>5 DEF Left, TypeOK

\* What the block sees of the loops in a cycle, and what becomes of it.
LoopFacts(in) ==
  /\ in.hwloop => /\ ~is_hwlp_q /\ hwlp_dec_cnt_if' \in Loop
                  /\ JumpsFrom(addr_q, hwlp_dec_cnt_if') /\ in.target = LoopTarget'
  /\ ~in.hwloop => hwlp_dec_cnt_if' = hwlp_dec_cnt_if /\ LoopTarget' = LoopTarget
  /\ in.hwloop /\ addr_q' = addr_q /\ ~is_hwlp_q' => AtLoopEnd'
  /\ AtLoopEnd => /\ in.hwloop /\ hwlp_dec_cnt_if' = hwlp_dec_cnt_if
                  /\ in.target = LoopTarget
  /\ ~ready(in) /\ addr_q' = addr_q => (hwlp_jump(addr_q)' <=> in.hwloop)

\* Those facts hold in every cycle: a loop that is being jumped to ends nowhere else.
LEMMA LoopsSeen ==
  ASSUME FetchInv, TypeOK', NEW in, NEW clear, Clocked(in, clear)
  PROVE  LoopFacts(in)
<1> DEFINE e == Ending(addr_q)
<1>1. /\ loops' = loops
      /\ hwlp_dec_cnt_if' = IF in.hwloop THEN e ELSE hwlp_dec_cnt_if
      /\ in.hwloop <=> hwlp_jump(addr_q)
      /\ in.hwloop => in.target = loops[e].start
  BY DEF Clocked, Edge, HwLoopEdge, hwlp_target
<1>2. in.hwloop => e \in Loop /\ JumpsFrom(addr_q, e)
  BY <1>1, FirstJumps DEF JumpsFrom
<1>3. in.hwloop => ~is_hwlp_q
  <2>1. SUFFICES ASSUME in.hwloop, is_hwlp_q PROVE FALSE
    BY DEF FetchInv, TypeOK
  <2>2. loops[e].end = addr_q /\ Left(e) >= 2 /\ e \in Loop
    BY <1>2, <2>1, EndsWhenLeft DEF FetchInv, JumpsFrom
  <2> QED BY <2>1, <2>2 DEF FetchInv, LoopsByState
<1>4. AtLoopEnd => in.hwloop /\ e = hwlp_dec_cnt_if
  BY <1>1, <1>2, OneJumps DEF AtLoopEnd, JumpsFrom, hwlp_jump
<1>5. ~is_hwlp_q \/ ~ready(in) => \A i \in Loop : Left(i)' = Left(i)
  BY LeftEdge DEF FetchInv, Left, TypeOK
<1>6. (~is_hwlp_q \/ ~ready(in)) /\ addr_q' = addr_q =>
        \A i \in Loop : pc_is_end(addr_q, i)' <=> pc_is_end(addr_q, i)
  <2> SUFFICES ASSUME ~is_hwlp_q \/ ~ready(in), addr_q' = addr_q, NEW i \in Loop
               PROVE  pc_is_end(addr_q, i)' <=> pc_is_end(addr_q, i)
    OBVIOUS
  <2>1. pc_is_end(addr_q, i) <=> loops[i].end = addr_q /\ Left(i) >= 2
    BY EndsWhenLeft DEF FetchInv
  <2>2. pc_is_end(addr_q, i)' <=> loops'[i].end = addr_q' /\ Left(i)' >= 2
    BY DEF pc_is_end, Left, TypeOK
  <2> QED BY <1>1, <1>5, <2>1, <2>2
<1>7. in.hwloop /\ addr_q' = addr_q /\ ~is_hwlp_q' => AtLoopEnd'
  BY <1>1, <1>2, <1>3, <1>6 DEF AtLoopEnd, JumpsFrom
<1>8. ~ready(in) /\ addr_q' = addr_q => (hwlp_jump(addr_q)' <=> in.hwloop)
  BY <1>1, <1>6 DEF hwlp_jump
<1>9. /\ in.hwloop => in.target = LoopTarget'
      /\ ~in.hwloop => LoopTarget' = LoopTarget
      /\ AtLoopEnd => in.target = LoopTarget
  BY <1>1, <1>4 DEF LoopTarget
<1> QED BY <1>1, <1>2, <1>3, <1>4, <1>7, <1>8, <1>9 DEF LoopFacts

-----------------------------------------------------------------------------
(* What is served.                                                             *)

(* In each valid state the word served and the one behind it are the right     *)
(* ones, or the whole instruction is kept.                                     *)
LEMMA WordServed ==
  ASSUME FetchInv, NEW in \in Inputs, valid(in), in.rvalid => in_flight # NoLine
  PROVE  IF use_hwlp THEN Whole(rdata(in), addr_q) /\ rdata(in) = rdata_last_q
         ELSE /\ rdata(in) = Word(LineOf(addr_q), WordIn(addr_q))
              /\ Slot(addr_q) # 7 /\ Upper(addr_q) => rdata_L0(in) = LineOf(addr_q)
              /\ Slot(addr_q) = 7 /\ addr_q \notin compressed =>
                   rdata_L0(in) = NextLine(addr_q)
<1> DEFINE l == LineOf(addr_q)
<1>1. /\ addr_q \in Addr /\ addr_q \in Nat /\ l \in Line
      /\ WordIn(addr_q) = 3 <=> Slot(addr_q) \in {6, 7}
      /\ Slot(addr_q) = 0 => ~Upper(addr_q)
      /\ Slot(addr_q) = 6 => ~Upper(addr_q)
      /\ Slot(addr_q) = 7 => Upper(addr_q)
  BY InLine, Words, Place DEF FetchInv, TypeOK, Addr
<1>2. NoLine \notin Line /\ NextLine(addr_q) \in Line
  BY <1>1, LineBehind DEF Line, NoLine
<1>3. valid(in) => CS \in {"BRANCHED", "NOT_VALID_GRANTED", "NOT_VALID_CROSS_GRANTED",
        "VALID", "VALID_CROSS", "VALID_GRANTED", "VALID_FETCH_DONE", "HWLP_GRANTED",
        "HWLP_FETCH_DONE"}
  BY DEF valid
<1>4. CASE CS \in {"HWLP_GRANTED", "HWLP_FETCH_DONE"}
  BY <1>4 DEF FetchInv, BufferByState, KeepsEnd, use_hwlp, rdata
<1>5. CASE CS = "BRANCHED"
  <2>1. L0_CS = "WAIT_RVALID" /\ in.rvalid /\ in_flight = l /\ ~is_crossword(in)
    BY <1>5 DEF FetchInv, BufferByState, valid, fetch_valid, Awaits
  <2>2. rdata_L0(in) = l /\ rdata(in) = Word(l, WordIn(addr_q))
    BY <1>5, <2>1 DEF rdata_L0, rdata, use_last, use_hwlp
  <2>3. Slot(addr_q) = 7 => Compressed(Word(l, 3)[2])
    BY <2>1, <2>2 DEF is_crossword, Crossword, upper_is_compressed
  <2>4. Slot(addr_q) = 7 => Word(l, 3)[2] = addr_q /\ ~(addr_q < 0)
    BY <1>1, Content
  <2> QED BY <1>1, <1>5, <2>2, <2>3, <2>4 DEF use_hwlp, Compressed
<1>6. CASE CS = "NOT_VALID_GRANTED"
  BY <1>1, <1>6 DEF FetchInv, BufferByState, valid, fetch_valid, Awaits, rdata_L0, rdata,
                    use_last, use_hwlp
<1>7. CASE CS = "NOT_VALID_CROSS_GRANTED"
  BY <1>1, <1>7 DEF FetchInv, BufferByState, valid, fetch_valid, Awaits, rdata_L0, rdata,
                    use_last, use_hwlp, KeepsLast
<1>8. CASE CS = "VALID"
  <2>1. ~in.rvalid
    BY <1>8 DEF FetchInv, BufferByState, Holds, OneInFlight
  <2> QED BY <1>1, <1>8, <2>1 DEF FetchInv, BufferByState, Holds, rdata_L0, rdata, use_last,
                                  use_hwlp
<1>9. CASE CS \in {"VALID_CROSS", "VALID_FETCH_DONE"}
  <2>1. ~in.rvalid
    BY <1>9 DEF FetchInv, BufferByState, Holds, OneInFlight
  <2> QED BY <1>1, <1>9, <2>1 DEF FetchInv, BufferByState, Holds, rdata_L0, rdata, use_last,
                                  use_hwlp, KeepsLast
<1>10. CASE CS = "VALID_GRANTED"
  BY <1>1, <1>10 DEF FetchInv, BufferByState, Awaits, rdata_L0, rdata, use_last, use_hwlp,
                     KeepsLast
<1> QED BY <1>3, <1>4, <1>5, <1>6, <1>7, <1>8, <1>9, <1>10

(* So the instruction offered is the one at the address served, and the next   *)
(* address is the one behind it.                                               *)
LEMMA InstructionServed ==
  ASSUME FetchInv, NEW in \in Inputs, valid(in), in.rvalid => in_flight # NoLine
  PROVE  /\ Whole(rdata_o(in), addr_q)
         /\ ~use_hwlp => Following(in) = Wrap(addr_q + IF addr_q \in compressed THEN 1 ELSE 2)
<1> DEFINE a == addr_q
           r == rdata(in)
<1>1. a \in Addr /\ ~(a < 0)
  BY DEF FetchInv, TypeOK, Addr
<1>2. CASE use_hwlp
  BY <1>2, WordServed DEF rdata_o
<1>3. CASE ~use_hwlp /\ ~Upper(a)
  <2>1. r[1] = a /\ r[2] = Wrap(a + 1)
    BY <1>1, <1>3, WordServed, Content
  <2> QED BY <1>1, <1>3, <2>1 DEF rdata_o, Whole, Following, aligned_is_compressed, Compressed
<1>4. CASE ~use_hwlp /\ Upper(a)
  <2>1. r[2] = a
    BY <1>1, <1>4, WordServed, Content
  <2>2. rdata_o(in) = <<a, Word(rdata_L0(in), (WordIn(a) + 1) % 4)[1]>>
    BY <1>4, <2>1 DEF rdata_o, rdata_unaligned
  <2>3. a \notin compressed => Word(rdata_L0(in), (WordIn(a) + 1) % 4)[1] = Wrap(a + 1)
    BY <1>1, <1>4, WordServed, Content
  <2> QED BY <1>1, <1>4, <2>1, <2>2, <2>3 DEF Whole, Following, unaligned_is_compressed,
                                            Compressed
<1> QED BY <1>2, <1>3, <1>4

-----------------------------------------------------------------------------
(* Types.                                                                      *)

\* If a loop goes round, the first of those that do is the one chosen.
LEMMA FirstRounds ==
  ASSUME \E i \in Loop : Round(i)
  PROVE  \E e \in Loop : FirstRound(e) /\ e = CHOOSE i \in Loop : FirstRound(i)
<1> DEFINE T == {i \in Loop : Round(i)}
<1>1. T # {} /\ T \subseteq Nat
  BY NLoopsAssumption DEF Loop
<1>2. \E m \in T : \A k \in T : m <= k
  BY <1>1, Least
<1>3. \E i \in Loop : FirstRound(i)
  BY <1>2 DEF FirstRound
<1> QED BY <1>3, Zenon

\* What is on offer is made of halfwords.
LEMMA WordTypes ==
  ASSUME TypeOK, NEW in \in Inputs
  PROVE  /\ rdata_L0(in) \in Int
         /\ rdata(in) \in Int \X Int /\ rdata_o(in) \in Int \X Int
<1>1. rdata_L0(in) \in Int
  BY DEF TypeOK, rdata_L0, Line, NoLine
<1>2. WordIn(addr_q) \in Int /\ (WordIn(addr_q) + 1) % 4 \in Int
  BY Words DEF TypeOK, Addr
<1>3. Word(rdata_L0(in), WordIn(addr_q)) \in Int \X Int
  BY <1>1, <1>2 DEF Word
<1>4. Word(rdata_L0(in), (WordIn(addr_q) + 1) % 4)[1] \in Int
  BY <1>1, <1>2 DEF Word
<1>5. rdata(in) \in Int \X Int
  BY <1>3 DEF rdata, TypeOK
<1>6. rdata_unaligned(in) \in Int \X Int
  BY <1>4, <1>5 DEF rdata_unaligned
<1> QED BY <1>1, <1>5, <1>6 DEF rdata_o

\* What is served next and what is asked for are addresses.
LEMMA AddressTypes ==
  ASSUME TypeOK, NEW in \in Inputs
  PROVE  /\ Following(in) \in Addr /\ addr_int(in) \in Addr
         /\ addr_real_next(in) \in Addr /\ instr_addr(in) \in Addr
<1>1. Following(in) \in Addr
  BY Steps DEF Following, TypeOK
<1>2. addr_real_next(in) \in Addr
  BY Asking DEF addr_real_next, TypeOK
<1> QED BY <1>1, <1>2 DEF addr_int, instr_addr, TypeOK, Inputs

\* Every transition leads to a state.
LEMMA StateTypes ==
  ASSUME TypeOK, NEW in \in Inputs, Transition(in)
  PROVE  CS' \in States
<1>1. CASE in.branch
  BY <1>1 DEF Transition, States
<1>2. CASE ~in.branch /\ Looping(in)
  BY <1>2 DEF Transition, States, LoopEnd
<1>3. CASE ~in.branch /\ ~Looping(in)
  <2>1. CASE CS \in {"IDLE", "BRANCHED", "NOT_VALID", "NOT_VALID_GRANTED"}
    BY <1>3, <2>1 DEF Transition, States, Idle, Branched, NotValid, NotValidGranted,
         NotValidCross, NotValidCrossGranted, Valid, ValidCross, ValidGranted, ValidFetchDone,
         HwlpWaitGnt, HwlpGranted, HwlpGrantedWait, HwlpFetchDone, Then, Crossing, Missing
  <2>2. CASE CS \in {"NOT_VALID_CROSS", "NOT_VALID_CROSS_GRANTED", "VALID", "VALID_CROSS"}
    BY <1>3, <2>2 DEF Transition, States, Idle, Branched, NotValid, NotValidGranted,
         NotValidCross, NotValidCrossGranted, Valid, ValidCross, ValidGranted, ValidFetchDone,
         HwlpWaitGnt, HwlpGranted, HwlpGrantedWait, HwlpFetchDone, Then, Crossing, Missing
  <2>3. CASE CS \in {"VALID_GRANTED", "VALID_FETCH_DONE"}
    BY <1>3, <2>3 DEF Transition, States, Idle, Branched, NotValid, NotValidGranted,
         NotValidCross, NotValidCrossGranted, Valid, ValidCross, ValidGranted, ValidFetchDone,
         HwlpWaitGnt, HwlpGranted, HwlpGrantedWait, HwlpFetchDone, LastServed
  <2>4. CASE CS \in {"HWLP_WAIT_GNT", "HWLP_GRANTED", "HWLP_GRANTED_WAIT", "HWLP_FETCH_DONE"}
    BY <1>3, <2>4 DEF Transition, States, Idle, Branched, NotValid, NotValidGranted,
         NotValidCross, NotValidCrossGranted, Valid, ValidCross, ValidGranted, ValidFetchDone,
         HwlpWaitGnt, HwlpGranted, HwlpGrantedWait, HwlpFetchDone, LoopStart, Then
  <2> QED BY <2>1, <2>2, <2>3, <2>4 DEF TypeOK, States
<1> QED BY <1>1, <1>2, <1>3 DEF Inputs

\* A cycle keeps every register within its type.
LEMMA TypesKept ==
  ASSUME TypeOK, NEW in, NEW clear, Clocked(in, clear)
  PROVE  TypeOK'
<1>1. in \in Inputs /\ PrefetchEdge(in)
  BY DEF Clocked, Edge
<1>2. CS' \in States
  BY <1>1, StateTypes DEF PrefetchEdge
<1>3. addr_q' \in Addr /\ is_hwlp_q' \in BOOLEAN
  BY <1>1, AddressTypes DEF PrefetchEdge, Address, Inputs, TypeOK
<1>4. rdata_last_q' \in Int \X Int
  <2>1. Word(rdata_L0(in), 3) \in Int \X Int
    BY <1>1, WordTypes DEF Word
  <2> QED BY <1>1, <2>1, WordTypes DEF PrefetchEdge, Saved, TypeOK
<1>5. L0_CS' \in L0States /\ L0_addr_q' \in Addr
  BY <1>1, AddressTypes DEF PrefetchEdge, L0Edge, TypeOK, L0States, Unasked
<1>6. L0_buffer' \in Int /\ in_flight' \in Line \cup {NoLine}
  <2>1. LineOf(instr_addr(in)) \in Line
    BY <1>1, AddressTypes, InLine
  <2> QED BY <1>1, <2>1 DEF PrefetchEdge, L0Edge, TypeOK, Line, NoLine
<1>7. /\ loops' = loops
      /\ hwlp_dec_cnt_if' \in Loop \cup {NoLoop}
      /\ hwlp_counter' \in [Loop -> Int]
  <2>1. HwLoopEdge(addr_q, clear)
    BY DEF Clocked, Edge
  <2>2. hwlp_jump(addr_q) => Ending(addr_q) \in Loop
    BY FirstJumps DEF JumpsFrom
  <2> QED BY <2>1, <2>2 DEF HwLoopEdge, TypeOK
<1>8. id' \in [valid: BOOLEAN, pc: Addr, rdata: Int \X Int, hwlp: BOOLEAN,
               dec: Loop \cup {NoLoop}]
  <2>1. 0 \in Addr /\ Word(ResetLine, 0) \in Int \X Int
    BY LinesAssumption DEF Addr, Word, ResetLine
  <2>2. NoInstruction \in [valid: BOOLEAN, pc: Addr, rdata: Int \X Int, hwlp: BOOLEAN,
                           dec: Loop \cup {NoLoop}]
    BY <2>1 DEF NoInstruction
  <2>3. rdata_o(in) \in Int \X Int
    BY <1>1, WordTypes
  <2> QED BY <2>2, <2>3 DEF Clocked, Edge, IfIdEdge, TypeOK
<1>9. due' \in Addr /\ rounds' \in [Loop -> Int] /\ ordered' \in Addr
  <2>1. CASE in.branch /\ Redirected(in.addr)
    BY <1>1, <1>7, <2>1 DEF Redirected, Inputs, TypeOK
  <2>2. CASE ready(in) /\ InOrder
    <3>1. Behind \in Addr
      BY Steps DEF Behind, TypeOK
    <3>2. due' \in Addr
      BY <2>2, <3>1, FirstRounds DEF InOrder, TypeOK
    <3> QED BY <2>2, <3>2 DEF InOrder, TypeOK
  <2>3. CASE UNCHANGED <<due, rounds, ordered>>
    BY <2>3 DEF TypeOK
  <2> QED BY <2>1, <2>2, <2>3 DEF Clocked, Edge, Monitor
<1> QED BY <1>2, <1>3, <1>4, <1>5, <1>6, <1>7, <1>8, <1>9 DEF TypeOK

-----------------------------------------------------------------------------
(* One cycle of the prefetcher.                                                *)

(* Where the next instruction is, as the prefetcher judges it.                 *)
LEMMA NextServed ==
  ASSUME FetchInv, NEW in \in Inputs, valid(in), in.rvalid => in_flight # NoLine, ~use_hwlp,
         NEW b, b = Following(in)
  PROVE  /\ b \in Addr
         /\ NextIsLast(in) => /\ LineOf(b) = LineOf(addr_q) /\ Slot(b) = 7
                              /\ WordIn(b) = 3 /\ NextLine(b) = NextLine(addr_q)
                              /\ rdata_L0(in) = LineOf(addr_q) =>
                                   (upper_is_compressed(in) <=> b \in compressed)
         /\ ~NextIsLast(in) /\ WordIn(addr_q) # 3 => /\ LineOf(b) = LineOf(addr_q)
                                                     /\ Slot(b) # 7
         /\ ~NextIsLast(in) /\ WordIn(addr_q) = 3 =>
              /\ LineOf(b) = NextLine(addr_q) /\ Slot(b) \in {0, 1}
              /\ Slot(addr_q) = 7 /\ addr_q \in compressed => Slot(b) = 0
              /\ Slot(addr_q) # 7 => Slot(b) = 0
<1> DEFINE a == addr_q
           n == IF a \in compressed THEN 1 ELSE 2
           s == Slot(a)
           l == LineOf(a)
<1>1. /\ a \in Addr /\ a \in Nat /\ s \in 0 .. 7 /\ (Upper(a) <=> s \in {1, 3, 5, 7})
      /\ WordIn(a) = 3 <=> s \in {6, 7}
  BY Place, Words DEF FetchInv, TypeOK, Addr
<1>2. b = Wrap(a + n) /\ n \in {1, 2}
  BY InstructionServed
<1>3. /\ b \in Addr
      /\ s + n <= 7 => LineOf(b) = l /\ Slot(b) = s + n
      /\ s + n > 7 => LineOf(b) = NextLine(a) /\ Slot(b) = s + n - 8
  BY <1>1, <1>2, Steps
<1>4. /\ s = 6 => (aligned_is_compressed(in) <=> n = 1)
      /\ s = 5 => (unaligned_is_compressed(in) <=> n = 1)
  <2>1. /\ s = 6 => rdata(in)[1] = a
        /\ s = 5 => rdata(in)[2] = a
    BY <1>1, WordServed, Content
  <2> QED BY <1>1, <2>1 DEF aligned_is_compressed, unaligned_is_compressed, Compressed, Addr
<1>5. NextIsLast(in) <=> s + n = 7 /\ s \in {5, 6}
  BY <1>1, <1>2, <1>4 DEF NextIsLast
<1>6. s + n <= 7 /\ Slot(b) = 7 =>
        /\ b = 8 * l + 7 /\ WordIn(b) = 3 /\ NextLine(b) = NextLine(a)
        /\ rdata_L0(in) = l => (upper_is_compressed(in) <=> b \in compressed)
  <2> SUFFICES ASSUME s + n <= 7, Slot(b) = 7
               PROVE  /\ b = 8 * l + 7 /\ WordIn(b) = 3 /\ NextLine(b) = NextLine(a)
                      /\ rdata_L0(in) = l => (upper_is_compressed(in) <=> b \in compressed)
    OBVIOUS
  <2>1. b = 8 * LineOf(b) + Slot(b) /\ WordIn(b) = 3 /\ b \in Nat
    BY <1>3, Place, Words DEF Addr
  <2>2. b = 8 * l + 7 /\ l \in Nat
    BY <1>3, <2>1, <1>1, Place
  <2>3. rdata_L0(in) = l => Word(rdata_L0(in), 3)[2] = b
    BY <2>2 DEF Word
  <2> QED BY <1>3, <2>1, <2>2, <2>3 DEF NextLine, upper_is_compressed, Compressed
<1> QED BY <1>1, <1>2, <1>3, <1>5, <1>6

(* What a cycle without a jump from outside does, whatever state it is in.     *)
Outcome(in) ==
  /\ ready(in) /\ in.hwloop =>
       /\ Pending'
       /\ IF CS' = "HWLP_WAIT_GNT" THEN addr_q' = addr_q ELSE addr_q' = in.target
  /\ ready(in) /\ ~in.hwloop =>
       ~Pending' /\ addr_q' = Following(in) /\ CS' # "HWLP_WAIT_GNT" /\ ~use_hwlp
  /\ ~ready(in) =>
       /\ Pending' <=> Pending
       /\ IF CS = "HWLP_WAIT_GNT" /\ CS' # "HWLP_WAIT_GNT" THEN addr_q' = in.target
          ELSE addr_q' = addr_q
       /\ CS # "HWLP_WAIT_GNT" => CS' # "HWLP_WAIT_GNT"

Cycle(in) == BufferByState' /\ Outcome(in)

\* Without a jump from outside or to a loop's start each state has its own step.
LEMMA OneState ==
  ASSUME NEW in, Transition(in), ~in.branch
  PROVE  IF Looping(in) THEN LoopEnd(in)
         ELSE /\ CS = "IDLE" => Idle(in)
              /\ CS = "BRANCHED" => Branched(in)
              /\ CS = "NOT_VALID" => NotValid(in)
              /\ CS = "NOT_VALID_GRANTED" => NotValidGranted(in)
              /\ CS = "NOT_VALID_CROSS" => NotValidCross(in)
              /\ CS = "NOT_VALID_CROSS_GRANTED" => NotValidCrossGranted(in)
              /\ CS = "VALID" => Valid(in)
              /\ CS = "VALID_CROSS" => ValidCross(in)
              /\ CS = "VALID_GRANTED" => ValidGranted(in)
              /\ CS = "VALID_FETCH_DONE" => ValidFetchDone(in)
              /\ CS = "HWLP_WAIT_GNT" => HwlpWaitGnt(in)
              /\ CS = "HWLP_GRANTED" => HwlpGranted(in)
              /\ CS = "HWLP_GRANTED_WAIT" => HwlpGrantedWait(in)
              /\ CS = "HWLP_FETCH_DONE" => HwlpFetchDone(in)
BY DEF Transition, Idle, Branched, NotValid, NotValidGranted, NotValidCross,
       NotValidCrossGranted, Valid, ValidCross, ValidGranted, ValidFetchDone,
       HwlpWaitGnt, HwlpGranted, HwlpGrantedWait, HwlpFetchDone

\* The line is there: the next instruction may be in it, cross it, or be behind it.
LEMMA FromValid ==
  ASSUME FetchInv, TypeOK', NEW in, NEW clear, Clocked(in, clear), ~in.branch, CS = "VALID"
  PROVE  Cycle(in)
<1> DEFINE l == LineOf(addr_q)
           n == NextLine(addr_q)
<1>1. /\ in \in Inputs /\ ~in.rvalid /\ rdata_L0(in) = l
      /\ L0_CS \in {"VALID_L0", "WAIT_GNT"} /\ L0_buffer = l
      /\ Slot(addr_q) = 7 => addr_q \in compressed
      /\ L0_CS = "WAIT_GNT" /\ ~in.hwloop => WordIn(addr_q) = 3 /\ LineOf(L0_addr_q) = n
  BY DEF Clocked, Edge, FetchInv, OneInFlight, BufferByState, Holds, Asks, rdata_L0
<1>2. LoopFacts(in)
  BY LoopsSeen
<1>3. valid(in) /\ ~use_hwlp /\ (do_hwlp(in) <=> in.hwloop)
  BY <1>1 DEF valid, use_hwlp, do_hwlp, Inputs
<1>4. /\ Asked(in) <=> \/ in.hwloop \/ WordIn(addr_q) = 3
                       \/ ready(in) /\ next_is_crossword(in)
      /\ instr_req_o(in) <=> Asked(in) \/ L0_CS = "WAIT_GNT"
      /\ in.gnt => instr_req_o(in)
      /\ in.hwloop => instr_addr(in) = in.target
      /\ ~in.hwloop /\ Asked(in) => LineOf(instr_addr(in)) = n
  <2>1. LineOf(addr_real_next(in)) = IF WordIn(addr_q) = 3 \/ next_is_crossword(in) THEN n ELSE l
    BY Asking DEF addr_real_next, FetchInv, TypeOK
  <2> QED BY <1>1, <1>3, <2>1 DEF Clocked, Edge, Asked, hwlp_i, do_fetch, fetch_possible,
                                  instr_req_o, instr_addr
<1>5. /\ L0_CS' = IF ~instr_req_o(in) THEN L0_CS
                  ELSE IF in.gnt THEN "WAIT_RVALID" ELSE "WAIT_GNT"
      /\ L0_buffer' = l
      /\ in.gnt => in_flight' = LineOf(instr_addr(in))
      /\ L0_addr_q' = IF Asked(in) THEN instr_addr(in) ELSE L0_addr_q
      /\ compressed' = compressed
  BY <1>1 DEF Clocked, Edge, PrefetchEdge, L0Edge, Unasked, fetch_valid
<1>6. /\ addr_q' = IF in.hwloop /\ ready(in) THEN IF in.gnt THEN in.target ELSE addr_q
                   ELSE IF ready(in) THEN Following(in) ELSE addr_q
      /\ is_hwlp_q' <=> (in.hwloop /\ ready(in) /\ in.gnt) \/ (is_hwlp_q /\ ~ready(in))
  <2>1. /\ ToLoopStart(in) <=> in.hwloop /\ ready(in) /\ in.gnt
        /\ WaitsForGrant(in) <=> in.hwloop /\ ready(in) /\ ~in.gnt
    BY <1>3 DEF ToLoopStart, WaitsForGrant, Looping
  <2>2. StartsLoop(in) <=> in.hwloop /\ ready(in) /\ in.gnt
    BY <2>1 DEF StartsLoop
  <2>3. Address(in)
    BY DEF Clocked, Edge, PrefetchEdge
  <2>4. is_hwlp_q' <=> StartsLoop(in) \/ (is_hwlp_q /\ ~ready(in))
    BY <2>3 DEF Address
  <2> QED BY <2>1, <2>2, <2>3, <2>4 DEF Address, addr_int
<1>7. Saved(in) /\ Transition(in)
  BY DEF Clocked, Edge, PrefetchEdge
<1>8. CASE in.hwloop
  <2>1. CS' = IF ready(in) THEN IF in.gnt THEN "BRANCHED" ELSE "HWLP_WAIT_GNT"
              ELSE IF in.gnt THEN "HWLP_GRANTED" ELSE "VALID"
    BY <1>3, <1>7, <1>8, OneState DEF Looping, LoopEnd, Valid, Then
  <2>2. ~ready(in) /\ in.gnt => rdata_last_q' = rdata_o(in) /\ Whole(rdata_o(in), addr_q)
    BY <1>1, <1>3, <1>7, <1>8, InstructionServed DEF Saved, save_rdata_hwlp
  <2>3. BufferByState'
    BY <1>1, <1>2, <1>3, <1>4, <1>5, <1>6, <1>8, <2>1, <2>2
       DEF LoopFacts, BufferByState, Awaits, Holds, Asks, KeepsEnd, Whole, AtLoopEnd
  <2> QED BY <1>2, <1>3, <1>6, <1>8, <2>1, <2>3 DEF Cycle, Outcome, Pending, LoopFacts
<1>9. CASE ~in.hwloop /\ ~ready(in)
  <2>1. CS' = IF in.gnt THEN "VALID_GRANTED" ELSE "VALID"
    BY <1>3, <1>7, <1>9, OneState DEF Looping, LoopEnd, Valid, Then
  <2>2. in.gnt => WordIn(addr_q) = 3 /\ rdata_last_q' = Word(l, 3)
    BY <1>1, <1>3, <1>4, <1>7, <1>9, WordServed DEF Saved, save_rdata_hwlp, save_rdata_last
  <2>3. BufferByState'
    BY <1>1, <1>2, <1>3, <1>4, <1>5, <1>6, <1>9, <2>1, <2>2
       DEF LoopFacts, BufferByState, Awaits, Holds, Asks, KeepsLast
  <2> QED BY <1>2, <1>3, <1>6, <1>9, <2>1, <2>3 DEF Cycle, Outcome, Pending, LoopFacts
<1>10. CASE ~in.hwloop /\ ready(in)
  <2> DEFINE b == Following(in)
  <2>1. /\ NextIsLast(in) => /\ LineOf(b) = l /\ Slot(b) = 7 /\ WordIn(b) = 3 /\ NextLine(b) = n
                             /\ upper_is_compressed(in) <=> b \in compressed
        /\ ~NextIsLast(in) /\ WordIn(addr_q) # 3 => LineOf(b) = l /\ Slot(b) # 7
        /\ ~NextIsLast(in) /\ WordIn(addr_q) = 3 => LineOf(b) = n /\ Slot(b) = 0
    BY <1>1, <1>3, NextServed, Words
  <2>2. CS' = IF next_is_crossword(in)
              THEN IF in.gnt THEN "NOT_VALID_CROSS_GRANTED" ELSE "NOT_VALID_CROSS"
              ELSE IF next_valid(in)
              THEN IF in.gnt /\ next_upper_compressed(in) THEN "VALID_GRANTED" ELSE "VALID"
              ELSE IF in.gnt THEN "NOT_VALID_GRANTED" ELSE "NOT_VALID"
    BY <1>3, <1>7, <1>10, OneState DEF Looping, LoopEnd, Valid, Then, Crossing, Missing, next_valid
  <2>3. in.gnt /\ (next_is_crossword(in) \/ (next_valid(in) /\ next_upper_compressed(in))) =>
          rdata_last_q' = Word(l, 3)
    BY <1>1, <1>3, <1>7, <1>10 DEF Saved, save_rdata_hwlp, save_rdata_last
  <2>4. /\ next_is_crossword(in) <=> NextIsLast(in) /\ b \notin compressed
        /\ next_upper_compressed(in) <=> NextIsLast(in) /\ b \in compressed
        /\ next_valid(in) <=> ~next_is_crossword(in) /\ (WordIn(addr_q) # 3 \/ NextIsLast(in))
    BY <1>3, <2>1 DEF next_is_crossword, next_upper_compressed, next_valid
  <2>5. BufferByState'
    BY <1>1, <1>2, <1>3, <1>4, <1>5, <1>6, <1>10, <2>1, <2>2, <2>3, <2>4
       DEF LoopFacts, BufferByState, Awaits, Holds, Asks, KeepsLast
  <2> QED BY <1>2, <1>3, <1>6, <1>10, <2>2, <2>5 DEF Cycle, Outcome, Pending, LoopFacts
<1> QED BY <1>8, <1>9, <1>10 DEF Clocked, Inputs

\* Before the first jump nothing moves.
LEMMA FromIdle ==
  ASSUME FetchInv, TypeOK', NEW in, NEW clear, Clocked(in, clear), ~in.branch, CS = "IDLE"
  PROVE  Cycle(in)
<1>1. in \in Inputs /\ ~in.rvalid /\ L0_CS = "EMPTY"
  BY DEF Clocked, Edge, FetchInv, OneInFlight, BufferByState
<1>2. ~valid(in) /\ ~ready(in) /\ ~do_hwlp(in) /\ ~Asked(in) /\ ~instr_req_o(in)
  BY <1>1 DEF valid, ready, valid_o, do_hwlp, hwlp_i, Asked, do_fetch, instr_req_o
<1>3. CS' = CS /\ addr_q' = addr_q /\ (is_hwlp_q' <=> is_hwlp_q) /\ L0_CS' = L0_CS
  <2>1. CS' = CS
    BY <1>2, OneState DEF Clocked, Edge, PrefetchEdge, Looping, Idle
  <2>2. addr_q' = addr_q
    BY <1>2 DEF Clocked, Edge, PrefetchEdge, Address, ToLoopStart, WaitsForGrant, Looping,
                addr_int
  <2>3. is_hwlp_q' <=> is_hwlp_q
    BY <1>2 DEF Clocked, Edge, PrefetchEdge, Address, ToLoopStart, StartsLoop, Looping
  <2>4. L0_CS' = L0_CS
    BY <1>1, <1>2 DEF Clocked, Edge, PrefetchEdge, L0Edge, Unasked, fetch_valid
  <2> QED BY <2>1, <2>2, <2>3, <2>4
<1> QED BY <1>1, <1>2, <1>3 DEF Cycle, Outcome, BufferByState, Pending

\* The next line is asked for.
LEMMA FromNotValid ==
  ASSUME FetchInv, TypeOK', NEW in, NEW clear, Clocked(in, clear), ~in.branch, CS = "NOT_VALID"
  PROVE  Cycle(in)
<1> DEFINE l == LineOf(addr_q)
<1>1. /\ in \in Inputs /\ ~in.rvalid /\ L0_CS = "WAIT_GNT" /\ LineOf(L0_addr_q) = l
      /\ Slot(addr_q) = 0
  BY DEF Clocked, Edge, FetchInv, OneInFlight, BufferByState, Asks
<1>2. /\ ~valid(in) /\ ~ready(in) /\ ~do_hwlp(in) /\ ~hwlp_i(in) /\ instr_req_o(in)
      /\ instr_addr(in) = L0_addr_q
  BY <1>1 DEF valid, ready, valid_o, do_hwlp, hwlp_i, instr_req_o, instr_addr
<1>3. CS' = IF in.gnt THEN "NOT_VALID_GRANTED" ELSE "NOT_VALID"
  BY <1>2, OneState DEF Clocked, Edge, PrefetchEdge, Looping, NotValid, Missing, Then
<1>4. addr_q' = addr_q
  BY <1>2 DEF Clocked, Edge, PrefetchEdge, Address, ToLoopStart, WaitsForGrant, Looping, addr_int
<1>5. is_hwlp_q' <=> is_hwlp_q
  BY <1>2 DEF Clocked, Edge, PrefetchEdge, Address, ToLoopStart, StartsLoop, Looping
<1>6. /\ L0_CS' = IF in.gnt THEN "WAIT_RVALID" ELSE "WAIT_GNT"
      /\ L0_addr_q' = L0_addr_q /\ (in.gnt => in_flight' = l)
  BY <1>1, <1>2 DEF Clocked, Edge, PrefetchEdge, L0Edge
<1>7. BufferByState'
  BY <1>1, <1>3, <1>4, <1>6 DEF BufferByState, Awaits, Asks
<1> QED BY <1>2, <1>3, <1>4, <1>5, <1>7 DEF Cycle, Outcome, Pending

\* The rest of an instruction in two lines is asked for, and its first word kept.
LEMMA FromNotValidCross ==
  ASSUME FetchInv, TypeOK', NEW in, NEW clear, Clocked(in, clear), ~in.branch,
         CS = "NOT_VALID_CROSS"
  PROVE  Cycle(in)
<1> DEFINE l == LineOf(addr_q)
           n == NextLine(addr_q)
<1>1. /\ in \in Inputs /\ ~in.rvalid /\ L0_CS \in {"VALID_L0", "WAIT_GNT"} /\ L0_buffer = l
      /\ L0_CS = "WAIT_GNT" => LineOf(L0_addr_q) = n
      /\ Slot(addr_q) = 7 /\ addr_q \notin compressed /\ WordIn(addr_q) = 3
      /\ rdata_L0(in) = l
  BY Words DEF Clocked, Edge, FetchInv, TypeOK, Addr, OneInFlight, BufferByState, Asks, Holds,
               rdata_L0
<1>2. /\ ~valid(in) /\ ~ready(in) /\ ~do_hwlp(in) /\ ~hwlp_i(in) /\ Asked(in)
      /\ instr_req_o(in)
  BY <1>1 DEF valid, ready, valid_o, do_hwlp, hwlp_i, instr_req_o, do_fetch, Asked
<1>3. LineOf(instr_addr(in)) = n
  <2>1. LineOf(addr_real_next(in)) = n
    BY <1>1, Asking DEF addr_real_next, FetchInv, TypeOK
  <2> QED BY <1>1, <1>2, <2>1 DEF instr_addr
<1>4. CS' = IF in.gnt THEN "NOT_VALID_CROSS_GRANTED" ELSE "NOT_VALID_CROSS"
  BY <1>2, OneState DEF Clocked, Edge, PrefetchEdge, Looping, NotValidCross, Crossing, Then
<1>5. addr_q' = addr_q
  BY <1>2 DEF Clocked, Edge, PrefetchEdge, Address, ToLoopStart, WaitsForGrant, Looping, addr_int
<1>6. is_hwlp_q' <=> is_hwlp_q
  BY <1>2 DEF Clocked, Edge, PrefetchEdge, Address, ToLoopStart, StartsLoop, Looping
<1>7. in.gnt => rdata_last_q' = Word(l, 3)
  BY <1>1, <1>2 DEF Clocked, Edge, PrefetchEdge, Saved, save_rdata_hwlp, save_rdata_last, rdata,
                    use_last, use_hwlp
<1>8. /\ L0_CS' = IF in.gnt THEN "WAIT_RVALID" ELSE "WAIT_GNT"
      /\ L0_addr_q' = instr_addr(in) /\ (in.gnt => in_flight' = n)
      /\ L0_buffer' = l /\ compressed' = compressed
  BY <1>1, <1>2, <1>3 DEF Clocked, Edge, PrefetchEdge, L0Edge
<1>9. BufferByState'
  BY <1>1, <1>3, <1>4, <1>5, <1>7, <1>8 DEF BufferByState, Awaits, Asks, Holds, KeepsLast
<1> QED BY <1>2, <1>4, <1>5, <1>6, <1>9 DEF Cycle, Outcome, Pending

\* A jump from outside gives up what was asked for, and asks for its target.
LEMMA FromBranch ==
  ASSUME FetchInv, TypeOK', NEW in, NEW clear, Clocked(in, clear), in.branch
  PROVE  BufferByState' /\ CS' = "BRANCHED" /\ addr_q' = in.addr /\ ~is_hwlp_q'
<1>1. CS' = "BRANCHED" /\ addr_q' = in.addr /\ ~is_hwlp_q'
  BY DEF Clocked, Edge, PrefetchEdge, Transition, Address
<1>2. Asked(in) /\ instr_addr(in) = in.addr
  BY DEF Asked, instr_addr
<1>3. /\ L0_CS' = IF ~instr_req_o(in) THEN Unasked(in)
                  ELSE IF in.gnt THEN "WAIT_RVALID" ELSE "WAIT_GNT"
      /\ L0_addr_q' = in.addr /\ (in.gnt => in_flight' = LineOf(in.addr))
      /\ in.gnt => instr_req_o(in)
  BY <1>2 DEF Clocked, Edge, PrefetchEdge, L0Edge
<1>4. ~instr_req_o(in) => Unasked(in) = "ABORTED_BRANCH"
  BY <1>2 DEF FetchInv, TypeOK, L0States, instr_req_o, Unasked, fetch_valid
<1> QED BY <1>1, <1>3, <1>4 DEF BufferByState, Awaits

\* In the states that ask for a loop's start: the loop's jump, or the next address.
LEMMA AskingStart ==
  ASSUME FetchInv, NEW in, NEW clear, Clocked(in, clear), ~in.branch,
         CS \in {"NOT_VALID_GRANTED", "NOT_VALID_CROSS_GRANTED", "VALID_CROSS",
                 "VALID_GRANTED", "VALID_FETCH_DONE"}
  PROVE  /\ addr_q' = IF in.hwloop /\ ready(in) THEN IF in.gnt THEN in.target ELSE addr_q
                      ELSE IF ready(in) THEN Following(in) ELSE addr_q
         /\ is_hwlp_q' <=> (in.hwloop /\ ready(in) /\ in.gnt) \/ (is_hwlp_q /\ ~ready(in))
         /\ rdata_last_q' = IF in.hwloop /\ ~ready(in) /\ in.gnt THEN rdata_o(in)
                            ELSE rdata_last_q
         /\ Looping(in) <=> in.hwloop /\ (ready(in) \/ in.gnt)
         /\ in.gnt /\ L0_CS = "WAIT_RVALID" => in.rvalid
         /\ L0_CS' = IF in.hwloop /\ (L0_CS = "WAIT_RVALID" => in.rvalid)
                     THEN IF in.gnt THEN "WAIT_RVALID" ELSE "WAIT_GNT"
                     ELSE IF fetch_valid(in) THEN "VALID_L0" ELSE L0_CS
         /\ L0_buffer' = IF in.rvalid THEN in_flight ELSE L0_buffer
         /\ in.hwloop => L0_addr_q' = in.target
         /\ in.gnt => in.hwloop /\ in_flight' = LineOf(in.target)
         /\ ~in.gnt => in_flight' = IF in.rvalid THEN NoLine ELSE in_flight
         /\ in \in Inputs /\ compressed' = compressed /\ (in.rvalid => in_flight # NoLine)
<1>1. do_hwlp(in) <=> in.hwloop
  BY DEF do_hwlp
<1>2. /\ ToLoopStart(in) <=> in.hwloop /\ ready(in) /\ in.gnt
      /\ WaitsForGrant(in) <=> in.hwloop /\ ready(in) /\ ~in.gnt
      /\ Looping(in) <=> in.hwloop /\ (ready(in) \/ in.gnt)
  BY <1>1 DEF ToLoopStart, WaitsForGrant, Looping
<1>3. StartsLoop(in) <=> in.hwloop /\ ready(in) /\ in.gnt
  BY <1>2 DEF StartsLoop
<1>4. /\ in \in Inputs /\ Address(in) /\ Saved(in) /\ L0Edge(in) /\ (in.gnt => instr_req_o(in))
      /\ compressed' = compressed /\ (in.rvalid => in_flight # NoLine)
  BY DEF Clocked, Edge, PrefetchEdge
<1>5. addr_q' = IF in.hwloop /\ ready(in) THEN IF in.gnt THEN in.target ELSE addr_q
                ELSE IF ready(in) THEN Following(in) ELSE addr_q
  BY <1>2, <1>4 DEF Address, addr_int
<1>6. is_hwlp_q' <=> (in.hwloop /\ ready(in) /\ in.gnt) \/ (is_hwlp_q /\ ~ready(in))
  BY <1>3, <1>4 DEF Address
<1>7. rdata_last_q' = IF in.hwloop /\ ~ready(in) /\ in.gnt THEN rdata_o(in) ELSE rdata_last_q
  BY <1>1, <1>4 DEF Saved, save_rdata_hwlp, save_rdata_last
<1>8. Asked(in) <=> in.hwloop
  BY <1>1 DEF Asked, hwlp_i, do_fetch
<1>9. L0_CS \in {"VALID_L0", "WAIT_RVALID"} \/ (L0_CS = "WAIT_GNT" /\ in.hwloop)
  BY DEF Clocked, FetchInv, BufferByState, Awaits, Holds
<1>10. in.hwloop => instr_addr(in) = in.target
  BY <1>1, <1>9 DEF instr_addr, hwlp_i
<1>11. instr_req_o(in) <=> in.hwloop /\ (L0_CS = "WAIT_RVALID" => in.rvalid)
  BY <1>8, <1>9 DEF instr_req_o
<1>12. L0_CS' = IF in.hwloop /\ (L0_CS = "WAIT_RVALID" => in.rvalid)
                THEN IF in.gnt THEN "WAIT_RVALID" ELSE "WAIT_GNT"
                ELSE IF fetch_valid(in) THEN "VALID_L0" ELSE L0_CS
  BY <1>4, <1>11 DEF L0Edge, Unasked
<1>13. /\ L0_buffer' = IF in.rvalid THEN in_flight ELSE L0_buffer
       /\ in.hwloop => L0_addr_q' = in.target
       /\ in.gnt => in.hwloop /\ in_flight' = LineOf(in.target)
       /\ ~in.gnt => in_flight' = IF in.rvalid THEN NoLine ELSE in_flight
  BY <1>4, <1>8, <1>10, <1>11 DEF L0Edge
<1> QED BY <1>2, <1>4, <1>5, <1>6, <1>7, <1>11, <1>12, <1>13

\* The next line is on its way, and serves when it comes.
LEMMA FromNotValidGranted ==
  ASSUME FetchInv, TypeOK', NEW in, NEW clear, Clocked(in, clear), ~in.branch,
         CS = "NOT_VALID_GRANTED"
  PROVE  Cycle(in)
<1> DEFINE l == LineOf(addr_q)
           b == Following(in)
<1>1. L0_CS = "WAIT_RVALID" /\ in_flight = l /\ Slot(addr_q) = 0 /\ WordIn(addr_q) = 0
  BY Words DEF FetchInv, TypeOK, Addr, BufferByState, Awaits
<1>2. /\ valid(in) <=> in.rvalid
      /\ ~use_hwlp /\ (fetch_valid(in) <=> in.rvalid) /\ (ready(in) => in.rvalid)
      /\ in \in Inputs /\ (in.rvalid => in_flight # NoLine)
  BY <1>1 DEF valid, fetch_valid, ready, valid_o, use_hwlp, Clocked, Edge
<1>3. LoopFacts(in)
  BY LoopsSeen
<1>4. ready(in) => LineOf(b) = l /\ Slot(b) # 7
  <2>1. ~NextIsLast(in)
    BY <1>1 DEF NextIsLast
  <2> QED BY <1>1, <1>2, <2>1, NextServed
<1>5. CS' = IF in.hwloop /\ ready(in) THEN IF in.gnt THEN "BRANCHED" ELSE "HWLP_WAIT_GNT"
            ELSE IF in.hwloop /\ in.gnt THEN "HWLP_GRANTED"
            ELSE IF in.rvalid THEN "VALID" ELSE "NOT_VALID_GRANTED"
  BY <1>2, AskingStart, OneState DEF Clocked, Edge, PrefetchEdge, LoopEnd, NotValidGranted
<1>6. in.hwloop /\ ~ready(in) /\ in.gnt => Whole(rdata_o(in), addr_q)
  BY <1>1, <1>2, AskingStart, InstructionServed
<1>7. BufferByState'
  BY <1>1, <1>2, <1>3, <1>4, <1>5, <1>6, AskingStart
     DEF LoopFacts, BufferByState, Awaits, Holds, Asks, KeepsEnd, Whole, AtLoopEnd
<1>8. Outcome(in)
  BY <1>2, <1>3, <1>5, AskingStart DEF Outcome, Pending, LoopFacts
<1> QED BY <1>7, <1>8 DEF Cycle

\* The other half is on its way.
LEMMA FromNotValidCrossGranted ==
  ASSUME FetchInv, TypeOK', NEW in, NEW clear, Clocked(in, clear), ~in.branch,
         CS = "NOT_VALID_CROSS_GRANTED"
  PROVE  Cycle(in)
<1> DEFINE n == NextLine(addr_q)
           b == Following(in)
<1>1. /\ L0_CS = "WAIT_RVALID" /\ in_flight = n /\ Slot(addr_q) = 7 /\ WordIn(addr_q) = 3
      /\ rdata_last_q = Word(LineOf(addr_q), 3)
  BY Words DEF FetchInv, TypeOK, Addr, BufferByState, Awaits, KeepsLast
<1>2. /\ valid(in) <=> in.rvalid
      /\ ~use_hwlp /\ (fetch_valid(in) <=> in.rvalid) /\ (ready(in) => in.rvalid)
      /\ in \in Inputs /\ (in.rvalid => in_flight # NoLine)
  BY <1>1 DEF valid, fetch_valid, ready, valid_o, use_hwlp, Clocked, Edge
<1>3. LoopFacts(in)
  BY LoopsSeen
<1>4. ready(in) => LineOf(b) = n /\ Slot(b) # 7
  <2>1. ~NextIsLast(in)
    BY <1>1 DEF NextIsLast
  <2> QED BY <1>1, <1>2, <2>1, NextServed
<1>5. CS' = IF in.hwloop /\ ready(in) THEN IF in.gnt THEN "BRANCHED" ELSE "HWLP_WAIT_GNT"
            ELSE IF in.hwloop /\ in.gnt THEN "HWLP_GRANTED"
            ELSE IF ~in.rvalid THEN "NOT_VALID_CROSS_GRANTED"
            ELSE IF ready(in) THEN "VALID" ELSE "VALID_CROSS"
  BY <1>2, AskingStart, OneState DEF Clocked, Edge, PrefetchEdge, LoopEnd, NotValidCrossGranted
<1>6. in.hwloop /\ ~ready(in) /\ in.gnt => Whole(rdata_o(in), addr_q)
  BY <1>1, <1>2, AskingStart, InstructionServed
<1>7. BufferByState'
  BY <1>1, <1>2, <1>3, <1>4, <1>5, <1>6, AskingStart
     DEF LoopFacts, BufferByState, Awaits, Holds, Asks, KeepsEnd, KeepsLast, Whole, AtLoopEnd,
         FetchInv
<1>8. Outcome(in)
  BY <1>2, <1>3, <1>5, AskingStart DEF Outcome, Pending, LoopFacts
<1> QED BY <1>7, <1>8 DEF Cycle

\* Both halves are there.
LEMMA FromValidCross ==
  ASSUME FetchInv, TypeOK', NEW in, NEW clear, Clocked(in, clear), ~in.branch,
         CS = "VALID_CROSS"
  PROVE  Cycle(in)
<1> DEFINE n == NextLine(addr_q)
           b == Following(in)
<1>1. /\ L0_CS \in {"VALID_L0", "WAIT_GNT"} /\ L0_buffer = n
      /\ Slot(addr_q) = 7 /\ WordIn(addr_q) = 3
      /\ rdata_last_q = Word(LineOf(addr_q), 3) /\ (L0_CS = "WAIT_GNT" => in.hwloop)
  BY Words DEF FetchInv, TypeOK, Addr, BufferByState, Holds, KeepsLast, Clocked
<1>2. /\ valid(in) /\ ~use_hwlp /\ ~fetch_valid(in) /\ ~in.rvalid
      /\ in \in Inputs /\ (in.rvalid => in_flight # NoLine)
  BY <1>1 DEF valid, fetch_valid, use_hwlp, Clocked, Edge, FetchInv, OneInFlight
<1>3. LoopFacts(in)
  BY LoopsSeen
<1>4. ready(in) => LineOf(b) = n /\ Slot(b) # 7
  <2>1. ~NextIsLast(in)
    BY <1>1 DEF NextIsLast
  <2> QED BY <1>1, <1>2, <2>1, NextServed
<1>5. CS' = IF in.hwloop /\ ready(in) THEN IF in.gnt THEN "BRANCHED" ELSE "HWLP_WAIT_GNT"
            ELSE IF in.hwloop /\ in.gnt THEN "HWLP_GRANTED"
            ELSE IF ready(in) THEN "VALID" ELSE "VALID_CROSS"
  BY <1>2, AskingStart, OneState DEF Clocked, Edge, PrefetchEdge, LoopEnd, ValidCross
<1>6. Whole(rdata_o(in), addr_q)
  BY <1>2, InstructionServed
<1>7. BufferByState'
  BY <1>1, <1>2, <1>3, <1>4, <1>5, <1>6, AskingStart
     DEF LoopFacts, BufferByState, Awaits, Holds, Asks, KeepsEnd, KeepsLast, Whole, AtLoopEnd
<1>8. Outcome(in)
  BY <1>2, <1>3, <1>5, AskingStart DEF Outcome, Pending, LoopFacts
<1> QED BY <1>7, <1>8 DEF Cycle

\* The line's last word is served while the next line is on its way.
LEMMA FromValidGranted ==
  ASSUME FetchInv, TypeOK', NEW in, NEW clear, Clocked(in, clear), ~in.branch,
         CS = "VALID_GRANTED"
  PROVE  Cycle(in)
<1> DEFINE l == LineOf(addr_q)
           n == NextLine(addr_q)
           b == Following(in)
<1>1. /\ L0_CS = "WAIT_RVALID" /\ in_flight = n /\ L0_buffer = l
      /\ WordIn(addr_q) = 3 /\ Slot(addr_q) \in {6, 7}
      /\ Slot(addr_q) = 7 => addr_q \in compressed
      /\ rdata_last_q = Word(l, 3)
  BY Words DEF FetchInv, TypeOK, Addr, BufferByState, Awaits, KeepsLast
<1>2. /\ valid(in) /\ ~use_hwlp /\ (fetch_valid(in) <=> in.rvalid)
      /\ in \in Inputs /\ (in.rvalid => in_flight # NoLine)
      /\ ~in.rvalid => rdata_L0(in) = l
  BY <1>1 DEF valid, fetch_valid, use_hwlp, rdata_L0, Clocked, Edge
<1>3. LoopFacts(in)
  BY LoopsSeen
<1>4. /\ NextIsLast(in) => /\ LineOf(b) = l /\ Slot(b) = 7 /\ WordIn(b) = 3 /\ NextLine(b) = n
                           /\ ~in.rvalid => (upper_is_compressed(in) <=> b \in compressed)
      /\ ~NextIsLast(in) => LineOf(b) = n /\ Slot(b) = 0
  BY <1>1, <1>2, NextServed
<1>5. CS' = IF in.hwloop /\ ready(in) THEN IF in.gnt THEN "BRANCHED" ELSE "HWLP_WAIT_GNT"
            ELSE IF in.hwloop /\ in.gnt THEN "HWLP_GRANTED"
            ELSE IF ~ready(in) THEN IF in.rvalid THEN "VALID_FETCH_DONE" ELSE "VALID_GRANTED"
            ELSE IF in.rvalid THEN LastServed(in)
            ELSE IF next_is_crossword(in) THEN "NOT_VALID_CROSS_GRANTED"
            ELSE IF next_upper_compressed(in) THEN "VALID_GRANTED"
            ELSE "NOT_VALID_GRANTED"
  BY <1>2, AskingStart, OneState DEF Clocked, Edge, PrefetchEdge, LoopEnd, ValidGranted
<1>6. Whole(rdata_o(in), addr_q)
  BY <1>2, InstructionServed
<1>7. CASE in.hwloop \/ ~ready(in)
  <2>1. BufferByState'
    BY <1>1, <1>2, <1>3, <1>5, <1>6, <1>7, AskingStart
       DEF LoopFacts, BufferByState, Awaits, Holds, Asks, KeepsEnd, KeepsLast, Whole, AtLoopEnd
  <2> QED BY <1>2, <1>3, <1>5, <1>7, <2>1, AskingStart DEF Cycle, Outcome, Pending, LoopFacts
<1>8. CASE ~in.hwloop /\ ready(in)
  <2>1. BufferByState'
    BY <1>1, <1>2, <1>4, <1>5, <1>8, AskingStart
       DEF BufferByState, Awaits, Holds, Asks, KeepsLast, LastServed, next_is_crossword,
           next_upper_compressed
  <2> QED BY <1>2, <1>3, <1>5, <1>8, <2>1, AskingStart
             DEF Cycle, Outcome, Pending, LoopFacts, LastServed
<1> QED BY <1>7, <1>8 DEF Clocked, Inputs

\* The line's last word is served, and the next line is there.
LEMMA FromValidFetchDone ==
  ASSUME FetchInv, TypeOK', NEW in, NEW clear, Clocked(in, clear), ~in.branch,
         CS = "VALID_FETCH_DONE"
  PROVE  Cycle(in)
<1> DEFINE l == LineOf(addr_q)
           n == NextLine(addr_q)
           b == Following(in)
<1>1. /\ L0_CS \in {"VALID_L0", "WAIT_GNT"} /\ L0_buffer = n
      /\ WordIn(addr_q) = 3 /\ Slot(addr_q) \in {6, 7}
      /\ rdata_last_q = Word(l, 3) /\ (L0_CS = "WAIT_GNT" => in.hwloop)
  BY Words DEF FetchInv, TypeOK, Addr, BufferByState, Holds, KeepsLast, Clocked
<1>2. /\ valid(in) /\ ~use_hwlp /\ ~fetch_valid(in) /\ ~in.rvalid
      /\ in \in Inputs /\ (in.rvalid => in_flight # NoLine)
  BY <1>1 DEF valid, fetch_valid, use_hwlp, Clocked, Edge, FetchInv, OneInFlight
<1>3. LoopFacts(in)
  BY LoopsSeen
<1>4. /\ NextIsLast(in) => LineOf(b) = l /\ Slot(b) = 7 /\ WordIn(b) = 3 /\ NextLine(b) = n
      /\ ~NextIsLast(in) => LineOf(b) = n /\ Slot(b) # 7
  BY <1>1, <1>2, NextServed
<1>5. CS' = IF in.hwloop /\ ready(in) THEN IF in.gnt THEN "BRANCHED" ELSE "HWLP_WAIT_GNT"
            ELSE IF in.hwloop /\ in.gnt THEN "HWLP_GRANTED"
            ELSE IF ready(in) THEN LastServed(in) ELSE "VALID_FETCH_DONE"
  BY <1>2, AskingStart, OneState DEF Clocked, Edge, PrefetchEdge, LoopEnd, ValidFetchDone
<1>6. Whole(rdata_o(in), addr_q)
  BY <1>2, InstructionServed
<1>7. CASE in.hwloop \/ ~ready(in)
  <2>1. BufferByState'
    BY <1>1, <1>2, <1>3, <1>5, <1>6, <1>7, AskingStart
       DEF LoopFacts, BufferByState, Awaits, Holds, Asks, KeepsEnd, KeepsLast, Whole, AtLoopEnd
  <2> QED BY <1>2, <1>3, <1>5, <1>7, <2>1, AskingStart DEF Cycle, Outcome, Pending, LoopFacts
<1>8. CASE ~in.hwloop /\ ready(in)
  <2>1. BufferByState'
    BY <1>1, <1>2, <1>4, <1>5, <1>8, AskingStart
       DEF BufferByState, Awaits, Holds, Asks, KeepsLast, LastServed, next_is_crossword,
           next_upper_compressed
  <2> QED BY <1>2, <1>3, <1>5, <1>8, <2>1, AskingStart
             DEF Cycle, Outcome, Pending, LoopFacts, LastServed
<1> QED BY <1>7, <1>8 DEF Clocked, Inputs

\* The target's line is on its way; what is behind it may be asked for at once.
LEMMA FromBranched ==
  ASSUME FetchInv, TypeOK', NEW in, NEW clear, Clocked(in, clear), ~in.branch,
         CS = "BRANCHED"
  PROVE  Cycle(in)
<1> DEFINE l == LineOf(addr_q)
           n == NextLine(addr_q)
           b == Following(in)
<1>1. /\ in \in Inputs /\ (in.rvalid => in_flight # NoLine)
      /\ L0_CS \in {"WAIT_RVALID", "WAIT_GNT", "ABORTED_BRANCH"}
      /\ L0_CS = "WAIT_RVALID" => in_flight = l
      /\ L0_CS # "WAIT_RVALID" => LineOf(L0_addr_q) = l
      /\ L0_CS = "WAIT_GNT" => ~in.rvalid
      /\ addr_q \in Addr
  BY DEF Clocked, Edge, FetchInv, TypeOK, OneInFlight, BufferByState, Awaits
<1>2. /\ ~do_hwlp(in) /\ ~hwlp_i(in) /\ ~Looping(in) /\ ~use_hwlp /\ ~use_last
      /\ Asked(in) <=> WordIn(addr_q) = 3
      /\ valid(in) <=> fetch_valid(in) /\ ~is_crossword(in)
      /\ fetch_valid(in) <=> L0_CS = "WAIT_RVALID" /\ in.rvalid
      /\ ready(in) => valid(in)
  BY DEF do_hwlp, hwlp_i, Looping, use_hwlp, use_last, Asked, do_fetch, fetch_possible, valid,
         fetch_valid, ready, valid_o
<1>3. /\ instr_req_o(in) <=> \/ L0_CS = "WAIT_GNT"
                             \/ L0_CS = "ABORTED_BRANCH" /\ in.rvalid
                             \/ fetch_valid(in) /\ WordIn(addr_q) = 3
      /\ in.gnt => instr_req_o(in)
      /\ L0_CS # "WAIT_RVALID" => instr_addr(in) = L0_addr_q
      /\ L0_CS = "WAIT_RVALID" /\ WordIn(addr_q) = 3 => LineOf(instr_addr(in)) = n
  <2>1. WordIn(addr_q) = 3 => LineOf(addr_real_next(in)) = n
    BY <1>1, Asking DEF addr_real_next
  <2> QED BY <1>1, <1>2, <2>1 DEF Clocked, Edge, instr_req_o, instr_addr
<1>4. /\ L0_CS' = IF ~instr_req_o(in) THEN IF fetch_valid(in) THEN "VALID_L0" ELSE L0_CS
                  ELSE IF in.gnt THEN "WAIT_RVALID" ELSE "WAIT_GNT"
      /\ L0_buffer' = IF in.rvalid THEN in_flight ELSE L0_buffer
      /\ in.gnt => in_flight' = LineOf(instr_addr(in))
      /\ ~in.gnt /\ ~in.rvalid => in_flight' = in_flight
      /\ L0_addr_q' = IF Asked(in) THEN instr_addr(in) ELSE L0_addr_q
      /\ compressed' = compressed
  BY <1>1 DEF Clocked, Edge, PrefetchEdge, L0Edge, Unasked
<1>5. addr_q' = IF in.hwloop /\ ready(in) THEN addr_q
                ELSE IF ready(in) THEN b ELSE addr_q
  BY <1>2 DEF Clocked, Edge, PrefetchEdge, Address, ToLoopStart, WaitsForGrant, addr_int
<1>6. is_hwlp_q' <=> is_hwlp_q /\ ~ready(in)
  BY <1>2 DEF Clocked, Edge, PrefetchEdge, Address, StartsLoop, ToLoopStart
<1>7. LoopFacts(in)
  BY LoopsSeen
<1>8. Branched(in) /\ Saved(in)
  BY <1>2, OneState DEF Clocked, Edge, PrefetchEdge
<1>9. CASE ~fetch_valid(in)
  <2>1. CS' = "BRANCHED" /\ ~ready(in)
    BY <1>2, <1>8, <1>9 DEF Branched
  <2>2. BufferByState'
    BY <1>1, <1>2, <1>3, <1>4, <1>5, <1>9, <2>1 DEF BufferByState, Awaits
  <2> QED BY <1>5, <1>6, <1>7, <2>1, <2>2 DEF Cycle, Outcome, Pending, LoopFacts
<1>10. CASE fetch_valid(in) /\ ~ready(in)
  <2>1. rdata_L0(in) = l /\ rdata(in) = Word(l, WordIn(addr_q))
    BY <1>1, <1>2, <1>10 DEF rdata_L0, rdata
  <2>2. is_crossword(in) => WordIn(addr_q) = 3 /\ Slot(addr_q) = 7
    BY <1>1, Words DEF is_crossword, Crossword, Addr
  <2>3. Slot(addr_q) = 7 => (is_crossword(in) <=> addr_q \notin compressed)
    <3>1. Slot(addr_q) = 7 => WordIn(addr_q) = 3 /\ Upper(addr_q) /\ ~(addr_q < 0)
      BY <1>1, Words, Place DEF Addr
    <3>2. Slot(addr_q) = 7 => Word(l, 3)[2] = addr_q
      BY <1>1, <3>1, Content
    <3> QED BY <2>1, <3>1, <3>2 DEF is_crossword, Crossword, upper_is_compressed, Compressed
  <2>4. CS' = IF is_crossword(in)
              THEN IF in.gnt THEN "NOT_VALID_CROSS_GRANTED" ELSE "NOT_VALID_CROSS"
              ELSE IF in.gnt THEN "VALID_GRANTED" ELSE "VALID"
    BY <1>8, <1>10 DEF Branched, Crossing, Then
  <2>5. in.gnt => WordIn(addr_q) = 3 /\ rdata_last_q' = Word(l, 3)
    <3>1. in.gnt => WordIn(addr_q) = 3
      BY <1>2, <1>3, <1>10
    <3> QED BY <1>2, <1>8, <1>10, <2>1, <3>1 DEF Saved, save_rdata_hwlp, save_rdata_last
  <2>6. BufferByState'
    BY <1>1, <1>2, <1>3, <1>4, <1>5, <1>10, <2>2, <2>3, <2>4, <2>5
       DEF BufferByState, Awaits, Holds, Asks, KeepsLast
  <2> QED BY <1>5, <1>6, <1>7, <1>10, <2>4, <2>6 DEF Cycle, Outcome, Pending, LoopFacts
<1>11. CASE ready(in) /\ in.hwloop
  <2>1. CS' = "HWLP_WAIT_GNT"
    BY <1>8, <1>11 DEF Branched
  <2>2. BufferByState'
    BY <1>1, <1>2, <1>4, <1>5, <1>6, <1>7, <1>11, <2>1 DEF BufferByState, LoopFacts
  <2> QED BY <1>5, <1>6, <1>7, <1>11, <2>1, <2>2 DEF Cycle, Outcome, Pending, LoopFacts
<1>12. CASE ready(in) /\ ~in.hwloop
  <2>1. /\ rdata_L0(in) = l
        /\ Slot(addr_q) = 7 => addr_q \in compressed
    <3>1. rdata_L0(in) = l
      BY <1>1, <1>2, <1>12 DEF rdata_L0
    <3>2. Slot(addr_q) = 7 => WordIn(addr_q) = 3 /\ Upper(addr_q) /\ ~(addr_q < 0)
      BY <1>1, Words, Place DEF Addr
    <3>3. Slot(addr_q) = 7 => Word(l, 3)[2] = addr_q
      BY <1>1, <3>2, Content
    <3> QED BY <1>2, <1>12, <3>1, <3>2, <3>3
               DEF is_crossword, Crossword, upper_is_compressed, Compressed
  <2>2. /\ NextIsLast(in) => /\ LineOf(b) = l /\ Slot(b) = 7 /\ WordIn(b) = 3 /\ NextLine(b) = n
                             /\ upper_is_compressed(in) <=> b \in compressed
        /\ ~NextIsLast(in) /\ WordIn(addr_q) # 3 => LineOf(b) = l /\ Slot(b) # 7
        /\ ~NextIsLast(in) /\ WordIn(addr_q) = 3 => LineOf(b) = n /\ Slot(b) = 0
    BY <1>1, <1>2, <1>12, <2>1, NextServed
  <2>3. /\ next_is_crossword(in) <=> NextIsLast(in) /\ b \notin compressed
        /\ next_upper_compressed(in) <=> NextIsLast(in) /\ b \in compressed
        /\ next_valid(in) <=> ~next_is_crossword(in) /\ (WordIn(addr_q) # 3 \/ NextIsLast(in))
    BY <1>2, <1>12, <2>2 DEF next_is_crossword, next_upper_compressed, next_valid
  <2>4. CS' = IF next_valid(in) THEN IF in.gnt THEN "VALID_GRANTED" ELSE "VALID"
              ELSE IF next_is_crossword(in)
              THEN IF in.gnt THEN "NOT_VALID_CROSS_GRANTED" ELSE "NOT_VALID_CROSS"
              ELSE IF in.gnt THEN "NOT_VALID_GRANTED" ELSE "NOT_VALID"
    BY <1>2, <1>8, <1>12, <2>3 DEF Branched, Crossing, Missing, Then
  <2>5. /\ in.gnt => WordIn(addr_q) = 3
        /\ in.gnt /\ (next_is_crossword(in) \/ next_valid(in)) => rdata_last_q' = Word(l, 3)
    <3>1. in.gnt => WordIn(addr_q) = 3
      BY <1>2, <1>3, <1>12
    <3> QED BY <1>2, <1>8, <1>12, <2>1, <3>1 DEF Saved, save_rdata_hwlp, save_rdata_last
  <2>6. BufferByState'
    BY <1>1, <1>2, <1>3, <1>4, <1>5, <1>12, <2>2, <2>3, <2>4, <2>5
       DEF BufferByState, Awaits, Holds, Asks, KeepsLast
  <2> QED BY <1>2, <1>5, <1>6, <1>7, <1>12, <2>4, <2>6 DEF Cycle, Outcome, Pending, LoopFacts
<1> QED BY <1>9, <1>10, <1>11, <1>12 DEF Clocked, Inputs

\* The loop's end is taken, and its start waits for a grant.
LEMMA FromHwlpWaitGnt ==
  ASSUME FetchInv, TypeOK', NEW in, NEW clear, Clocked(in, clear), ~in.branch,
         CS = "HWLP_WAIT_GNT"
  PROVE  Cycle(in)
<1>1. /\ in \in Inputs /\ L0_CS \in {"VALID_L0", "WAIT_GNT", "WAIT_RVALID"}
      /\ in.gnt => instr_req_o(in)
      /\ AtLoopEnd /\ ~is_hwlp_q
  BY DEF Clocked, Edge, FetchInv, BufferByState, AtLoopEnd
<1>2. LoopFacts(in)
  BY LoopsSeen
<1>3. /\ ~valid(in) /\ ~ready(in) /\ ~do_hwlp(in) /\ ~Looping(in)
      /\ Asked(in) /\ instr_addr(in) = in.target
  BY <1>1 DEF valid, ready, valid_o, do_hwlp, Looping, Asked, hwlp_i, instr_addr
<1>4. CS' = IF in.gnt THEN "BRANCHED" ELSE "HWLP_WAIT_GNT"
  BY <1>3, OneState DEF Clocked, Edge, PrefetchEdge, HwlpWaitGnt, Then
<1>5. addr_q' = IF in.gnt THEN in.target ELSE addr_q
  BY <1>3 DEF Clocked, Edge, PrefetchEdge, Address, ToLoopStart, WaitsForGrant, addr_int
<1>6. is_hwlp_q' <=> in.gnt
  BY <1>1, <1>3 DEF Clocked, Edge, PrefetchEdge, Address, StartsLoop, ToLoopStart
<1>7. /\ L0_CS' = IF ~instr_req_o(in) THEN Unasked(in)
                  ELSE IF in.gnt THEN "WAIT_RVALID" ELSE "WAIT_GNT"
      /\ in.gnt => in_flight' = LineOf(in.target)
      /\ Unasked(in) \in {"VALID_L0", "WAIT_GNT", "WAIT_RVALID"}
  BY <1>1, <1>3 DEF Clocked, Edge, PrefetchEdge, L0Edge, Unasked, fetch_valid
<1>8. BufferByState'
  BY <1>1, <1>2, <1>4, <1>5, <1>6, <1>7 DEF BufferByState, Awaits, LoopFacts
<1> QED BY <1>1, <1>2, <1>3, <1>4, <1>5, <1>6, <1>8 DEF Cycle, Outcome, Pending, LoopFacts

\* Whether the loop's start, which has come, is in two lines.
LEMMA StartServed ==
  ASSUME FetchInv, NEW in \in Inputs, NEW a \in Addr, rdata_L0(in) = LineOf(a)
  PROVE  Crossword(a, in) <=> Slot(a) = 7 /\ a \notin compressed
<1>1. Slot(a) = 7 => WordIn(a) = 3 /\ Upper(a) /\ ~(a < 0)
  BY Words, Place DEF Addr
<1>2. Slot(a) = 7 => Word(LineOf(a), 3)[2] = a
  BY <1>1, Content
<1> QED BY <1>1, <1>2 DEF Crossword, upper_is_compressed, Compressed

\* The loop's end is served from what is kept, and its start is on its way.
LEMMA FromHwlpGranted ==
  ASSUME FetchInv, TypeOK', NEW in, NEW clear, Clocked(in, clear), ~in.branch,
         CS = "HWLP_GRANTED"
  PROVE  Cycle(in)
<1>1. /\ in \in Inputs /\ L0_CS = "WAIT_RVALID" /\ in_flight = LineOf(LoopTarget)
      /\ L0_addr_q = LoopTarget
      /\ in.gnt => instr_req_o(in)
      /\ AtLoopEnd /\ ~is_hwlp_q /\ Whole(rdata_last_q, addr_q)
  BY DEF Clocked, Edge, FetchInv, BufferByState, AtLoopEnd, Awaits, KeepsEnd
<1>2. LoopFacts(in) /\ in.hwloop /\ in.target = LoopTarget /\ LoopTarget' = LoopTarget
  BY <1>1, LoopsSeen DEF LoopFacts
<1>3. /\ valid(in) /\ ~do_hwlp(in) /\ ~Looping(in) /\ ~Asked(in) /\ ~instr_req_o(in)
      /\ ~in.gnt /\ (fetch_valid(in) <=> in.rvalid)
  BY <1>1 DEF valid, do_hwlp, Looping, Asked, hwlp_i, do_fetch, instr_req_o, fetch_valid
<1>4. CS' = IF ~ready(in) THEN IF in.rvalid THEN "HWLP_FETCH_DONE" ELSE "HWLP_GRANTED"
            ELSE IF ~in.rvalid THEN "HWLP_GRANTED_WAIT"
            ELSE IF Crossword(in.target, in) THEN "NOT_VALID_CROSS" ELSE "VALID"
  BY <1>3, OneState DEF Clocked, Edge, PrefetchEdge, HwlpGranted, LoopStart
<1>5. addr_q' = IF ready(in) THEN in.target ELSE addr_q
  BY <1>3 DEF Clocked, Edge, PrefetchEdge, Address, ToLoopStart, WaitsForGrant, addr_int
<1>6. is_hwlp_q' <=> ready(in) /\ in.rvalid
  BY <1>1, <1>3 DEF Clocked, Edge, PrefetchEdge, Address, StartsLoop, ToLoopStart
<1>7. /\ L0_CS' = IF in.rvalid THEN "VALID_L0" ELSE "WAIT_RVALID"
      /\ L0_addr_q' = L0_addr_q
      /\ L0_buffer' = IF in.rvalid THEN in_flight ELSE L0_buffer
      /\ ~in.rvalid => in_flight' = in_flight
      /\ compressed' = compressed
  BY <1>1, <1>3 DEF Clocked, Edge, PrefetchEdge, L0Edge, Unasked
<1>8. rdata_last_q' = rdata_last_q
  BY <1>3 DEF Clocked, Edge, PrefetchEdge, Saved, save_rdata_hwlp, save_rdata_last
<1>9. in.rvalid => (Crossword(in.target, in) <=>
                      Slot(in.target) = 7 /\ in.target \notin compressed)
  <2>1. in.rvalid => rdata_L0(in) = LineOf(in.target) /\ in.target \in Addr
    BY <1>1, <1>2 DEF rdata_L0, Inputs
  <2> QED BY <1>1, <2>1, StartServed
<1>10. BufferByState'
  BY <1>1, <1>2, <1>4, <1>5, <1>6, <1>7, <1>8, <1>9
     DEF BufferByState, Awaits, Holds, LoopFacts, KeepsEnd, Whole
<1> QED BY <1>1, <1>2, <1>4, <1>5, <1>6, <1>10 DEF Cycle, Outcome, Pending

\* The end is taken, and the start is on its way.
LEMMA FromHwlpGrantedWait ==
  ASSUME FetchInv, TypeOK', NEW in, NEW clear, Clocked(in, clear), ~in.branch,
         CS = "HWLP_GRANTED_WAIT"
  PROVE  Cycle(in)
<1>1. /\ in \in Inputs /\ L0_CS = "WAIT_RVALID" /\ in_flight = LineOf(addr_q)
      /\ L0_addr_q = addr_q /\ addr_q \in Addr /\ ~is_hwlp_q
      /\ in.gnt => instr_req_o(in)
  BY DEF Clocked, Edge, FetchInv, TypeOK, BufferByState, Awaits
<1>2. /\ ~valid(in) /\ ~ready(in) /\ ~do_hwlp(in) /\ ~Looping(in) /\ ~Asked(in)
      /\ ~instr_req_o(in) /\ ~in.gnt /\ (fetch_valid(in) <=> in.rvalid)
  BY <1>1 DEF valid, ready, valid_o, do_hwlp, Looping, Asked, hwlp_i, do_fetch, instr_req_o,
              fetch_valid
<1>3. CS' = IF ~in.rvalid THEN "HWLP_GRANTED_WAIT"
            ELSE IF Crossword(addr_q, in) THEN "NOT_VALID_CROSS" ELSE "VALID"
  BY <1>1, <1>2, OneState DEF Clocked, Edge, PrefetchEdge, HwlpGrantedWait, LoopStart
<1>4. addr_q' = addr_q
  BY <1>2 DEF Clocked, Edge, PrefetchEdge, Address, ToLoopStart, WaitsForGrant, addr_int
<1>5. is_hwlp_q' <=> in.rvalid
  BY <1>1, <1>2 DEF Clocked, Edge, PrefetchEdge, Address, StartsLoop, ToLoopStart
<1>6. /\ L0_CS' = IF in.rvalid THEN "VALID_L0" ELSE "WAIT_RVALID"
      /\ L0_addr_q' = L0_addr_q
      /\ L0_buffer' = IF in.rvalid THEN in_flight ELSE L0_buffer
      /\ ~in.rvalid => in_flight' = in_flight
      /\ compressed' = compressed
  BY <1>1, <1>2 DEF Clocked, Edge, PrefetchEdge, L0Edge, Unasked
<1>7. in.rvalid => (Crossword(addr_q, in) <=> Slot(addr_q) = 7 /\ addr_q \notin compressed)
  <2>1. in.rvalid => rdata_L0(in) = LineOf(addr_q)
    BY <1>1 DEF rdata_L0
  <2> QED BY <1>1, <2>1, StartServed
<1>8. BufferByState'
  BY <1>1, <1>3, <1>4, <1>5, <1>6, <1>7 DEF BufferByState, Awaits, Holds
<1> QED BY <1>1, <1>2, <1>3, <1>4, <1>5, <1>8 DEF Cycle, Outcome, Pending

\* The end is served from what is kept, and the start is there.
LEMMA FromHwlpFetchDone ==
  ASSUME FetchInv, TypeOK', NEW in, NEW clear, Clocked(in, clear), ~in.branch,
         CS = "HWLP_FETCH_DONE"
  PROVE  Cycle(in)
<1>1. /\ in \in Inputs /\ L0_CS = "VALID_L0" /\ L0_buffer = LineOf(LoopTarget)
      /\ in.gnt => instr_req_o(in)
      /\ AtLoopEnd /\ ~is_hwlp_q /\ Whole(rdata_last_q, addr_q) /\ ~in.rvalid
  BY DEF Clocked, Edge, FetchInv, BufferByState, AtLoopEnd, KeepsEnd, OneInFlight
<1>2. LoopFacts(in) /\ in.hwloop /\ in.target = LoopTarget /\ LoopTarget' = LoopTarget
  BY <1>1, LoopsSeen DEF LoopFacts
<1>3. /\ ~do_hwlp(in) /\ ~Looping(in) /\ ~Asked(in) /\ ~instr_req_o(in) /\ ~in.gnt
  BY <1>1 DEF do_hwlp, Looping, Asked, hwlp_i, do_fetch, instr_req_o
<1>4. CS' = IF ~ready(in) THEN "HWLP_FETCH_DONE"
            ELSE IF Crossword(in.target, in) THEN "NOT_VALID_CROSS" ELSE "VALID"
  BY <1>3, OneState DEF Clocked, Edge, PrefetchEdge, HwlpFetchDone, LoopStart
<1>5. addr_q' = IF ready(in) THEN in.target ELSE addr_q
  BY <1>3 DEF Clocked, Edge, PrefetchEdge, Address, ToLoopStart, WaitsForGrant, addr_int
<1>6. is_hwlp_q' <=> ready(in)
  BY <1>1, <1>3 DEF Clocked, Edge, PrefetchEdge, Address, StartsLoop, ToLoopStart
<1>7. L0_CS' = L0_CS /\ L0_buffer' = L0_buffer /\ compressed' = compressed
  BY <1>1, <1>3 DEF Clocked, Edge, PrefetchEdge, L0Edge, Unasked, fetch_valid
<1>8. rdata_last_q' = rdata_last_q
  BY <1>3 DEF Clocked, Edge, PrefetchEdge, Saved, save_rdata_hwlp, save_rdata_last
<1>9. Crossword(in.target, in) <=> Slot(in.target) = 7 /\ in.target \notin compressed
  <2>1. rdata_L0(in) = LineOf(in.target) /\ in.target \in Addr
    BY <1>1, <1>2 DEF rdata_L0, Inputs
  <2> QED BY <1>1, <2>1, StartServed
<1>10. BufferByState'
  BY <1>1, <1>2, <1>4, <1>5, <1>6, <1>7, <1>8, <1>9
     DEF BufferByState, Awaits, Holds, LoopFacts, KeepsEnd, Whole
<1> QED BY <1>1, <1>2, <1>4, <1>5, <1>6, <1>10 DEF Cycle, Outcome, Pending

\* Whatever the state, a cycle without a jump from outside leaves it in order.
LEMMA EveryCycle ==
  ASSUME FetchInv, TypeOK', NEW in, NEW clear, Clocked(in, clear), ~in.branch
  PROVE  Cycle(in)
<1>1. CASE CS \in {"IDLE", "BRANCHED", "NOT_VALID", "NOT_VALID_GRANTED", "NOT_VALID_CROSS"}
  BY <1>1, FromIdle, FromBranched, FromNotValid, FromNotValidGranted, FromNotValidCross
<1>2. CASE CS \in {"NOT_VALID_CROSS_GRANTED", "VALID", "VALID_CROSS", "VALID_GRANTED",
                   "VALID_FETCH_DONE"}
  BY <1>2, FromNotValidCrossGranted, FromValid, FromValidCross, FromValidGranted,
     FromValidFetchDone
<1>3. CASE CS \in {"HWLP_WAIT_GNT", "HWLP_GRANTED", "HWLP_GRANTED_WAIT", "HWLP_FETCH_DONE"}
  BY <1>3, FromHwlpWaitGnt, FromHwlpGranted, FromHwlpGrantedWait, FromHwlpFetchDone
<1> QED BY <1>1, <1>2, <1>3 DEF FetchInv, TypeOK, States

\* Memory owes an answer for what was granted, and for nothing else.
LEMMA InFlightKept ==
  ASSUME FetchInv, NEW in, NEW clear, Clocked(in, clear)
  PROVE  OneInFlight'
<1>1. /\ in \in Inputs /\ L0Edge(in) /\ (in.rvalid => in_flight # NoLine)
      /\ in.gnt => instr_req_o(in)
  BY DEF Clocked, Edge, PrefetchEdge
<1>2. LineOf(instr_addr(in)) # NoLine
  <2>1. LineOf(instr_addr(in)) \in Line
    BY <1>1, AddressTypes, InLine DEF FetchInv
  <2> QED BY <2>1 DEF Line, NoLine
<1>3. instr_req_o(in) /\ ~in.gnt => in_flight = NoLine \/ in.rvalid
  BY <1>1 DEF instr_req_o, FetchInv, OneInFlight
<1>4. ~instr_req_o(in) /\ in.rvalid => fetch_valid(in)
  BY <1>1 DEF instr_req_o, FetchInv, OneInFlight, fetch_valid
<1>5. /\ L0_CS' = IF ~instr_req_o(in) THEN Unasked(in)
                  ELSE IF in.gnt THEN "WAIT_RVALID" ELSE "WAIT_GNT"
      /\ in_flight' = IF in.gnt THEN LineOf(instr_addr(in))
                      ELSE IF in.rvalid THEN NoLine ELSE in_flight
  BY <1>1 DEF L0Edge
<1> QED BY <1>1, <1>2, <1>3, <1>4, <1>5 DEF FetchInv, OneInFlight, Unasked, fetch_valid

\* While an instruction is served, the program's rounds are the comparator's.
LEMMA RoundsServed ==
  ASSUME FetchInv, CS \notin {"HWLP_WAIT_GNT", "HWLP_GRANTED_WAIT"}
  PROVE  /\ \A i \in Loop : Round(i) <=> pc_is_end(addr_q, i)
         /\ \A i \in Loop : FirstRound(i) <=> JumpsFrom(addr_q, i)
<1>1. /\ due = addr_q /\ (Pending <=> is_hwlp_q)
      /\ \A i \in Loop : Left(i) = rounds[i] + IF is_hwlp_q /\ hwlp_dec_cnt_if = i THEN 1 ELSE 0
      /\ is_hwlp_q => \A j \in Loop : Left(j) >= 2 => loops[j].end # addr_q
      /\ \A i \in Loop : rounds[i] \in Int
  BY DEF FetchInv, TypeOK, LoopsByState, Pending
<1>2. ASSUME NEW i \in Loop
      PROVE  Round(i) <=> pc_is_end(addr_q, i)
  <2>1. pc_is_end(addr_q, i) <=> loops[i].end = addr_q /\ Left(i) >= 2
    BY EndsWhenLeft DEF FetchInv
  <2>2. CASE is_hwlp_q /\ hwlp_dec_cnt_if = i
    <3>1. Left(i) = rounds[i] + 1 /\ rounds[i] \in Int
      BY <1>1, <2>2
    <3> QED BY <1>1, <2>1, <2>2, <3>1 DEF Round
  <2>3. CASE ~(is_hwlp_q /\ hwlp_dec_cnt_if = i)
    <3>1. Left(i) = rounds[i] /\ rounds[i] \in Int
      BY <1>1, <2>3
    <3> QED BY <1>1, <2>1, <3>1 DEF Round
  <2> QED BY <2>2, <2>3
<1> QED BY <1>2 DEF FirstRound, JumpsFrom

-----------------------------------------------------------------------------
(* The loops and the program after a cycle.                                    *)

\* Rounds only get fewer, so no loop comes to start where another one ends.
LEMMA StaysApart ==
  ASSUME FetchInv, TypeOK', NEW in, NEW clear, Clocked(in, clear)
  PROVE  /\ \A i \in Loop : Left(i) \in Int /\ Left(i)' \in Int /\ Left(i)' <= Left(i)
         /\ (\A i, j \in Loop : Left(i) >= 2 /\ Left(j) >= 2 => loops[i].start # loops[j].end)'
         /\ loops' = loops
<1>1. \A i \in Loop : Left(i) \in Int /\ Left(i)' \in Int /\ Left(i)' <= Left(i)
  <2> SUFFICES ASSUME NEW i \in Loop
               PROVE  Left(i) \in Int /\ Left(i)' \in Int /\ Left(i)' <= Left(i)
    OBVIOUS
  <2>1. Left(i) \in Int
    BY DEF FetchInv, TypeOK, Left
  <2>2. Left(i)' = Left(i) - IF ready(in) /\ is_hwlp_q /\ hwlp_dec_cnt_if = i THEN 1 ELSE 0
    BY LeftEdge DEF FetchInv
  <2> QED BY <2>1, <2>2
<1>2. loops' = loops
  BY DEF Clocked, Edge, HwLoopEdge
<1>3. ASSUME NEW i \in Loop, NEW j \in Loop, Left(i)' >= 2, Left(j)' >= 2
      PROVE  loops'[i].start # loops'[j].end
  <2>1. Left(i) >= 2 /\ Left(j) >= 2
    BY <1>1, <1>3
  <2> QED BY <1>2, <2>1 DEF FetchInv, LoopsByState
<1> QED BY <1>1, <1>2, <1>3

\* After a jump from outside the program's rounds are what the counters say.
LEMMA LoopsAfterBranch ==
  ASSUME FetchInv, TypeOK', NEW in, NEW clear, Clocked(in, clear), in.branch
  PROVE  LoopsByState'
<1>1. CS' = "BRANCHED" /\ addr_q' = in.addr /\ ~is_hwlp_q' /\ ~Pending'
  BY FromBranch DEF Pending
<1>2. Redirected(in.addr)
  BY DEF Clocked, Edge, Monitor, ready, valid_o
<1>3. \A i \in Loop : Left(i)' = rounds'[i]
  <2> SUFFICES ASSUME NEW i \in Loop PROVE Left(i)' = rounds'[i]
    OBVIOUS
  <2>1. i # NoLoop
    BY NLoopsAssumption DEF Loop, NoLoop
  <2>2. rounds'[i] = hwlp_counter'[i] - IF id'.valid /\ id'.hwlp /\ id'.dec = i THEN 1 ELSE 0
    BY <1>2 DEF Redirected
  <2> QED BY <2>1, <2>2 DEF Left, hwlp_dec_cnt_id
<1>4. \A i \in Loop : Left(i)' = rounds'[i]
                        + IF Pending' /\ hwlp_dec_cnt_if' = i THEN 1 ELSE 0
  BY <1>1, <1>3 DEF TypeOK
<1>5. due' = addr_q'
  BY <1>1, <1>2 DEF Redirected
<1> QED BY <1>1, <1>4, <1>5, StaysApart DEF LoopsByState

\* After any other cycle the counters, the rounds and what is due agree.
LEMMA LoopsAfterCycle ==
  ASSUME FetchInv, TypeOK', NEW in, NEW clear, Clocked(in, clear), ~in.branch
  PROVE  LoopsByState'
<1> DEFINE e == hwlp_dec_cnt_if'
<1>1. Outcome(in) /\ LoopFacts(in) /\ loops' = loops
  BY EveryCycle, LoopsSeen, StaysApart DEF Cycle
<1>2. \A i \in Loop : Left(i)' = Left(i) - IF ready(in) /\ is_hwlp_q /\ hwlp_dec_cnt_if = i
                                           THEN 1 ELSE 0
  BY LeftEdge DEF FetchInv
<1>3. is_hwlp_q' \/ CS' = "HWLP_GRANTED_WAIT" => Pending'
  BY DEF Pending
<1>4. CASE ~ready(in)
  <2>1. UNCHANGED <<due, rounds>>
    BY <1>4 DEF Clocked, Edge, Monitor
  <2>2. \A i \in Loop : Left(i)' = Left(i)
    BY <1>2, <1>4, StaysApart
  <2>3. Pending' <=> Pending
    BY <1>1, <1>4 DEF Outcome
  <2>4. Pending => e = hwlp_dec_cnt_if /\ e \in Loop
    <3>1. CASE CS = "HWLP_WAIT_GNT"
      BY <1>1, <3>1 DEF FetchInv, BufferByState, AtLoopEnd, JumpsFrom, LoopFacts
    <3>2. CASE is_hwlp_q \/ CS = "HWLP_GRANTED_WAIT"
      <4>1. /\ hwlp_dec_cnt_if \in Loop
            /\ \A j \in Loop : Left(j) >= 2 => loops[j].end # addr_q
        BY <3>2 DEF FetchInv, LoopsByState
      <4>2. ~in.hwloop
        <5> SUFFICES ASSUME in.hwloop PROVE FALSE
          OBVIOUS
        <5>1. JumpsFrom(addr_q, e) /\ e \in Loop
          BY <1>1 DEF LoopFacts
        <5>2. loops[e].end = addr_q /\ Left(e) >= 2
          BY <5>1, EndsWhenLeft DEF FetchInv, JumpsFrom
        <5> QED BY <4>1, <5>1, <5>2
      <4> QED BY <1>1, <4>1, <4>2 DEF LoopFacts
    <3> QED BY <3>1, <3>2 DEF Pending
  <2>5. \A i \in Loop : Left(i)' = rounds'[i] + IF Pending' /\ e = i THEN 1 ELSE 0
    BY <2>1, <2>2, <2>3, <2>4 DEF FetchInv, LoopsByState
  <2>6. CS = "HWLP_WAIT_GNT" =>
          /\ in.target = LoopTarget /\ LoopTarget' = LoopTarget /\ due = LoopTarget
          /\ \A j \in Loop : Left(j) >= 2 => loops[j].end # LoopTarget
    <3> SUFFICES ASSUME CS = "HWLP_WAIT_GNT"
                 PROVE  /\ in.target = LoopTarget /\ LoopTarget' = LoopTarget
                        /\ due = LoopTarget
                        /\ \A j \in Loop : Left(j) >= 2 => loops[j].end # LoopTarget
      OBVIOUS
    <3>1. AtLoopEnd /\ due = LoopTarget
      BY DEF FetchInv, BufferByState, LoopsByState
    <3>2. hwlp_dec_cnt_if \in Loop /\ Left(hwlp_dec_cnt_if) >= 2
      BY <3>1, EndsWhenLeft DEF AtLoopEnd, JumpsFrom, FetchInv
    <3>3. \A j \in Loop : Left(j) >= 2 => loops[j].end # LoopTarget
      BY <3>2 DEF FetchInv, LoopsByState, LoopTarget
    <3> QED BY <1>1, <3>1, <3>3 DEF LoopFacts, LoopTarget
  <2>7. Pending /\ CS # "HWLP_WAIT_GNT" =>
          /\ addr_q = LoopTarget /\ LoopTarget' = LoopTarget
          /\ \A j \in Loop : Left(j) >= 2 => loops[j].end # addr_q
    BY <1>1, <2>4 DEF FetchInv, LoopsByState, Pending, LoopTarget
  <2>8. is_hwlp_q' \/ CS' = "HWLP_GRANTED_WAIT" =>
          /\ e \in Loop /\ addr_q' = LoopTarget'
          /\ \A j \in Loop : Left(j)' >= 2 => loops'[j].end # addr_q'
    <3> SUFFICES ASSUME is_hwlp_q' \/ CS' = "HWLP_GRANTED_WAIT"
                 PROVE  /\ e \in Loop /\ addr_q' = LoopTarget'
                        /\ \A j \in Loop : Left(j)' >= 2 => loops'[j].end # addr_q'
      OBVIOUS
    <3>1. Pending /\ e \in Loop
      BY <1>3, <2>3, <2>4
    <3>2. CASE CS = "HWLP_WAIT_GNT"
      <4>1. CS' # "HWLP_WAIT_GNT" \/ is_hwlp_q'
        OBVIOUS
      <4>2. CS' = "HWLP_WAIT_GNT" => ~is_hwlp_q'
        <5> SUFFICES ASSUME CS' = "HWLP_WAIT_GNT" PROVE ~is_hwlp_q'
          OBVIOUS
        <5>1. BufferByState'
          BY EveryCycle DEF Cycle
        <5> QED BY <5>1 DEF BufferByState, AtLoopEnd
      <4>3. addr_q' = LoopTarget
        BY <1>1, <1>4, <2>6, <3>2, <4>1, <4>2 DEF Outcome
      <4> QED BY <1>1, <2>2, <2>6, <3>1, <3>2, <4>3
    <3>3. CASE CS # "HWLP_WAIT_GNT"
      <4>1. addr_q' = addr_q
        BY <1>1, <1>4, <3>3 DEF Outcome
      <4> QED BY <1>1, <2>2, <2>7, <3>1, <3>3, <4>1
    <3> QED BY <3>2, <3>3
  <2>9. due' = IF CS' = "HWLP_WAIT_GNT" THEN LoopTarget' ELSE addr_q'
    BY <1>1, <1>4, <2>1, <2>6 DEF FetchInv, LoopsByState, Outcome
  <2> QED BY <1>1, <2>5, <2>8, <2>9, StaysApart DEF LoopsByState
<1>5. CASE ready(in)
  <2>1. CS \notin {"HWLP_WAIT_GNT", "HWLP_GRANTED_WAIT"} /\ valid(in) /\ InOrder
    BY <1>5 DEF ready, valid_o, valid, Clocked, Edge, Monitor
  <2>2. /\ \A i \in Loop : Round(i) <=> pc_is_end(addr_q, i)
        /\ \A i \in Loop : FirstRound(i) <=> JumpsFrom(addr_q, i)
        /\ due = addr_q
    BY <2>1, RoundsServed DEF FetchInv, LoopsByState
  <2>3. (\E i \in Loop : Round(i)) <=> in.hwloop
    BY <2>2 DEF Clocked, hwlp_jump
  <2>4. \A i \in Loop : Left(i)' = rounds[i] /\ rounds[i] \in Int
    <3> SUFFICES ASSUME NEW i \in Loop PROVE Left(i)' = rounds[i] /\ rounds[i] \in Int
      OBVIOUS
    <3>1. Left(i) = rounds[i] + IF is_hwlp_q /\ hwlp_dec_cnt_if = i THEN 1 ELSE 0
      BY <2>1 DEF FetchInv, LoopsByState, Pending
    <3>2. rounds[i] \in Int
      BY DEF FetchInv, TypeOK
    <3> QED BY <1>2, <1>5, <3>1, <3>2
  <2>5. \A i \in Loop : rounds'[i] = rounds[i] - IF JumpsFrom(addr_q, i) THEN 1 ELSE 0
    BY <2>1, <2>2 DEF InOrder
  <2>6. CASE in.hwloop
    <3>1. /\ Pending' /\ e \in Loop /\ JumpsFrom(addr_q, e) /\ ~is_hwlp_q
          /\ in.target = LoopTarget'
          /\ IF CS' = "HWLP_WAIT_GNT" THEN addr_q' = addr_q ELSE addr_q' = in.target
      BY <1>1, <1>5, <2>6 DEF Outcome, LoopFacts
    <3>2. \A i \in Loop : JumpsFrom(addr_q, i) <=> e = i
      BY <3>1, OneJumps
    <3>3. \A i \in Loop : Left(i)' = rounds'[i] + IF Pending' /\ e = i THEN 1 ELSE 0
      BY <2>4, <2>5, <3>1, <3>2
    <3>4. due' = LoopTarget'
      <4>1. PICK f \in Loop : FirstRound(f) /\ f = CHOOSE i \in Loop : FirstRound(i)
        BY <2>3, <2>6, FirstRounds
      <4>2. f = e
        BY <2>2, <3>2, <4>1
      <4>3. due' = loops[f].start
        BY <2>1, <2>3, <2>6, <4>1 DEF InOrder
      <4> QED BY <1>1, <4>2, <4>3 DEF LoopTarget
    <3>5. \A j \in Loop : Left(j)' >= 2 => loops'[j].end # LoopTarget'
      <4>1. Left(e) >= 2
        BY <3>1, EndsWhenLeft DEF JumpsFrom, FetchInv
      <4>2. \A j \in Loop : Left(j) >= 2 => loops[j].end # loops[e].start
        BY <3>1, <4>1 DEF FetchInv, LoopsByState
      <4>3. \A j \in Loop : Left(j)' >= 2 => Left(j) >= 2
        BY StaysApart
      <4> QED BY <1>1, <4>2, <4>3 DEF LoopTarget
    <3>6. is_hwlp_q' \/ CS' = "HWLP_GRANTED_WAIT" => CS' # "HWLP_WAIT_GNT"
      <4>1. BufferByState'
        BY EveryCycle DEF Cycle
      <4> QED BY <4>1 DEF BufferByState, AtLoopEnd
    <3> QED BY <1>1, <3>1, <3>3, <3>4, <3>5, <3>6, StaysApart DEF LoopsByState
  <2>7. CASE ~in.hwloop
    <3>1. ~Pending' /\ addr_q' = Following(in) /\ CS' # "HWLP_WAIT_GNT" /\ ~use_hwlp
      BY <1>1, <1>5, <2>7 DEF Outcome
    <3>2. \A i \in Loop : ~JumpsFrom(addr_q, i)
      BY <2>2, <2>3, <2>7 DEF JumpsFrom
    <3>3. \A i \in Loop : Left(i)' = rounds'[i] + IF Pending' /\ e = i THEN 1 ELSE 0
      BY <2>4, <2>5, <3>1, <3>2
    <3>4. due' = Behind
      BY <2>1, <2>3, <2>7 DEF InOrder
    <3>5. Behind = Following(in)
      <4>1. in \in Inputs /\ (in.rvalid => in_flight # NoLine)
        BY DEF Clocked, Edge
      <4> QED BY <2>1, <2>2, <3>1, <4>1, InstructionServed DEF Behind
    <3> QED BY <1>1, <1>3, <3>1, <3>3, <3>4, <3>5, StaysApart DEF LoopsByState
  <2> QED BY <2>6, <2>7 DEF Clocked, Inputs
<1> QED BY <1>4, <1>5

\* What reaches ID is the instruction due, and all of it.
LEMMA DeliveredKept ==
  ASSUME FetchInv, NEW in, NEW clear, Clocked(in, clear)
  PROVE  Delivered'
<1>1. /\ id' = IF ready(in)
           THEN [valid |-> TRUE, pc |-> addr_q, rdata |-> rdata_o(in),
                 hwlp |-> is_hwlp_q,
                 dec |-> IF is_hwlp_q THEN hwlp_dec_cnt_if ELSE NoLoop]
           ELSE IF clear THEN NoInstruction ELSE id
      /\ compressed' = compressed
  BY DEF Clocked, Edge, IfIdEdge
<1>2. CASE ready(in)
  <2>1. valid(in) /\ ordered' = due /\ due = addr_q
    BY <1>2 DEF ready, valid_o, valid, Clocked, Edge, Monitor, InOrder, FetchInv, LoopsByState
  <2>2. Whole(rdata_o(in), addr_q)
    BY <2>1, InstructionServed DEF Clocked, Edge
  <2> QED BY <1>1, <1>2, <2>1, <2>2 DEF Delivered, Whole
<1>3. CASE ~ready(in)
  <2>1. ordered' = ordered
    BY <1>3 DEF Clocked, Edge, Monitor, Redirected
  <2> QED BY <1>1, <1>3, <2>1 DEF Delivered, Whole, FetchInv, NoInstruction
<1> QED BY <1>2, <1>3

-----------------------------------------------------------------------------
(* The theorems.                                                               *)

\* The inductive invariant holds after reset.
LEMMA FetchInit == Init => FetchInv
<1> SUFFICES ASSUME Init PROVE FetchInv
  OBVIOUS
<1> USE DEF Init, PrefetchInit
<1>1. 0 \in Addr
  BY LinesAssumption DEF Addr
<1>2. PICK c \in LoopConfigs : loops = c.loops /\ hwlp_counter = c.counts
  OBVIOUS
<1>3. /\ loops \in [Loop -> [start: Addr, end: Addr]] /\ hwlp_counter \in [Loop -> Nat]
      /\ \A i, j \in Loop : hwlp_counter[i] >= 2 /\ hwlp_counter[j] >= 2 =>
           loops[i].start # loops[j].end
  BY <1>2, AddressesAssumption, LoopsAssumption
<1>4. /\ Word(ResetLine, 3) \in Int \X Int /\ Word(ResetLine, 0) \in Int \X Int
      /\ ResetLine \in Int
  BY DEF Word, ResetLine
<1>5. id \in [valid: BOOLEAN, pc: Addr, rdata: Int \X Int, hwlp: BOOLEAN,
              dec: Loop \cup {NoLoop}]
  BY <1>1, <1>4 DEF NoInstruction
<1>6. hwlp_counter \in [Loop -> Int]
  BY <1>3
<1>7. TypeOK
  BY <1>1, <1>3, <1>4, <1>5, <1>6 DEF TypeOK, States, L0States
<1>8. \A i \in Loop : Left(i) = hwlp_counter[i] /\ hwlp_counter[i] \in Nat
  <2> SUFFICES ASSUME NEW i \in Loop
               PROVE  Left(i) = hwlp_counter[i] /\ hwlp_counter[i] \in Nat
    OBVIOUS
  <2>1. i # NoLoop /\ hwlp_dec_cnt_id = NoLoop
    BY NLoopsAssumption DEF Loop, NoLoop, hwlp_dec_cnt_id, NoInstruction
  <2> QED BY <1>3, <2>1 DEF Left
<1>9. LoopsByState
  BY <1>3, <1>8 DEF LoopsByState, Pending
<1>10. OneInFlight /\ BufferByState /\ Delivered
  BY DEF OneInFlight, BufferByState, Delivered, NoInstruction
<1> QED BY <1>7, <1>9, <1>10 DEF FetchInv

\* Every clock edge preserves it.
LEMMA EdgeKeeps ==
  ASSUME FetchInv, NEW in, NEW clear, Clocked(in, clear)
  PROVE  FetchInv'
<1>1. TypeOK'
  BY TypesKept DEF FetchInv
<1>2. OneInFlight' /\ Delivered'
  BY InFlightKept, DeliveredKept
<1>3. CASE in.branch
  BY <1>1, <1>2, <1>3, FromBranch, LoopsAfterBranch DEF FetchInv
<1>4. CASE ~in.branch
  BY <1>1, <1>2, <1>4, EveryCycle, LoopsAfterCycle DEF FetchInv, Cycle
<1> QED BY <1>3, <1>4

\* The inputs of a step are such inputs.
LEMMA InputsSeen ==
  ASSUME TypeOK, NEW branch \in BOOLEAN, NEW addr \in Addr, NEW advance \in BOOLEAN,
         NEW gnt \in BOOLEAN, NEW rvalid \in BOOLEAN, NEW clear \in BOOLEAN,
         Edge(Input(branch, addr, advance, gnt, rvalid), clear)
  PROVE  Clocked(Input(branch, addr, advance, gnt, rvalid), clear)
<1>1. hwlp_target(addr_q) \in Addr
  <2>1. 0 \in Addr
    BY LinesAssumption DEF Addr
  <2>2. hwlp_jump(addr_q) => Ending(addr_q) \in Loop
    BY FirstJumps DEF JumpsFrom
  <2> QED BY <2>1, <2>2 DEF hwlp_target, TypeOK
<1>2. hwlp_jump(addr_q) \in BOOLEAN
  BY DEF hwlp_jump
<1> QED BY <1>1, <1>2 DEF Clocked, Input, Inputs

\* The inductive invariant holds in every state, for any program, any loops that
\* meet the assumption, any jumps and any memory.
THEOREM FetchInvariant == Spec => []FetchInv
<1>1. Init => FetchInv
  BY FetchInit
<1>2. FetchInv /\ [Next]_vars => FetchInv'
  <2> SUFFICES ASSUME FetchInv, [Next]_vars PROVE FetchInv'
    OBVIOUS
  <2>1. CASE Jump
    <3>1. PICK addr \in Targets, gnt \in BOOLEAN, rvalid \in BOOLEAN, clear \in BOOLEAN :
            Edge(Input(TRUE, addr, FALSE, gnt, rvalid), clear)
      BY <2>1 DEF Jump
    <3>2. Clocked(Input(TRUE, addr, FALSE, gnt, rvalid), clear)
      BY <3>1, InputsSeen, AddressesAssumption DEF FetchInv
    <3> QED BY <3>2, EdgeKeeps
  <2>2. CASE \E advance, gnt, rvalid \in BOOLEAN : Step(advance, gnt, rvalid)
    <3>1. PICK advance \in BOOLEAN, gnt \in BOOLEAN, rvalid \in BOOLEAN, clear \in BOOLEAN :
            Edge(Input(FALSE, NoTarget, advance, gnt, rvalid), clear)
      BY <2>2 DEF Step
    <3>2. NoTarget \in Addr
      BY LinesAssumption DEF NoTarget, Addr
    <3>3. Clocked(Input(FALSE, NoTarget, advance, gnt, rvalid), clear)
      BY <3>1, <3>2, InputsSeen DEF FetchInv
    <3> QED BY <3>3, EdgeKeeps
  <2>3. CASE UNCHANGED vars
    BY <2>3 DEF vars, prefetchVars, L0Vars, hwlpVars, monitorVars, FetchInv, TypeOK,
         OneInFlight, BufferByState, LoopsByState, Delivered, Awaits, Holds, Asks, KeepsLast,
         KeepsEnd, Whole, Left, hwlp_dec_cnt_id, AtLoopEnd, JumpsFrom, pc_is_end, LoopTarget,
         hwlp_jump, Pending
  <2> QED BY <2>1, <2>2, <2>3 DEF Next
<1> QED BY <1>1, <1>2, PTL DEF Spec

\* Instructions reach ID in the program's order: sizes, loops and jumps.
THEOREM DeliversInOrder == Spec => []InstructionsInOrder
<1>1. FetchInv => InstructionsInOrder
  BY DEF FetchInv, Delivered, InstructionsInOrder
<1> QED BY <1>1, FetchInvariant, PTL

\* Each has its own first halfword, and its own second if it is long, in whatever
\* line either is.
THEOREM DeliversWhole == Spec => []InstructionsWhole
<1>1. FetchInv => InstructionsWhole
  BY DEF FetchInv, Delivered, Whole, InstructionsWhole
<1> QED BY <1>1, FetchInvariant, PTL

\* Each loop's counter is what is left of its rounds and what is on its way to
\* being counted: no round is counted twice, and none is missed.
THEOREM CountsLoops == Spec => []LoopsCounted
<1>1. FetchInv => LoopsCounted
  <2> SUFFICES ASSUME FetchInv, NEW i \in Loop
               PROVE  hwlp_counter[i] = rounds[i] + (IF hwlp_dec_cnt_id = i THEN 1 ELSE 0)
                        + (IF Pending /\ hwlp_dec_cnt_if = i THEN 1 ELSE 0)
    BY DEF LoopsCounted
  <2>1. hwlp_counter[i] \in Int /\ rounds[i] \in Int
    BY DEF FetchInv, TypeOK
  <2>2. Left(i) = rounds[i] + IF Pending /\ hwlp_dec_cnt_if = i THEN 1 ELSE 0
    BY DEF FetchInv, LoopsByState
  <2> QED BY <2>1, <2>2 DEF Left
<1> QED BY <1>1, FetchInvariant, PTL

\* A state that waits for a line has asked for it, and for no other.
THEOREM WaitsForItsLine == Spec => []WaitersHaveAsked
<1>1. FetchInv => WaitersHaveAsked
  <2> SUFFICES ASSUME FetchInv, AwaitedLine # NoLine
               PROVE  \/ L0_CS = "WAIT_RVALID" /\ in_flight = AwaitedLine
                      \/ /\ CS = "BRANCHED" /\ L0_CS \in {"WAIT_GNT", "ABORTED_BRANCH"}
                         /\ LineOf(L0_addr_q) = AwaitedLine
    BY DEF WaitersHaveAsked
  <2>1. CASE CS \in {"BRANCHED", "NOT_VALID_GRANTED"}
    <3>1. AwaitedLine = LineOf(addr_q)
      BY <2>1 DEF AwaitedLine
    <3> QED BY <2>1, <3>1 DEF FetchInv, BufferByState, Awaits
  <2>2. CASE CS \in {"NOT_VALID_CROSS_GRANTED", "VALID_GRANTED"}
    <3>1. AwaitedLine = NextLine(addr_q)
      BY <2>2 DEF AwaitedLine
    <3> QED BY <2>2, <3>1 DEF FetchInv, BufferByState, Awaits
  <2>3. CASE CS \in {"HWLP_GRANTED", "HWLP_GRANTED_WAIT"}
    <3>1. AwaitedLine = LineOf(LoopTarget)
      BY <2>3 DEF AwaitedLine, LoopTarget
    <3> QED BY <2>3, <3>1 DEF FetchInv, BufferByState, LoopsByState, Awaits
  <2>4. CASE CS \notin {"BRANCHED", "NOT_VALID_GRANTED", "NOT_VALID_CROSS_GRANTED",
                        "VALID_GRANTED", "HWLP_GRANTED", "HWLP_GRANTED_WAIT"}
    BY <2>4 DEF AwaitedLine
  <2> QED BY <2>1, <2>2, <2>3, <2>4
<1> QED BY <1>1, FetchInvariant, PTL
=============================================================================
