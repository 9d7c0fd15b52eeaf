------------------------------ MODULE BistProofs ------------------------------
(***************************************************************************)
(* Theorems about the LBIST block and its bench, for every width, tap,     *)
(* seed, feedback, chain length, number of vectors and core response.      *)
(***************************************************************************)
EXTENDS LbistBench, BistControllerProofs, WellFoundedInduction

-----------------------------------------------------------------------------
(* The invariants.                                                             *)

\* Shifts since the seed was loaded.
Shifts == (count_vector - 1) * ShiftsPerLoad + count_shift

Words == /\ lfsr \in Word(W) /\ misr \in Word(W) /\ start_signature \in Word(W)
         /\ cells \in [Cells -> Bit]
         /\ error \in {NoError} \cup WrongCapture

\* A wrong capture is one that has been made.
ErrorIsPast ==
  error # NoError =>
    /\ present_state \in {"testshift_state", "testexec_state",
                           "endtest_state", "evaluate_state"}
    /\ present_state \in {"testshift_state", "testexec_state"} =>
         error.capture < count_vector

\* The generator and the part of the chains that the running load has filled.
LoadsPatterns ==
  present_state \in Shifting \cup {"testexec_state"} =>
    /\ lfsr = prn[Shifts]
    /\ \A x \in Cells : x[2] <= count_shift =>
                        cells[x] = prn[Shifts - x[2]][x[1]]

\* The rest of the chains holds what is left of the last response.
UnloadsResponses ==
  present_state = "testshift_state" =>
    \A x \in Cells : x[2] > count_shift =>
      cells[x] = Captured(count_vector - 1, error)[<<x[1], x[2] - count_shift>>]

\* The compactor has absorbed every cycle but those of the first load.
AbsorbsResponses ==
  /\ present_state \in {"teststart_state", "firstshift_state"} =>
       misr = start_signature
  /\ present_state \in {"testshift_state", "testexec_state", "endtest_state"} =>
       misr = Absorbed(start_signature, error)[Shifts - ShiftsPerLoad]

\* What every register of the block and every scan cell holds in every state of
\* a session.  Inductive together with ControllerInv: it is proved in
\* BistProofs.
SessionInv ==
  /\ Words
  /\ ErrorIsPast
  /\ LoadsPatterns
  /\ UnloadsResponses
  /\ AbsorbsResponses
  /\ SignatureIsReference

\* How far the bench has come.  The session of the bench is the only one after
\* its reset, and the request is up from its first cycle to its last: inductive
\* together with SessionInv and ControllerInv, and proved in BistProofs.
BenchInv ==
  /\ edges \in 0 .. ResetWaitCycles
  /\ test_normal_sig \in Bit
  /\ start_signature = Zero(W)
  /\ rst_n = 0 => present_state = "reset_state" /\ bist_result = "none"
  /\ edges > 0 /\ present_state = "reset_state" =>
       /\ flags = {"reset_state"} /\ test_normal_sig = 0 /\ misr = Zero(W)
       /\ bist_result = "none"
  /\ present_state # "reset_state" =>
       test_normal_sig = IF bist_result = "none" THEN 1 ELSE 0
  /\ bist_result # "none" => present_state = "idle_state"
  /\ present_state \in {"idle_state", "teststart_state", "firstshift_state"}
       /\ bist_result = "none" => misr = Zero(W)
  /\ InStep

-----------------------------------------------------------------------------
(* Induction over the naturals, from the library's theorem that every      *)
(* nonempty set has a minimum, and the recursive functions it gives.       *)

\* A nonempty set of naturals has a least member.
LEMMA Least ==
  ASSUME NEW T, T \subseteq Nat, T # {}
  PROVE  \E m \in T : \A k \in T : m <= k
<1> DEFINE R == {ss \in Nat \X Nat : ss[1] < ss[2]}
<1>1. IsWellFoundedOn(R, Nat)
  BY NatLessThanWellFounded DEF OpToRel
<1> HIDE DEF R
<1>2. \E x \in T : \A y \in T : ~ (<<y, x>> \in R)
  BY <1>1, WFMin
<1>3. \A x, y \in Nat : <<y, x>> \notin R => x <= y
  BY DEF R
<1>4. QED BY <1>2, <1>3

\* A set of naturals that holds 0 and the successors of its members holds all.
LEMMA Induct ==
  ASSUME NEW S, S \subseteq Nat, 0 \in S, \A n \in S : n + 1 \in S
  PROVE  S = Nat
<1> SUFFICES ASSUME Nat \ S # {} PROVE FALSE
  OBVIOUS
<1>1. PICK m \in Nat \ S : \A k \in Nat \ S : m <= k
  BY Least
<1>2. m # 0 /\ m - 1 \in Nat
  BY <1>1
<1>3. m - 1 \in S
  BY <1>1, <1>2
<1>4. QED BY <1>1, <1>2, <1>3

\* f is the recursion that starts at a and goes on by step.
Follows(f, N, a, step) ==
  \A n \in 0 .. N : f[n] = IF n = 0 THEN a ELSE step[<<f[n - 1], n>>]

\* A recursion along 0 .. N has a solution.
LEMMA Recursion ==
  ASSUME NEW A, NEW N \in Nat, NEW a \in A, NEW step,
         \A x \in A, n \in 1 .. N : step[<<x, n>>] \in A
  PROVE  \E f \in [0 .. N -> A] : Follows(f, N, a, step)
<1> USE DEF Follows
<1> DEFINE Solves(f, m) ==
             f \in [0 .. m -> A] /\ Follows(f, m, a, step)
           S == {m \in Nat : m <= N => \E f : Solves(f, m)}
<1>1. 0 \in S
  <2>1. Solves([n \in 0 .. 0 |-> a], 0)
    OBVIOUS
  <2>2. QED BY <2>1
<1>2. ASSUME NEW m \in S PROVE m + 1 \in S
  <2> SUFFICES ASSUME m + 1 <= N PROVE \E f : Solves(f, m + 1)
    OBVIOUS
  <2>1. PICK f : Solves(f, m)
    BY <1>2
  <2> DEFINE g == [n \in 0 .. m + 1 |-> IF n = m + 1 THEN step[<<f[m], m + 1>>] ELSE f[n]]
  <2>2. f[m] \in A /\ m + 1 \in 1 .. N
    BY <2>1
  <2>3. g \in [0 .. m + 1 -> A]
    <3>1. step[<<f[m], m + 1>>] \in A
      BY <2>2
    <3>2. \A n \in 0 .. m + 1 : n # m + 1 => n \in 0 .. m /\ f[n] \in A
      BY <2>1
    <3>3. QED BY <3>1, <3>2
  <2>4. ASSUME NEW n \in 0 .. m + 1
        PROVE  g[n] = IF n = 0 THEN a ELSE step[<<g[n - 1], n>>]
    <3>1. CASE n = m + 1
      <4>1. g[n] = step[<<f[m], m + 1>>] /\ n - 1 = m /\ m \in 0 .. m + 1 /\ m # m + 1
        BY <3>1
      <4>2. g[m] = f[m]
        BY <4>1
      <4>3. n # 0
        BY <3>1
      <4> HIDE DEF g
      <4>4. QED BY <3>1, <4>1, <4>2, <4>3
    <3>2. CASE n # m + 1
      <4>1. n \in 0 .. m /\ g[n] = f[n]
        BY <3>2
      <4>2. n # 0 => n - 1 \in 0 .. m + 1 /\ n - 1 # m + 1
        BY <4>1
      <4>3. n # 0 => g[n - 1] = f[n - 1]
        BY <4>2
      <4>4. f[n] = IF n = 0 THEN a ELSE step[<<f[n - 1], n>>]
        BY <2>1, <4>1
      <4> HIDE DEF g
      <4>5. QED BY <4>1, <4>3, <4>4
    <3>3. QED BY <3>1, <3>2
  <2> HIDE DEF g
  <2>5. QED BY <2>3, <2>4
<1>3. S = Nat
  <2> HIDE DEF Solves
  <2>1. S \subseteq Nat
    OBVIOUS
  <2> HIDE DEF S
  <2>2. QED BY <1>1, <1>2, <2>1, Induct
<1>4. PICK f : Solves(f, N)
  <2>1. N \in S
    BY <1>3
  <2> HIDE DEF Solves
  <2>2. QED BY <2>1
<1>5. f \in [0 .. N -> A] /\ Follows(f, N, a, step)
  BY <1>4
<1> HIDE DEF Follows, Solves, S
<1>6. QED BY <1>5

-----------------------------------------------------------------------------
(* The generator.                                                          *)

\* The lengths of a load and of a session.
LEMMA Sizes ==
  /\ ShiftLast \in Nat \ {0} /\ VectorLast \in Nat \ {0, 1}
  /\ ShiftsPerLoad \in Nat \ {0, 1}
  /\ ShiftsPerLoad * VectorLast \in Nat
  /\ ShiftsPerLoad * (VectorLast - 1) \in Nat
<1>1. 0 \in Chain
  BY BlockShape DEF Chain
<1>2. ShiftLast # 0
  BY <1>1, ChainsFit, LiteralsFit
<1>3. ShiftLast \in Nat \ {0} /\ VectorLast \in Nat \ {0, 1}
  BY <1>2, LiteralsFit
<1>4. ShiftsPerLoad \in Nat \ {0, 1}
  BY <1>3 DEF ShiftsPerLoad
<1>5. QED BY <1>3, <1>4

\* The cleared register.
LEMMA ZeroIsAWord == Zero(W) \in Word(W)
BY DEF Zero, Word, Bit

\* Words that agree bit by bit are equal.
LEMMA EqualBits ==
  ASSUME NEW f \in Word(W), NEW g \in Word(W),
         \A i \in 0 .. W - 1 : f[i] = g[i]
  PROVE  f = g
<1>1. /\ f = [i \in 0 .. W - 1 |-> f[i]]
      /\ g = [i \in 0 .. W - 1 |-> g[i]]
  BY DEF Word
<1>2. QED BY <1>1

\* A shift of a word is a word.
LEMMA ShiftedIsAWord ==
  ASSUME NEW ff \in Word(W) PROVE Gen!Shifted(ff) \in Word(W)
<1>1. \A i \in 0 .. W - 1 : i # 0 => i - 1 \in 0 .. W - 1
  BY BlockShape
<1>2. W - 1 \in 0 .. W - 1 /\ Tap \in 0 .. W - 1
  BY BlockShape
<1>3. QED
  BY <1>1, <1>2 DEF Gen!Shifted, Gen!xor_result, Gen!Xor, Word, Bit

\* The shift loses nothing: a sequence of patterns repeats only from its first
\* word on, so checking the returns to the seed checks every repetition.
THEOREM ShiftIsInjective ==
  ASSUME NEW f \in Word(W), NEW g \in Word(W), Gen!Shifted(f) = Gen!Shifted(g)
  PROVE  f = g
<1>1. \A i \in 0 .. W - 2 : f[i] = g[i]
  <2> SUFFICES ASSUME NEW i \in 0 .. W - 2
               PROVE  f[i] = g[i]
    OBVIOUS
  <2>1. i + 1 \in 0 .. W - 1 /\ i + 1 # 0 /\ (i + 1) - 1 = i
    BY BlockShape
  <2>2. Gen!Shifted(f)[i + 1] = f[i] /\ Gen!Shifted(g)[i + 1] = g[i]
    BY <2>1 DEF Gen!Shifted
  <2>3. QED BY <2>2
<1>2. f[Tap] = g[Tap]
  BY <1>1, BlockShape
<1>3. f[W - 1] = g[W - 1]
  <2>1. 0 \in 0 .. W - 1 /\ W - 1 \in 0 .. W - 1 /\ Tap \in 0 .. W - 1
    BY BlockShape
  <2>2. Gen!Xor(f[W - 1], f[Tap]) = Gen!Xor(g[W - 1], g[Tap])
    BY <2>1 DEF Gen!Shifted, Gen!xor_result
  <2>3. /\ f[W - 1] \in Bit /\ g[W - 1] \in Bit
        /\ f[Tap] \in Bit /\ g[Tap] \in Bit
    BY <2>1 DEF Word
  <2>4. QED BY <1>2, <2>2, <2>3 DEF Gen!Xor, Bit
<1>4. \A i \in 0 .. W - 1 : f[i] = g[i]
  BY <1>1, <1>3, BlockShape
<1>5. QED BY <1>4, EqualBits

\* The zero word is the only one the shift maps to the zero word: the
\* generator cannot run into the state it could not leave.
THEOREM NeverRunsIntoZero ==
  ASSUME NEW ff \in Word(W), ff # Zero(W) PROVE Gen!Shifted(ff) # Zero(W)
<1>1. Gen!Shifted(Zero(W)) = Zero(W)
  BY BlockShape DEF Gen!Shifted, Gen!xor_result, Gen!Xor, Zero
<1>2. QED BY <1>1, ZeroIsAWord, ShiftIsInjective

\* The words the generator can leave.
Nonzero == {w \in Word(W) : w # Zero(W)}

\* The words of the generator, none of them zero.
LEMMA GeneratorWords ==
  /\ prn[0] = Seed
  /\ \A n \in 1 .. ShiftsPerLoad * VectorLast : prn[n] = Gen!Shifted(prn[n - 1])
  /\ \A n \in 0 .. ShiftsPerLoad * VectorLast : prn[n] \in Nonzero
<1> DEFINE N == ShiftsPerLoad * VectorLast
           step == [p \in Nonzero \X (1 .. N) |-> Gen!Shifted(p[1])]
           F(f) == [n \in 0 .. N |-> IF n = 0 THEN Seed ELSE Gen!Shifted(f[n - 1])]
<1>1. N \in Nat
  BY Sizes
<1>2. Seed \in Nonzero
  BY BlockShape DEF Nonzero
<1>3. \A x \in Nonzero : Gen!Shifted(x) \in Nonzero
  BY ShiftedIsAWord, NeverRunsIntoZero DEF Nonzero
<1> HIDE DEF N
<1>4. \A x \in Nonzero, n \in 1 .. N : step[<<x, n>>] = Gen!Shifted(x)
  OBVIOUS
<1> HIDE DEF step
<1>5. PICK f \in [0 .. N -> Nonzero] : Follows(f, N, Seed, step)
  <2>1. \A x \in Nonzero, n \in 1 .. N : step[<<x, n>>] \in Nonzero
    BY <1>3, <1>4
  <2>2. QED BY ONLY <1>1, <1>2, <2>1, Recursion, Zenon
<1>6. \A n \in 0 .. N : f[n] = IF n = 0 THEN Seed ELSE Gen!Shifted(f[n - 1])
  <2> SUFFICES ASSUME NEW n \in 0 .. N, n # 0
               PROVE  f[n] = Gen!Shifted(f[n - 1])
    BY <1>5 DEF Follows
  <2>1. n \in 1 .. N /\ n - 1 \in 0 .. N
    BY <1>1
  <2>2. f[n - 1] \in Nonzero
    BY <2>1
  <2>3. QED BY <1>4, <1>5, <2>1, <2>2 DEF Follows
<1>7. f = F(f)
  BY <1>6
<1>8. prn = F(prn)
  BY <1>7 DEF prn, N
<1>9. \A n \in 0 .. N : prn[n] = IF n = 0 THEN Seed ELSE Gen!Shifted(prn[n - 1])
  BY <1>8
<1> DEFINE S == {m \in Nat : m <= N => prn[m] \in Nonzero}
<1>10. 0 \in S
  BY <1>1, <1>2, <1>9
<1>11. \A m \in S : m + 1 \in S
  <2> SUFFICES ASSUME NEW m \in S, m + 1 <= N PROVE prn[m + 1] \in Nonzero
    OBVIOUS
  <2>1. m \in 0 .. N /\ m + 1 \in 0 .. N /\ m + 1 # 0 /\ (m + 1) - 1 = m
    BY <1>1
  <2>2. prn[m + 1] = Gen!Shifted(prn[m])
    BY <1>9, <2>1
  <2>3. QED BY <1>3, <2>1, <2>2
<1>12. S = Nat
  <2>1. S \subseteq Nat
    OBVIOUS
  <2> HIDE DEF S
  <2>2. QED BY <1>10, <1>11, <2>1, Induct
<1>13. \A n \in 0 .. N : prn[n] \in Nonzero
  BY <1>1, <1>12
<1>14. QED BY <1>1, <1>9, <1>13 DEF N

-----------------------------------------------------------------------------
(* The chains and the compactor.                                           *)

(* The block's compactor, as ArithmeticProofs has one on its own.              *)

\* An exclusive or is a bit.
LEMMA XorIsABit == \A a, b : Sig!Xor(a, b) \in Bit
BY DEF Sig!Xor, Bit

\* What the flip-flops of the compactor sample is a word.
LEMMA AbsorbedIsAWord ==
  ASSUME NEW ff, NEW din PROVE Sig!ff_in(ff, din) \in Word(W)
BY XorIsABit DEF Sig!ff_in, Word

\* Different inputs make equal signatures differ.
LEMMA DifferentInputs ==
  ASSUME NEW ff \in Word(W), NEW d \in Word(W), NEW e \in Word(W), d # e
  PROVE  Sig!ff_in(ff, d) # Sig!ff_in(ff, e)
<1>1. PICK i \in 0 .. W - 1 : d[i] # e[i]
  BY EqualBits
<1>2. d[i] \in Bit /\ e[i] \in Bit
  BY DEF Word
<1>3. \A a \in Bit : Sig!Xor(a, d[i]) # Sig!Xor(a, e[i])
  BY <1>1, <1>2 DEF Sig!Xor, Bit
<1>4. Sig!ff_in(ff, d)[i] # Sig!ff_in(ff, e)[i]
  BY <1>3, XorIsABit DEF Sig!ff_in
<1>5. QED BY <1>4

\* Equal inputs keep different signatures different.
LEMMA EqualInputs ==
  ASSUME NEW f \in Word(W), NEW g \in Word(W), NEW d \in Word(W), f # g
  PROVE  Sig!ff_in(f, d) # Sig!ff_in(g, d)
<1> SUFFICES ASSUME Sig!ff_in(f, d) = Sig!ff_in(g, d) PROVE f = g
  OBVIOUS
<1> DEFINE Prev(ff, i) == IF i = 0 THEN 0 ELSE ff[i - 1]
<1>1. \A i \in 0 .. W - 1 :
        Sig!Xor(Sig!Xor(Prev(f, i), Sig!FedBack(f, i)), d[i])
          = Sig!Xor(Sig!Xor(Prev(g, i), Sig!FedBack(g, i)), d[i])
  BY DEF Sig!ff_in
<1>2. \A i \in 0 .. W - 1 :
        Sig!Xor(Prev(f, i), Sig!FedBack(f, i)) = Sig!Xor(Prev(g, i), Sig!FedBack(g, i))
  BY <1>1, XorIsABit DEF Sig!Xor, Bit, Word
<1>3. W - 1 \in 0 .. W - 1 /\ 0 \in 0 .. W - 1
  BY BlockShape
<1>4. f[W - 1] \in Bit /\ g[W - 1] \in Bit
  BY <1>3 DEF Word
<1>5. f[W - 1] = g[W - 1]
  <2>1. Sig!Xor(0, f[W - 1]) = Sig!Xor(0, g[W - 1])
    BY <1>2, <1>3, BlockShape DEF Sig!FedBack
  <2>2. QED BY <2>1, <1>4 DEF Sig!Xor, Bit
<1>6. \A i \in 0 .. W - 2 : f[i] = g[i]
  <2> SUFFICES ASSUME NEW i \in 0 .. W - 2
               PROVE  f[i] = g[i]
    OBVIOUS
  <2>1. i \in 0 .. W - 1 /\ i + 1 \in 0 .. W - 1 /\ i + 1 # 0 /\ (i + 1) - 1 = i
    BY BlockShape
  <2>2. Sig!Xor(f[i], Sig!FedBack(f, i + 1)) = Sig!Xor(g[i], Sig!FedBack(g, i + 1))
    BY <1>2, <2>1
  <2>3. Sig!FedBack(f, i + 1) = Sig!FedBack(g, i + 1) /\ Sig!FedBack(f, i + 1) \in Bit
    BY <1>4, <1>5 DEF Sig!FedBack, Bit
  <2>4. f[i] \in Bit /\ g[i] \in Bit
    BY <2>1 DEF Word
  <2>5. QED BY <2>2, <2>3, <2>4 DEF Sig!Xor, Bit
<1>7. \A i \in 0 .. W - 1 : f[i] = g[i]
  BY <1>5, <1>6, BlockShape
<1>8. QED BY <1>7, EqualBits

\* The shift cycles of load k, counted from the seed.
LEMMA Cycles ==
  ASSUME NEW k \in 1 .. VectorLast, NEW j \in 0 .. ShiftsPerLoad
  PROVE  /\ (k - 1) * ShiftsPerLoad \in Nat
         /\ (k - 1) * ShiftsPerLoad + j \in 0 .. ShiftsPerLoad * VectorLast
         /\ (k - 1) * ShiftsPerLoad + ShiftsPerLoad = k * ShiftsPerLoad
<1>1. (k - 1) * ShiftsPerLoad \in Nat
  BY Sizes
<1>2. (k - 1) * ShiftsPerLoad + ShiftsPerLoad = k * ShiftsPerLoad
  BY Sizes
<1>3. k * ShiftsPerLoad <= ShiftsPerLoad * VectorLast
  BY Sizes
<1>4. (k - 1) * ShiftsPerLoad + j \in Nat
  BY <1>1, Sizes
<1>5. (k - 1) * ShiftsPerLoad + j <= k * ShiftsPerLoad
  BY <1>1, <1>2, Sizes
<1>6. QED BY <1>1, <1>2, <1>3, <1>4, <1>5, Sizes

\* A cell is a chain and a place in it, and every place of a chain is a cell.
LEMMA CellShape ==
  /\ \A x \in Cells : /\ x = <<x[1], x[2]>> /\ x[1] \in Chain
                      /\ x[2] \in 1 .. ChainLen[x[1]] /\ x[2] \in 1 .. ShiftLast
  /\ \A c \in Chain : /\ ChainLen[c] \in 1 .. ShiftLast
                      /\ \A i \in 1 .. ChainLen[c] : <<c, i>> \in Cells
BY ChainsFit, LiteralsFit DEF Cells

\* The bits of the generator's words.
LEMMA GeneratorBits ==
  ASSUME NEW n \in 0 .. ShiftsPerLoad * VectorLast, NEW c \in Chain
  PROVE  prn[n][c] \in Bit
BY GeneratorWords DEF Nonzero, Word, Chain

\* A pattern fills every cell with a bit.
LEMMA PatternType ==
  ASSUME NEW k \in 1 .. VectorLast
  PROVE  Pattern(k) \in [Cells -> Bit] /\ prn[k * ShiftsPerLoad][0] \in Bit
<1>1. ASSUME NEW x \in Cells PROVE prn[k * ShiftsPerLoad - x[2]][x[1]] \in Bit
  <2>1. x[1] \in Chain /\ x[2] \in 1 .. ShiftLast
    BY CellShape
  <2>2. ShiftsPerLoad - x[2] \in 0 .. ShiftsPerLoad
    BY <2>1, Sizes DEF ShiftsPerLoad
  <2>3. (k - 1) * ShiftsPerLoad + (ShiftsPerLoad - x[2]) = k * ShiftsPerLoad - x[2]
    BY <2>1, Cycles, Sizes
  <2>4. k * ShiftsPerLoad - x[2] \in 0 .. ShiftsPerLoad * VectorLast
    BY <2>2, <2>3, Cycles
  <2>5. QED BY <2>1, <2>4, GeneratorBits
<1>2. prn[k * ShiftsPerLoad][0] \in Bit
  <2>1. ShiftsPerLoad \in 0 .. ShiftsPerLoad /\ 0 \in Chain
    BY Sizes, BlockShape DEF Chain
  <2>2. k * ShiftsPerLoad \in 0 .. ShiftsPerLoad * VectorLast
    BY <2>1, Cycles
  <2>3. QED BY <2>1, <2>2, GeneratorBits
<1>3. QED BY <1>1, <1>2 DEF Pattern

\* A wrong bit is a bit, and the only one that changes.
LEMMA FlipType ==
  ASSUME NEW word \in [Cells -> Bit], NEW x \in Cells
  PROVE  /\ Flip(word, x) \in [Cells -> Bit]
         /\ Flip(word, x)[x] # word[x]
         /\ \A y \in Cells \ {x} : Flip(word, x)[y] = word[y]
BY DEF Flip, Bit

\* A response, right or wrong, fills every cell with a bit.
LEMMA CapturedType ==
  ASSUME NEW k \in 1 .. VectorLast, NEW err \in {NoError} \cup WrongCapture
  PROVE  Captured(k, err) \in [Cells -> Bit]
<1>1. Response(Pattern(k), prn[k * ShiftsPerLoad][0]) \in [Cells -> Bit]
  BY PatternType, CoreAnswers
<1>2. err # NoError => err.cell \in Cells
  BY DEF WrongCapture
<1>3. QED BY <1>1, <1>2, FlipType DEF Captured

\* What the chains put out is a word for the compactor.
LEMMA UnloadedType ==
  ASSUME NEW k \in 1 .. VectorLast - 1, NEW j \in 0 .. ShiftLast,
         NEW err \in {NoError} \cup WrongCapture
  PROVE  Unloaded(k, j, err) \in Word(W)
<1>1. k \in 1 .. VectorLast /\ k + 1 \in 1 .. VectorLast
  BY Sizes
<1>2. ASSUME NEW c \in Chain, j < ChainLen[c]
      PROVE  Captured(k, err)[<<c, ChainLen[c] - j>>] \in Bit
  <2>1. ChainLen[c] - j \in 1 .. ChainLen[c]
    BY <1>2, CellShape
  <2>2. <<c, ChainLen[c] - j>> \in Cells
    BY <2>1, CellShape
  <2>3. QED BY <1>1, <2>2, CapturedType
<1>3. ASSUME NEW c \in Chain, ~(j < ChainLen[c])
      PROVE  prn[k * ShiftsPerLoad + j - ChainLen[c]][c] \in Bit
  <2>1. j - ChainLen[c] \in 0 .. ShiftsPerLoad
    BY <1>3, CellShape, Sizes DEF ShiftsPerLoad
  <2>2. (k + 1) - 1 = k /\ k * ShiftsPerLoad \in Nat
    BY Sizes
  <2>3. k * ShiftsPerLoad + (j - ChainLen[c]) \in 0 .. ShiftsPerLoad * VectorLast
    BY <1>1, <2>1, <2>2, Cycles
  <2>4. k * ShiftsPerLoad + (j - ChainLen[c]) = k * ShiftsPerLoad + j - ChainLen[c]
    BY <2>2, CellShape
  <2>5. QED BY <2>3, <2>4, GeneratorBits
<1>4. QED BY <1>2, <1>3 DEF Unloaded, Word, Chain

\* Quotient and remainder of a number given by both.
LEMMA DivMod ==
  ASSUME NEW q \in Nat, NEW d \in Nat \ {0}, NEW r \in 0 .. d - 1
  PROVE  (q * d + r) \div d = q /\ (q * d + r) % d = r
OBVIOUS

\* Every number of cycles is a number of whole loads and a part of one.
LEMMA WholeLoads ==
  \A n \in Nat : \E q \in Nat, r \in 0 .. ShiftLast : n = q * ShiftsPerLoad + r
<1> DEFINE S == {n \in Nat : \E q \in Nat, r \in 0 .. ShiftLast :
                               n = q * ShiftsPerLoad + r}
<1>1. 0 \in S
  <2>1. 0 = 0 * ShiftsPerLoad + 0 /\ 0 \in 0 .. ShiftLast
    BY Sizes
  <2>2. QED BY <2>1
<1>2. ASSUME NEW n \in S PROVE n + 1 \in S
  <2>1. PICK q \in Nat, r \in 0 .. ShiftLast : n = q * ShiftsPerLoad + r
    BY <1>2
  <2>2. CASE r < ShiftLast
    <3>1. q * ShiftsPerLoad \in Nat
      BY Sizes
    <3>2. n + 1 = q * ShiftsPerLoad + (r + 1) /\ r + 1 \in 0 .. ShiftLast
      BY <2>1, <2>2, <3>1, Sizes
    <3>3. QED BY <3>2
  <2>3. CASE r = ShiftLast
    <3>1. (q + 1) * ShiftsPerLoad = q * ShiftsPerLoad + ShiftsPerLoad
      BY Sizes
    <3>2. n + 1 = (q + 1) * ShiftsPerLoad + 0 /\ 0 \in 0 .. ShiftLast /\ q + 1 \in Nat
      BY <2>1, <2>3, <3>1, Sizes DEF ShiftsPerLoad
    <3>3. \E p \in Nat, r1 \in 0 .. ShiftLast : n + 1 = p * ShiftsPerLoad + r1
      BY ONLY <3>2, Zenon
    <3>4. n + 1 \in Nat
      OBVIOUS
    <3>5. QED BY ONLY <3>3, <3>4, Zenon
  <2>4. QED BY <2>2, <2>3, Sizes
<1>3. S \subseteq Nat
  OBVIOUS
<1>4. S = Nat
  <2> HIDE DEF S
  <2>1. QED BY <1>1, <1>2, <1>3, Induct
<1>5. QED BY <1>4

\* The cycles in which the compactor absorbs, and the first one after them.
Unloading == 0 .. ShiftsPerLoad * (VectorLast - 1)

\* The cycles of unloading, by load and shift.
LEMMA UnloadCycle ==
  /\ \A k \in 1 .. VectorLast - 1, j \in 0 .. ShiftLast :
       LET n == (k - 1) * ShiftsPerLoad + j + 1
       IN  /\ n \in Unloading \ {0} /\ n - 1 \in Unloading
           /\ (n - 1) \div ShiftsPerLoad + 1 = k
           /\ (n - 1) % ShiftsPerLoad = j
  /\ \A n \in Unloading \ {0} :
       \E k \in 1 .. VectorLast - 1, j \in 0 .. ShiftLast :
         n = (k - 1) * ShiftsPerLoad + j + 1
<1>1. ASSUME NEW k \in 1 .. VectorLast - 1, NEW j \in 0 .. ShiftLast,
             NEW n, n = (k - 1) * ShiftsPerLoad + j + 1
      PROVE  /\ n \in Unloading \ {0} /\ n - 1 \in Unloading
             /\ (n - 1) \div ShiftsPerLoad + 1 = k
             /\ (n - 1) % ShiftsPerLoad = j
  <2>1. k - 1 \in Nat /\ (k - 1) * ShiftsPerLoad \in Nat
    BY Sizes
  <2>2. (k - 1) * ShiftsPerLoad + ShiftsPerLoad = k * ShiftsPerLoad
    BY Sizes
  <2>3. k * ShiftsPerLoad <= ShiftsPerLoad * (VectorLast - 1)
    BY Sizes
  <2>4. n - 1 = (k - 1) * ShiftsPerLoad + j /\ j \in 0 .. ShiftsPerLoad - 1
    BY <1>1, <2>1, Sizes DEF ShiftsPerLoad
  <2>5. /\ ((k - 1) * ShiftsPerLoad + j) \div ShiftsPerLoad = k - 1
        /\ ((k - 1) * ShiftsPerLoad + j) % ShiftsPerLoad = j
    <3>1. ShiftsPerLoad \in Nat \ {0}
      BY Sizes
    <3>2. QED BY ONLY <2>1, <2>4, <3>1, DivMod, Zenon
  <2>6. n \in Nat \ {0} /\ n <= k * ShiftsPerLoad
    BY <1>1, <2>1, <2>2, Sizes DEF ShiftsPerLoad
  <2>7. k * ShiftsPerLoad \in Nat
    BY Sizes
  <2>8. n \in Unloading \ {0} /\ n - 1 \in Unloading
    BY <2>3, <2>6, <2>7, Sizes DEF Unloading
  <2>9. QED BY <2>4, <2>5, <2>8
<1>2. ASSUME NEW n \in Unloading \ {0}
      PROVE  \E k \in 1 .. VectorLast - 1, j \in 0 .. ShiftLast :
               n = (k - 1) * ShiftsPerLoad + j + 1
  <2>1. n - 1 \in Nat
    BY Sizes DEF Unloading
  <2>2. PICK q \in Nat, r \in 0 .. ShiftLast : n - 1 = q * ShiftsPerLoad + r
    BY <2>1, WholeLoads
  <2>3. q < VectorLast - 1
    <3>1. SUFFICES ASSUME q >= VectorLast - 1 PROVE FALSE
      BY Sizes
    <3>2. q * ShiftsPerLoad >= ShiftsPerLoad * (VectorLast - 1)
      BY <3>1, Sizes
    <3>3. q * ShiftsPerLoad \in Nat
      BY Sizes
    <3>4. QED BY <2>2, <3>2, <3>3, Sizes DEF Unloading
  <2>4. q + 1 \in 1 .. VectorLast - 1 /\ (q + 1) - 1 = q
    BY <2>3, Sizes
  <2>5. n = ((q + 1) - 1) * ShiftsPerLoad + r + 1
    <3>1. q * ShiftsPerLoad \in Nat
      BY Sizes
    <3>2. QED BY <2>2, <2>4, <3>1 DEF Unloading
  <2>6. QED BY <2>4, <2>5
<1>3. QED BY <1>1, <1>2

\* The signature as it grows.
LEMMA SignatureWords ==
  ASSUME NEW start \in Word(W), NEW err \in {NoError} \cup WrongCapture
  PROVE  /\ Absorbed(start, err)[0] = start
         /\ \A n \in Unloading : Absorbed(start, err)[n] \in Word(W)
         /\ \A k \in 1 .. VectorLast - 1, j \in 0 .. ShiftLast :
              Absorbed(start, err)[(k - 1) * ShiftsPerLoad + j + 1]
                = Sig!ff_in(Absorbed(start, err)[(k - 1) * ShiftsPerLoad + j],
                            Unloaded(k, j, err))
<1> DEFINE N == ShiftsPerLoad * (VectorLast - 1)
           In(n) == Unloaded((n - 1) \div ShiftsPerLoad + 1,
                             (n - 1) % ShiftsPerLoad, err)
           step == [p \in Word(W) \X (1 .. N) |-> Sig!ff_in(p[1], In(p[2]))]
           F(f) == [n \in 0 .. N |-> IF n = 0 THEN start
                                     ELSE Sig!ff_in(f[n - 1], In(n))]
           a == Absorbed(start, err)
<1>1. N \in Nat /\ Unloading = 0 .. N
  BY Sizes DEF Unloading
<1> HIDE DEF N, In
<1>2. \A x \in Word(W), n \in 1 .. N : step[<<x, n>>] = Sig!ff_in(x, In(n))
  OBVIOUS
<1> HIDE DEF step
<1>3. PICK f \in [0 .. N -> Word(W)] : Follows(f, N, start, step)
  <2>1. \A x \in Word(W), n \in 1 .. N : step[<<x, n>>] \in Word(W)
    BY <1>2, AbsorbedIsAWord
  <2>2. QED BY ONLY <1>1, <2>1, start \in Word(W), Recursion, Zenon
<1>4. \A n \in 0 .. N : f[n] = IF n = 0 THEN start ELSE Sig!ff_in(f[n - 1], In(n))
  <2> SUFFICES ASSUME NEW n \in 0 .. N, n # 0
               PROVE  f[n] = Sig!ff_in(f[n - 1], In(n))
    BY <1>3 DEF Follows
  <2>1. n \in 1 .. N /\ n - 1 \in 0 .. N
    BY <1>1
  <2>2. f[n - 1] \in Word(W)
    BY <2>1
  <2>3. QED BY <1>2, <1>3, <2>1, <2>2 DEF Follows
<1>5. f = F(f)
  BY <1>4
<1>6. a = F(a)
  BY <1>5 DEF Absorbed, N, In
<1> HIDE DEF a
<1>7. \A n \in 0 .. N : a[n] = IF n = 0 THEN start ELSE Sig!ff_in(a[n - 1], In(n))
  BY <1>6
<1>8. \A n \in 0 .. N : a[n] \in Word(W)
  BY <1>7, AbsorbedIsAWord
<1>9. a[0] = start
  BY <1>1, <1>7
<1>10. ASSUME NEW k \in 1 .. VectorLast - 1, NEW j \in 0 .. ShiftLast
       PROVE  a[(k - 1) * ShiftsPerLoad + j + 1]
                = Sig!ff_in(a[(k - 1) * ShiftsPerLoad + j], Unloaded(k, j, err))
  <2> DEFINE n == (k - 1) * ShiftsPerLoad + j + 1
  <2>1. n \in 0 .. N /\ n # 0 /\ In(n) = Unloaded(k, j, err)
    BY <1>1, UnloadCycle DEF In
  <2>2. n - 1 = (k - 1) * ShiftsPerLoad + j
    BY Sizes
  <2> HIDE DEF n
  <2>3. a[n] = Sig!ff_in(a[n - 1], In(n))
    BY <1>7, <2>1
  <2>4. QED BY <2>1, <2>2, <2>3 DEF n
<1>11. QED BY <1>1, <1>8, <1>9, <1>10 DEF a

-----------------------------------------------------------------------------
(* One edge of the block.                                                  *)

\* What the registers of the block take in, by the state the edge leaves.
LEMMA RegistersByState ==
  ASSUME NEW resetn \in Bit, NEW test_normal \in Bit, NEW pi \in Bit,
         BistClock(resetn, test_normal, pi)
  PROVE  /\ lfsr' = IF resetn = 0 THEN Zero(W)
                    ELSE IF present_state = "teststart_state" THEN Seed
                    ELSE IF present_state \in Shifting THEN Gen!Shifted(lfsr)
                    ELSE lfsr
         /\ misr' = IF resetn = 0 THEN Zero(W)
                    ELSE IF present_state = "testshift_state"
                    THEN Sig!ff_in(misr, scan_chain_output)
                    ELSE misr
BY DEF BistClock, Gen!Clock, Gen!ff_input, Gen!FlipFlop, Gen!Zero, Zero,
   Sig!Clock, Sig!Clocked, Sig!FlipFlop, Sig!Zero, lfsr_start, lfsr_load,
   misr_so_enable, High, Shifting

\* The error a capture may suffer is a wrong capture, made now.
LEMMA ErrorsShape ==
  ASSUME ControllerInv, Words, NEW err \in Errors
  PROVE  /\ err \in {NoError} \cup WrongCapture
         /\ err # error => /\ present_state = "testexec_state"
                           /\ error = NoError
                           /\ err \in WrongCapture
                           /\ err.capture = count_vector
<1>1. CASE err = error
  BY <1>1 DEF Words
<1>2. CASE err # error
  <2>1. present_state = "testexec_state" /\ error = NoError
    BY <1>2 DEF Errors
  <2>2. err \in [cell : Cells, capture : {count_vector}]
    BY <1>2, <2>1 DEF Errors
  <2>3. count_vector \in 1 .. VectorLast - 1
    BY <2>1 DEF ControllerInv
  <2>4. err \in WrongCapture /\ err.capture = count_vector
    BY <2>2, <2>3 DEF WrongCapture
  <2>5. QED BY <2>1, <2>4
<1>3. QED BY <1>1, <1>2

\* Shifted chains hold bits.
LEMMA ScanShiftedType ==
  ASSUME Words PROVE ScanShifted \in [Cells -> Bit]
<1>1. ASSUME NEW x \in Cells, x[2] = 1 PROVE lfsr[x[1]] \in Bit
  BY CellShape DEF Words, Word, Chain
<1>2. ASSUME NEW x \in Cells, x[2] # 1 PROVE cells[<<x[1], x[2] - 1>>] \in Bit
  <2>1. x[1] \in Chain /\ x[2] - 1 \in 1 .. ChainLen[x[1]]
    BY <1>2, CellShape
  <2>2. <<x[1], x[2] - 1>> \in Cells
    BY <2>1, CellShape
  <2>3. QED BY <2>2 DEF Words
<1>3. QED BY <1>1, <1>2 DEF ScanShifted

\* Every register and cell keeps its type.
LEMMA WordsKept ==
  ASSUME ControllerInv, Words,
         NEW resetn \in Bit, NEW test_normal \in Bit, NEW pi \in Bit,
         BistClock(resetn, test_normal, pi)
  PROVE  Words'
<1>1. lfsr' \in Word(W)
  BY RegistersByState, ZeroIsAWord, ShiftedIsAWord, BlockShape DEF Words
<1>2. misr' \in Word(W)
  BY RegistersByState, ZeroIsAWord, AbsorbedIsAWord DEF Words
<1>3. PICK err \in Errors : CoreClock(pi, err) /\ History(err)
  BY DEF BistClock
<1>4. err \in {NoError} \cup WrongCapture
  BY <1>3, ErrorsShape
<1>5. error' \in {NoError} \cup WrongCapture
  BY <1>3, <1>4 DEF History
<1>6. start_signature' \in Word(W)
  BY <1>2, <1>3, ZeroIsAWord DEF History, Words
<1>7. cells' \in [Cells -> Bit]
  <2>1. CASE test_en_i = 1
    BY <1>3, <2>1, ScanShiftedType DEF CoreClock
  <2>2. CASE test_en_i # 1 /\ present_state = "testexec_state"
    <3>1. muxed_pi(pi) \in Bit
      BY BlockShape DEF muxed_pi, Words, Word
    <3>2. Response(cells, muxed_pi(pi)) \in [Cells -> Bit]
      BY <3>1, CoreAnswers DEF Words
    <3>3. err # error => err.cell \in Cells
      BY <1>3, ErrorsShape DEF WrongCapture
    <3>4. err # error => Flip(Response(cells, muxed_pi(pi)), err.cell) \in [Cells -> Bit]
      BY <3>2, <3>3, FlipType
    <3>5. QED BY <1>3, <2>2, <3>2, <3>4 DEF CoreClock
  <2>3. CASE test_en_i # 1 /\ present_state # "testexec_state"
    BY <1>3, <2>3 DEF CoreClock
  <2>4. QED BY <2>1, <2>2, <2>3
<1>8. QED BY <1>1, <1>2, <1>5, <1>6, <1>7 DEF Words

\* A shift cycle: the pattern moves in by a bit, and while a response moves out
\* the compactor takes its last bits and no others.
LEMMA ShiftCycle ==
  ASSUME ControllerInv, SessionInv, present_state \in Shifting,
         NEW test_normal \in Bit, NEW pi \in Bit, BistClock(1, test_normal, pi)
  PROVE  /\ Shifts + 1 \in 0 .. ShiftsPerLoad * VectorLast
         /\ lfsr' = prn[Shifts + 1]
         /\ \A x \in Cells : x[2] <= count_shift + 1 =>
                             cells'[x] = prn[Shifts + 1 - x[2]][x[1]]
         /\ present_state = "testshift_state" =>
              /\ \A x \in Cells : x[2] > count_shift + 1 =>
                   cells'[x] = Captured(count_vector - 1, error)[<<x[1], x[2] - (count_shift + 1)>>]
              /\ misr' = Absorbed(start_signature, error)[Shifts + 1 - ShiftsPerLoad]
         /\ present_state = "firstshift_state" => misr' = misr
<1>1. count_shift \in 0 .. ShiftLast /\ count_vector \in 1 .. VectorLast
  BY Sizes DEF ControllerInv, TypeOK, Count, Shifting
<1>2. Shifts \in 0 .. ShiftsPerLoad * VectorLast /\ Shifts \in Nat
  <2>1. count_shift \in 0 .. ShiftsPerLoad
    BY <1>1, Sizes DEF ShiftsPerLoad
  <2>2. QED BY <1>1, <2>1, Cycles DEF Shifts
<1>3. Shifts + 1 \in 0 .. ShiftsPerLoad * VectorLast
  <2>1. count_shift + 1 \in 0 .. ShiftsPerLoad
    BY <1>1, Sizes DEF ShiftsPerLoad
  <2>2. (count_vector - 1) * ShiftsPerLoad + (count_shift + 1) \in 0 .. ShiftsPerLoad * VectorLast
    BY <1>1, <2>1, Cycles
  <2>3. (count_vector - 1) * ShiftsPerLoad \in Nat
    BY <1>1, Cycles, <2>1
  <2>4. QED BY <1>1, <2>2, <2>3 DEF Shifts
<1>4. lfsr = prn[Shifts]
  BY DEF SessionInv, LoadsPatterns
<1>5. lfsr' = prn[Shifts + 1]
  <2>1. lfsr' = Gen!Shifted(lfsr)
    BY RegistersByState DEF Shifting, Bit
  <2>2. Shifts + 1 \in 1 .. ShiftsPerLoad * VectorLast /\ (Shifts + 1) - 1 = Shifts
    BY <1>2, <1>3
  <2>3. QED BY <1>4, <2>1, <2>2, GeneratorWords
<1>6. cells' = ScanShifted
  BY DEF BistClock, CoreClock, test_en_i, High, Shifting
<1>7. ASSUME NEW x \in Cells, x[2] = 1
      PROVE  cells'[x] = prn[Shifts + 1 - x[2]][x[1]]
  BY <1>2, <1>4, <1>6, <1>7 DEF ScanShifted
<1>8. ASSUME NEW x \in Cells, x[2] # 1
      PROVE  /\ x[2] <= count_shift + 1 => cells'[x] = prn[Shifts + 1 - x[2]][x[1]]
             /\ present_state = "testshift_state" /\ x[2] > count_shift + 1 =>
                  cells'[x] = Captured(count_vector - 1, error)[<<x[1], x[2] - (count_shift + 1)>>]
  <2> DEFINE y == <<x[1], x[2] - 1>>
  <2>1. /\ x[1] \in Chain /\ x[2] \in Nat /\ x[2] - 1 \in 1 .. ChainLen[x[1]]
    BY <1>8, CellShape
  <2>2. y \in Cells /\ y[1] = x[1] /\ y[2] = x[2] - 1
    BY <2>1, CellShape
  <2> HIDE DEF y
  <2>3. cells'[x] = cells[y]
    BY <1>6, <1>8 DEF ScanShifted, y
  <2>4. x[2] <= count_shift + 1 => cells'[x] = prn[Shifts + 1 - x[2]][x[1]]
    <3>1. SUFFICES ASSUME x[2] <= count_shift + 1
                   PROVE  cells[y] = prn[Shifts + 1 - x[2]][x[1]]
      BY <2>3
    <3>2. y[2] <= count_shift /\ Shifts - y[2] = Shifts + 1 - x[2]
      BY <1>1, <1>2, <2>1, <2>2, <3>1
    <3>3. cells[y] = prn[Shifts - y[2]][y[1]]
      BY <2>2, <3>2 DEF SessionInv, LoadsPatterns
    <3>4. QED BY <2>2, <3>2, <3>3
  <2>5. ASSUME present_state = "testshift_state", x[2] > count_shift + 1
        PROVE  cells'[x] = Captured(count_vector - 1, error)[<<x[1], x[2] - (count_shift + 1)>>]
    <3>1. y[2] > count_shift /\ y[2] - count_shift = x[2] - (count_shift + 1)
      BY <1>1, <2>1, <2>2, <2>5
    <3>2. cells[y] = Captured(count_vector - 1, error)[<<y[1], y[2] - count_shift>>]
      BY <2>2, <2>5, <3>1 DEF SessionInv, UnloadsResponses
    <3>3. QED BY <2>2, <2>3, <3>1, <3>2
  <2>6. QED BY <2>4, <2>5
<1>9. ASSUME present_state = "testshift_state"
      PROVE  misr' = Absorbed(start_signature, error)[Shifts + 1 - ShiftsPerLoad]
  <2> DEFINE k == count_vector - 1
             base == (k - 1) * ShiftsPerLoad
  <2>1. k \in 1 .. VectorLast - 1 /\ k \in 1 .. VectorLast
    BY <1>9, Sizes DEF ControllerInv
  <2>2. misr' = Sig!ff_in(misr, scan_chain_output)
    BY <1>9, RegistersByState DEF Bit
  <2>3. base + ShiftsPerLoad = k * ShiftsPerLoad /\ base \in Nat /\ Shifts = k * ShiftsPerLoad + count_shift
    <3>1. 0 \in 0 .. ShiftsPerLoad
      BY Sizes
    <3>2. QED BY <2>1, <3>1, Cycles DEF Shifts
  <2>4. /\ Shifts - ShiftsPerLoad = base + count_shift
        /\ Shifts + 1 - ShiftsPerLoad = base + count_shift + 1
    BY <1>1, <2>1, <2>3, Sizes
  <2>5. misr = Absorbed(start_signature, error)[base + count_shift]
    BY <1>9, <2>4 DEF SessionInv, AbsorbsResponses
  <2>6. scan_chain_output = Unloaded(k, count_shift, error)
    <3>1. ASSUME NEW c \in Chain
          PROVE  cells[<<c, ChainLen[c]>>]
                   = IF count_shift < ChainLen[c]
                     THEN Captured(k, error)[<<c, ChainLen[c] - count_shift>>]
                     ELSE prn[k * ShiftsPerLoad + count_shift - ChainLen[c]][c]
      <4> DEFINE x == <<c, ChainLen[c]>>
      <4>1. x \in Cells /\ x[1] = c /\ x[2] = ChainLen[c] /\ ChainLen[c] \in Nat
        BY CellShape
      <4> HIDE DEF x
      <4>2. CASE count_shift < ChainLen[c]
        <5>1. cells[x] = Captured(k, error)[<<x[1], x[2] - count_shift>>]
          BY <1>1, <1>9, <4>1, <4>2 DEF SessionInv, UnloadsResponses
        <5>2. QED BY <4>1, <4>2, <5>1 DEF x
      <4>3. CASE ~(count_shift < ChainLen[c])
        <5>1. cells[x] = prn[Shifts - x[2]][x[1]]
          BY <1>1, <4>1, <4>3 DEF SessionInv, LoadsPatterns
        <5>2. k * ShiftsPerLoad \in Nat
          BY <2>1, Sizes
        <5>3. Shifts - x[2] = k * ShiftsPerLoad + count_shift - ChainLen[c]
          BY <1>1, <2>3, <4>1, <5>2
        <5>4. QED BY <4>1, <4>3, <5>1, <5>3 DEF x
      <4>4. QED BY <4>2, <4>3
    <3>2. QED BY <3>1 DEF scan_chain_output, Unloaded
  <2>7. Absorbed(start_signature, error)[base + count_shift + 1]
          = Sig!ff_in(Absorbed(start_signature, error)[base + count_shift],
                      Unloaded(k, count_shift, error))
    BY <1>1, <2>1, SignatureWords DEF SessionInv, Words
  <2>8. QED BY <2>2, <2>4, <2>5, <2>6, <2>7
<1>10. present_state = "firstshift_state" => misr' = misr
  BY RegistersByState DEF Bit
<1>11. QED
  <2>1. \A x \in Cells : x[2] <= count_shift + 1 =>
                         cells'[x] = prn[Shifts + 1 - x[2]][x[1]]
    BY <1>7, <1>8
  <2>2. present_state = "testshift_state" =>
          \A x \in Cells : x[2] > count_shift + 1 =>
            cells'[x] = Captured(count_vector - 1, error)[<<x[1], x[2] - (count_shift + 1)>>]
    BY <1>1, <1>8
  <2>3. QED BY <1>3, <1>5, <1>9, <1>10, <2>1, <2>2

-----------------------------------------------------------------------------
(* What one wrong cell does to the signature.                              *)

\* The cycle of unloading in which the wrong cell of a capture comes out.
WrongCycle(err) == (err.capture - 1) * ShiftsPerLoad
                     + (ChainLen[err.cell[1]] - err.cell[2])

\* The wrong cell comes out once.
LEMMA WrongBit ==
  ASSUME NEW err \in WrongCapture,
         NEW k \in 1 .. VectorLast - 1, NEW j \in 0 .. ShiftLast
  PROVE  Unloaded(k, j, err) # Unloaded(k, j, NoError)
           <=> k = err.capture /\ j = ChainLen[err.cell[1]] - err.cell[2]
<1> DEFINE x == err.cell
           right == Response(Pattern(k), prn[k * ShiftsPerLoad][0])
<1>1. x \in Cells /\ err.capture \in 1 .. VectorLast - 1 /\ err # NoError
  BY NoErrorIsNone DEF WrongCapture
<1>2. /\ x = <<x[1], x[2]>> /\ x[1] \in Chain /\ x[2] \in 1 .. ChainLen[x[1]]
      /\ \A c \in Chain : ChainLen[c] \in 1 .. ShiftLast
  BY <1>1, CellShape
<1>3. right \in [Cells -> Bit]
  <2>1. k \in 1 .. VectorLast
    BY Sizes
  <2>2. QED BY <2>1, PatternType, CoreAnswers
<1>4. Captured(k, NoError) = right
  BY DEF Captured
<1>5. Captured(k, err) = IF err.capture = k THEN Flip(right, x) ELSE right
  BY <1>1 DEF Captured
<1> HIDE DEF x, right
<1>6. CASE k # err.capture
  <2>1. Captured(k, err) = Captured(k, NoError)
    BY <1>4, <1>5, <1>6
  <2>2. Unloaded(k, j, err) = Unloaded(k, j, NoError)
    BY <2>1 DEF Unloaded
  <2>3. QED BY <1>6, <2>2
<1>7. CASE k = err.capture /\ j # ChainLen[x[1]] - x[2]
  <2>1. ASSUME NEW c \in Chain, j < ChainLen[c]
        PROVE  Captured(k, err)[<<c, ChainLen[c] - j>>]
                 = Captured(k, NoError)[<<c, ChainLen[c] - j>>]
    <3>1. ChainLen[c] - j \in 1 .. ChainLen[c]
      BY <1>2, <2>1
    <3>2. <<c, ChainLen[c] - j>> \in Cells
      BY <3>1, CellShape
    <3>3. c = x[1] => ChainLen[c] - j # x[2]
      BY <1>2, <1>7
    <3>4. <<c, ChainLen[c] - j>> # x
      BY <1>2, <3>3
    <3>5. QED BY <1>1, <1>3, <1>4, <1>5, <1>7, <3>2, <3>4, FlipType DEF x
  <2>2. Unloaded(k, j, err) = Unloaded(k, j, NoError)
    BY <2>1 DEF Unloaded
  <2>3. QED BY <1>7, <2>2 DEF x
<1>8. CASE k = err.capture /\ j = ChainLen[x[1]] - x[2]
  <2>1. j < ChainLen[x[1]] /\ ChainLen[x[1]] - j = x[2]
    BY <1>2, <1>8
  <2>2. <<x[1], ChainLen[x[1]] - j>> = x
    BY <1>2, <2>1
  <2>3. /\ Unloaded(k, j, err)[x[1]] = Captured(k, err)[x]
        /\ Unloaded(k, j, NoError)[x[1]] = Captured(k, NoError)[x]
    BY <1>2, <2>1, <2>2 DEF Unloaded
  <2>4. Captured(k, err)[x] # Captured(k, NoError)[x]
    BY <1>1, <1>3, <1>4, <1>5, <1>8, FlipType DEF x
  <2>5. QED BY <1>8, <2>3, <2>4 DEF x
<1>9. QED BY <1>6, <1>7, <1>8 DEF x

\* The signature is right until the wrong cell is absorbed and wrong ever after:
\* nothing that comes later can put it right.
LEMMA WrongSignature ==
  ASSUME NEW start \in Word(W), NEW err \in WrongCapture, NEW n \in Unloading
  PROVE  Absorbed(start, err)[n] = Absorbed(start, NoError)[n] <=> n <= WrongCycle(err)
<1> DEFINE wrong == Absorbed(start, err)
           right == Absorbed(start, NoError)
           T == WrongCycle(err)
           S == {m \in Nat : m \in Unloading => (wrong[m] = right[m] <=> m <= T)}
<1>1. /\ wrong[0] = start /\ right[0] = start
      /\ \A m \in Unloading : wrong[m] \in Word(W) /\ right[m] \in Word(W)
  BY SignatureWords
<1>2. \A k \in 1 .. VectorLast - 1, j \in 0 .. ShiftLast :
        /\ wrong[(k - 1) * ShiftsPerLoad + j + 1]
             = Sig!ff_in(wrong[(k - 1) * ShiftsPerLoad + j], Unloaded(k, j, err))
        /\ right[(k - 1) * ShiftsPerLoad + j + 1]
             = Sig!ff_in(right[(k - 1) * ShiftsPerLoad + j], Unloaded(k, j, NoError))
  BY SignatureWords
<1> HIDE DEF wrong, right
<1>3. PICK kk \in 1 .. VectorLast - 1, jj \in 0 .. ShiftLast :
        /\ kk = err.capture /\ jj = ChainLen[err.cell[1]] - err.cell[2]
        /\ T = (kk - 1) * ShiftsPerLoad + jj
  <2>1. err.cell \in Cells /\ err.capture \in 1 .. VectorLast - 1
    BY DEF WrongCapture
  <2>2. ChainLen[err.cell[1]] - err.cell[2] \in 0 .. ShiftLast
    <3>1. /\ err.cell[2] \in 1 .. ChainLen[err.cell[1]]
          /\ ChainLen[err.cell[1]] \in 1 .. ShiftLast
      BY <2>1, CellShape
    <3>2. QED BY <3>1, Sizes
  <2>3. QED BY <2>1, <2>2 DEF WrongCycle
<1>4. T \in Nat
  <2>1. (kk - 1) * ShiftsPerLoad \in Nat
    BY Sizes
  <2>2. QED BY <1>3, <2>1
<1> HIDE DEF T
<1>5. 0 \in S
  BY <1>1, <1>4
<1>6. ASSUME NEW m \in S PROVE m + 1 \in S
  <2> SUFFICES ASSUME m + 1 \in Unloading
               PROVE  wrong[m + 1] = right[m + 1] <=> m + 1 <= T
    OBVIOUS
  <2>1. m \in Nat
    OBVIOUS
  <2>2. m \in Unloading /\ (m + 1) - 1 = m /\ m + 1 # 0
    BY <2>1, Sizes DEF Unloading
  <2>3. wrong[m] = right[m] <=> m <= T
    BY <2>2
  <2>4. PICK k \in 1 .. VectorLast - 1, j \in 0 .. ShiftLast :
          m + 1 = (k - 1) * ShiftsPerLoad + j + 1
    BY <2>2, UnloadCycle
  <2>5. m = (k - 1) * ShiftsPerLoad + j
    <3>1. (k - 1) * ShiftsPerLoad \in Nat
      BY Sizes
    <3>2. QED BY <2>1, <2>4, <3>1
  <2>6. /\ wrong[m + 1] = Sig!ff_in(wrong[m], Unloaded(k, j, err))
        /\ right[m + 1] = Sig!ff_in(right[m], Unloaded(k, j, NoError))
    BY <1>2, <2>4, <2>5
  <2>7. m = T <=> k = kk /\ j = jj
    <3>1. k = kk /\ j = jj => m = T
      BY <1>3, <2>5
    <3>2. ASSUME m = T PROVE k = kk /\ j = jj
      <4>1. /\ k = m \div ShiftsPerLoad + 1 /\ j = m % ShiftsPerLoad
        BY <2>2, <2>4, UnloadCycle
      <4>2. (kk - 1) * ShiftsPerLoad + jj + 1 = m + 1
        BY <1>3, <3>2
      <4>3. /\ kk = m \div ShiftsPerLoad + 1 /\ jj = m % ShiftsPerLoad
        BY <2>2, <4>2, UnloadCycle
      <4>4. QED BY <4>1, <4>3
    <3>3. QED BY <3>1, <3>2
  <2>8. Unloaded(k, j, err) # Unloaded(k, j, NoError) <=> m = T
    BY <1>3, <2>7, WrongBit
  <2>9. /\ wrong[m] \in Word(W) /\ right[m] \in Word(W)
        /\ Unloaded(k, j, err) \in Word(W) /\ Unloaded(k, j, NoError) \in Word(W)
    BY <1>1, <2>2, UnloadedType
  <2>10. CASE m < T
    <3>1. m <= T /\ m # T /\ m + 1 <= T
      BY <1>4, <2>1, <2>10
    <3>2. QED BY <2>3, <2>6, <2>8, <3>1
  <2>11. CASE m = T
    <3>1. m <= T /\ ~(m + 1 <= T)
      BY <1>4, <2>1, <2>11
    <3>2. QED BY <2>3, <2>6, <2>8, <2>9, <2>11, <3>1, DifferentInputs
  <2>12. CASE m > T
    <3>1. ~(m <= T) /\ m # T /\ ~(m + 1 <= T)
      BY <1>4, <2>1, <2>12
    <3>2. QED BY <2>3, <2>6, <2>8, <2>9, <3>1, EqualInputs
  <2>13. QED BY <1>4, <2>1, <2>10, <2>11, <2>12
<1>7. S \subseteq Nat
  OBVIOUS
<1>8. S = Nat
  <2> HIDE DEF S
  <2>1. QED BY <1>5, <1>6, <1>7, Induct
<1>9. n \in Nat
  BY Sizes DEF Unloading
<1>10. QED BY <1>8, <1>9 DEF wrong, right, T

-----------------------------------------------------------------------------
(* The invariant of a session.                                             *)

\* At power-on there is no session to say anything of.
LEMMA InitIsASession == BistInit => SessionInv
BY ZeroIsAWord
DEF BistInit, Init, Gen!Init, Gen!Word, Gen!Bit, Sig!Init, Sig!Word, Sig!Bit, Word,
    Bit, SessionInv, Words, ErrorIsPast, LoadsPatterns, UnloadsResponses,
    AbsorbsResponses, SignatureIsReference, Shifting

\* What the edge records of the session.
LEMMA HistoryKept ==
  ASSUME ControllerInv, SessionInv,
         NEW resetn \in Bit, NEW test_normal \in Bit, NEW pi \in Bit,
         BistClock(resetn, test_normal, pi)
  PROVE  /\ present_state' \in Between => error' = NoError
         /\ present_state' \notin Between /\ present_state # "testexec_state" =>
              error' = error
         /\ present_state' = "teststart_state" => start_signature' = misr'
         /\ present_state' \notin Between \cup {"teststart_state"} =>
              start_signature' = start_signature
<1>1. PICK err \in Errors : History(err)
  BY DEF BistClock
<1>2. present_state # "testexec_state" => err = error
  BY <1>1, ErrorsShape DEF SessionInv
<1>3. QED BY <1>1, <1>2 DEF History, Between

\* Between sessions, and until the first shift, there is nothing to keep.
LEMMA OutsideKept ==
  ASSUME ControllerInv, SessionInv,
         NEW resetn \in Bit, NEW test_normal \in Bit, NEW pi \in Bit,
         BistClock(resetn, test_normal, pi),
         present_state' \in Between \cup {"teststart_state"},
         present_state' = "teststart_state" => present_state = "idle_state"
  PROVE  SessionInv'
<1>1. Words'
  BY WordsKept DEF SessionInv
<1>2. error' = NoError
  BY HistoryKept DEF Between, SessionInv, ErrorIsPast
<1>3. present_state' = "teststart_state" => start_signature' = misr'
  BY HistoryKept
<1>4. QED
  BY <1>1, <1>2, <1>3
  DEF SessionInv, ErrorIsPast, LoadsPatterns, UnloadsResponses,
      AbsorbsResponses, SignatureIsReference, Shifting, Between

\* The seed is loaded; the compactor is as the session found it.
LEMMA FirstShiftKept ==
  ASSUME ControllerInv, SessionInv, NEW test_normal \in Bit, NEW pi \in Bit,
         BistClock(1, test_normal, pi), FirstShift
  PROVE  SessionInv'
<1>1. Words'
  BY WordsKept DEF SessionInv, Bit
<1>2. present_state = "teststart_state" /\ present_state' = "firstshift_state"
  BY DEF FirstShift, Arc
<1>3. count_shift' = 0 /\ count_vector' = 1
  BY <1>2, CountersByState
  DEF FirstShift, Arc, ControllerInv, SessionStartsClean, Shifting
<1>4. error' = NoError /\ start_signature' = start_signature
  BY <1>2, HistoryKept DEF Between, SessionInv, ErrorIsPast, Bit
<1>5. lfsr' = prn[0] /\ misr' = start_signature
  BY <1>2, RegistersByState, GeneratorWords
  DEF Bit, SessionInv, AbsorbsResponses, Shifting
<1>6. Shifts' = 0
  BY <1>3, Sizes DEF Shifts
<1>7. \A x \in Cells : ~(x[2] <= count_shift')
  BY <1>3, CellShape
<1>8. LoadsPatterns'
  BY <1>5, <1>6, <1>7 DEF LoadsPatterns
<1>9. QED
  BY <1>1, <1>2, <1>4, <1>5, <1>8
  DEF SessionInv, ErrorIsPast, UnloadsResponses, AbsorbsResponses,
      SignatureIsReference

\* The cycles of a load, the last one included.
LEMMA LoadKept ==
  ASSUME ControllerInv, SessionInv, NEW test_normal \in Bit, NEW pi \in Bit,
         BistClock(1, test_normal, pi), Shift \/ Capture \/ EndTest
  PROVE  SessionInv'
<1>1. Words'
  BY WordsKept DEF SessionInv, Bit
<1>2. /\ present_state \in Shifting /\ Counters
      /\ present_state' \in {present_state, "testexec_state", "endtest_state"}
      /\ present_state' \in Shifting => present_state' = present_state
      /\ present_state' = "testexec_state" => LastShift
      /\ present_state' = "endtest_state" => LastShift /\ present_state = "testshift_state"
  BY DEF Shift, Capture, EndTest, LastVector, Arc, Shifting
<1>3. count_shift' = count_shift + 1 /\ count_vector' = count_vector
  BY <1>2, CountersByState DEF Shifting
<1>4. error' = error /\ start_signature' = start_signature
  BY <1>2, HistoryKept DEF Between, Shifting, Bit
<1>5. /\ count_shift \in Nat /\ count_vector \in 1 .. VectorLast
      /\ (count_vector - 1) * ShiftsPerLoad \in Nat
  BY <1>2, Sizes DEF ControllerInv, TypeOK, Count, Shifting
<1>6. Shifts' = Shifts + 1 /\ Shifts \in Nat
  BY <1>3, <1>5 DEF Shifts
<1>7. LoadsPatterns'
  <2>1. /\ lfsr' = prn[Shifts']
        /\ \A x \in Cells : x[2] <= count_shift' =>
                            cells'[x] = prn[Shifts' - x[2]][x[1]]
    <3>1. /\ lfsr' = prn[Shifts + 1]
          /\ \A x \in Cells : x[2] <= count_shift + 1 =>
                              cells'[x] = prn[Shifts + 1 - x[2]][x[1]]
      BY <1>2, ShiftCycle
    <3>2. QED BY <1>3, <1>5, <1>6, <3>1, CellShape
  <2>2. QED BY <2>1 DEF LoadsPatterns
<1>8. UnloadsResponses'
  BY <1>2, <1>3, <1>4, ShiftCycle DEF UnloadsResponses, Shifting
<1>9. AbsorbsResponses'
  <2>1. CASE present_state = "testshift_state"
    <3>1. misr' = Absorbed(start_signature', error')[Shifts' - ShiftsPerLoad]
      <4>1. misr' = Absorbed(start_signature, error)[Shifts + 1 - ShiftsPerLoad]
        BY <1>2, <2>1, ShiftCycle
      <4>2. QED BY <1>4, <1>5, <1>6, <4>1, Sizes
    <3>2. QED BY <1>2, <2>1, <3>1 DEF AbsorbsResponses
  <2>2. CASE present_state = "firstshift_state"
    <3>1. misr' = start_signature'
      BY <1>2, <1>4, <2>2, ShiftCycle DEF SessionInv, AbsorbsResponses
    <3>2. start_signature' \in Word(W) /\ error' \in {NoError} \cup WrongCapture
      BY <1>1 DEF Words
    <3>3. Absorbed(start_signature', error')[0] = start_signature'
      BY <3>2, SignatureWords
    <3>4. present_state' = "testexec_state" => Shifts' - ShiftsPerLoad = 0
      <4>1. present_state' = "testexec_state" => count_shift' = ShiftsPerLoad
        BY <1>2, <1>3 DEF LastShift, ShiftsPerLoad
      <4>2. count_vector' = 1
        BY <1>3, <2>2 DEF ControllerInv
      <4>3. QED BY <4>1, <4>2, Sizes DEF Shifts
    <3>5. QED BY <1>2, <2>2, <3>1, <3>3, <3>4 DEF AbsorbsResponses
  <2>3. QED BY <1>2, <2>1, <2>2 DEF Shifting
<1>10. ErrorIsPast'
  BY <1>2, <1>3, <1>4 DEF SessionInv, ErrorIsPast, Shifting
<1>11. SignatureIsReference'
  BY <1>2 DEF SignatureIsReference, Shifting
<1>12. QED BY <1>1, <1>7, <1>8, <1>9, <1>10, <1>11 DEF SessionInv

\* A capture: the response to the pattern, with or without the wrong cell.
LEMMA UnloadKept ==
  ASSUME ControllerInv, SessionInv, NEW test_normal \in Bit, NEW pi \in Bit,
         BistClock(1, test_normal, pi), Unload
  PROVE  SessionInv'
<1> DEFINE v == count_vector
<1>1. Words'
  BY WordsKept DEF SessionInv, Bit
<1>2. /\ present_state = "testexec_state" /\ present_state' = "testshift_state"
      /\ Counters
  BY DEF Unload, Arc
<1>3. /\ v \in 1 .. VectorLast - 1 /\ v \in 1 .. VectorLast
      /\ count_shift = ShiftsPerLoad
      /\ count_vector' = v + 1 /\ count_shift' = 0
  BY <1>2, CountersByState, Sizes DEF ControllerInv, Shifting, ShiftsPerLoad
<1>4. /\ (v - 1) * ShiftsPerLoad \in Nat
      /\ (v - 1) * ShiftsPerLoad + ShiftsPerLoad = v * ShiftsPerLoad
  <2>1. 0 \in 0 .. ShiftsPerLoad
    BY Sizes
  <2>2. QED BY <1>3, <2>1, Cycles
<1>5. Shifts = v * ShiftsPerLoad /\ Shifts' = v * ShiftsPerLoad
  BY <1>3, <1>4, Sizes DEF Shifts
<1>6. lfsr' = lfsr /\ misr' = misr /\ lfsr = prn[v * ShiftsPerLoad]
  BY <1>2, <1>5, RegistersByState DEF Bit, Shifting, SessionInv, LoadsPatterns
<1>7. cells = Pattern(v)
  <2>1. \A x \in Cells : x[2] <= count_shift
    BY <1>3, CellShape, Sizes DEF ShiftsPerLoad
  <2>2. \A x \in Cells : cells[x] = prn[v * ShiftsPerLoad - x[2]][x[1]]
    BY <1>2, <1>5, <2>1 DEF SessionInv, LoadsPatterns
  <2>3. cells = [x \in Cells |-> cells[x]]
    BY DEF SessionInv, Words
  <2>4. QED BY <2>2, <2>3 DEF Pattern
<1>8. PICK err \in Errors : CoreClock(pi, err) /\ History(err)
  BY DEF BistClock
<1>9. /\ error' = err /\ start_signature' = start_signature
      /\ err \in {NoError} \cup WrongCapture
  BY <1>2, <1>8, ErrorsShape DEF History, Between, SessionInv
<1>10. cells' = Captured(v, err)
  <2> DEFINE right == Response(Pattern(v), prn[v * ShiftsPerLoad][0])
  <2>1. muxed_pi(pi) = prn[v * ShiftsPerLoad][0]
    BY <1>2, <1>6 DEF muxed_pi, mux_select, High
  <2>2. cells' = IF err = error THEN right ELSE Flip(right, err.cell)
    BY <1>2, <1>7, <1>8, <2>1 DEF CoreClock, test_en_i, High, Shifting
  <2> HIDE DEF right
  <2>3. CASE err = error
    <3>1. err # NoError => err.capture < v
      BY <1>2, <2>3 DEF SessionInv, ErrorIsPast
    <3>2. err # NoError => err.capture # v
      BY <1>3, <3>1
    <3>3. QED BY <2>2, <2>3, <3>2 DEF Captured, right
  <2>4. CASE err # error
    <3>1. err \in WrongCapture /\ err.capture = v
      BY <1>8, <2>4, ErrorsShape DEF SessionInv
    <3>2. err # NoError
      BY <3>1, NoErrorIsNone
    <3>3. QED BY <2>2, <2>4, <3>1, <3>2 DEF Captured, right
  <2>5. QED BY <2>3, <2>4
<1>11. ErrorIsPast'
  <2>1. err # NoError => err.capture < v + 1
    <3>1. CASE err = error
      BY <1>2, <1>3, <3>1 DEF SessionInv, ErrorIsPast, Words, WrongCapture
    <3>2. CASE err # error
      BY <1>3, <1>8, <3>2, ErrorsShape DEF SessionInv
    <3>3. QED BY <3>1, <3>2
  <2>2. QED BY <1>2, <1>3, <1>9, <2>1 DEF ErrorIsPast
<1>12. LoadsPatterns'
  <2>1. \A x \in Cells : ~(x[2] <= count_shift')
    BY <1>3, CellShape
  <2>2. lfsr' = prn[Shifts']
    BY <1>5, <1>6
  <2>3. QED BY <2>1, <2>2 DEF LoadsPatterns
<1>13. UnloadsResponses'
  <2>1. count_vector' - 1 = v
    BY <1>3
  <2>2. \A x \in Cells : <<x[1], x[2] - count_shift'>> = x
    BY <1>3, CellShape
  <2>3. Captured(count_vector' - 1, error') = cells'
    BY <1>9, <1>10, <2>1
  <2>4. QED BY <2>2, <2>3 DEF UnloadsResponses
<1>14. AbsorbsResponses'
  <2>1. misr' = Absorbed(start_signature, error)[(v - 1) * ShiftsPerLoad]
    <3>1. Shifts - ShiftsPerLoad = (v - 1) * ShiftsPerLoad
      BY <1>3, <1>4, <1>5, Sizes
    <3>2. QED BY <1>2, <1>6, <3>1 DEF SessionInv, AbsorbsResponses
  <2>2. Absorbed(start_signature, error)[(v - 1) * ShiftsPerLoad]
          = Absorbed(start_signature, err)[(v - 1) * ShiftsPerLoad]
    <3>1. CASE err = error
      BY <3>1
    <3>2. CASE err # error
      <4>1. err \in WrongCapture /\ err.capture = v /\ error = NoError
        BY <1>8, <3>2, ErrorsShape DEF SessionInv
      <4>2. (v - 1) * ShiftsPerLoad \in Unloading
        <5>1. (v - 1) * ShiftsPerLoad <= ShiftsPerLoad * (VectorLast - 1)
          BY <1>3, Sizes
        <5>2. QED BY <1>4, <5>1, Sizes DEF Unloading
      <4>3. (v - 1) * ShiftsPerLoad <= WrongCycle(err)
        <5>1. err.cell \in Cells
          BY <4>1 DEF WrongCapture
        <5>2. /\ err.cell[2] \in 1 .. ChainLen[err.cell[1]]
              /\ ChainLen[err.cell[1]] \in 1 .. ShiftLast
          BY <5>1, CellShape
        <5>3. ChainLen[err.cell[1]] - err.cell[2] \in Nat
          BY <5>2, Sizes
        <5>4. QED BY <1>4, <4>1, <5>3 DEF WrongCycle
      <4>4. start_signature \in Word(W)
        BY DEF SessionInv, Words
      <4>5. QED BY <4>1, <4>2, <4>3, <4>4, WrongSignature
    <3>3. QED BY <3>1, <3>2
  <2>3. Shifts' - ShiftsPerLoad = (v - 1) * ShiftsPerLoad
    BY <1>3, <1>4, <1>5, Sizes
  <2>4. misr' = Absorbed(start_signature', error')[Shifts' - ShiftsPerLoad]
    BY <1>9, <2>1, <2>2, <2>3
  <2>5. QED BY <1>2, <2>4 DEF AbsorbsResponses
<1>15. SignatureIsReference'
  BY <1>2 DEF SignatureIsReference
<1>16. QED BY <1>1, <1>11, <1>12, <1>13, <1>14, <1>15 DEF SessionInv

\* The signature that is judged is the one of the last cycle of unloading.
LEMMA EvaluateKept ==
  ASSUME ControllerInv, SessionInv, NEW test_normal \in Bit, NEW pi \in Bit,
         BistClock(1, test_normal, pi), Evaluate
  PROVE  SessionInv'
<1>1. Words'
  BY WordsKept DEF SessionInv, Bit
<1>2. present_state = "endtest_state" /\ present_state' = "evaluate_state"
  BY DEF Evaluate, Arc
<1>3. error' = error /\ start_signature' = start_signature
  BY <1>2, HistoryKept DEF Between, Bit
<1>4. misr' = misr
  BY <1>2, RegistersByState DEF Bit
<1>5. Shifts - ShiftsPerLoad = ShiftsPerLoad * (VectorLast - 1)
  <2>1. count_vector = VectorLast /\ count_shift = ShiftsPerLoad
    BY <1>2 DEF ControllerInv, ShiftsPerLoad
  <2>2. (VectorLast - 1) * ShiftsPerLoad = ShiftsPerLoad * (VectorLast - 1)
    BY Sizes
  <2>3. QED BY <2>1, <2>2, Sizes DEF Shifts
<1>6. misr' = RefSignature(start_signature', error')
  BY <1>2, <1>3, <1>4, <1>5 DEF SessionInv, AbsorbsResponses, RefSignature
<1>7. QED
  BY <1>1, <1>2, <1>3, <1>6
  DEF SessionInv, ErrorIsPast, LoadsPatterns, UnloadsResponses,
      AbsorbsResponses, SignatureIsReference, Shifting

\* Every edge of the block preserves the invariant.
LEMMA NextKeepsTheSession ==
  ControllerInv /\ SessionInv /\ [BistNext]_bistVars => SessionInv'
<1> SUFFICES ASSUME ControllerInv, SessionInv, [BistNext]_bistVars
             PROVE  SessionInv'
  OBVIOUS
<1>1. CASE BistNext
  <2>1. PICK resetn \in Bit, test_normal \in Bit, pi \in Bit :
          BistClock(resetn, test_normal, pi)
    BY <1>1 DEF BistNext
  <2>2. Clock(resetn, test_normal)
    BY <2>1 DEF BistClock
  <2>3. CASE \/ Reset \/ LeaveReset \/ StayIdle \/ Finish \/ StartTest
    <3>1. /\ present_state' \in Between \cup {"teststart_state"}
          /\ present_state' = "teststart_state" => present_state = "idle_state"
      BY <2>3
      DEF Reset, LeaveReset, StayIdle, Finish, StartTest, Arc, Between
    <3>2. QED BY <2>1, <3>1, OutsideKept
  <2>4. CASE resetn = 1 /\ FirstShift
    BY <2>1, <2>4, FirstShiftKept
  <2>5. CASE resetn = 1 /\ (Shift \/ Capture \/ EndTest)
    BY <2>1, <2>5, LoadKept
  <2>6. CASE resetn = 1 /\ Unload
    BY <2>1, <2>6, UnloadKept
  <2>7. CASE resetn = 1 /\ Evaluate
    BY <2>1, <2>7, EvaluateKept
  <2>8. QED BY <2>2, <2>3, <2>4, <2>5, <2>6, <2>7 DEF Clock
<1>2. CASE UNCHANGED bistVars
  <2>1. /\ present_state' = present_state /\ count_shift' = count_shift
        /\ count_vector' = count_vector /\ lfsr' = lfsr /\ misr' = misr
        /\ cells' = cells /\ start_signature' = start_signature /\ error' = error
    BY <1>2 DEF bistVars
  <2>2. Shifts' = Shifts
    BY <2>1 DEF Shifts
  <2>3. QED
    BY <2>1, <2>2
    DEF SessionInv, Words, ErrorIsPast, LoadsPatterns, UnloadsResponses,
        AbsorbsResponses, SignatureIsReference
<1>3. QED BY <1>1, <1>2

\* The sequencer of the block is the sequencer on its own.
LEMMA BlockRunsTheSequencer == BistSpec => Spec
<1>1. BistInit => Init
  BY DEF BistInit
<1>2. [BistNext]_bistVars => [Next]_vars
  BY DEF BistNext, BistClock, Next, bistVars, vars
<1>3. QED BY <1>1, <1>2, PTL DEF BistSpec, Spec

\* What every register and every scan cell holds at every point of a session.
THEOREM SessionInvariant == BistSpec => []SessionInv
BY InitIsASession, NextKeepsTheSession, BlockRunsTheSequencer,
   ControllerInvariant, PTL DEF BistSpec

\* The signature judged is that of the session's patterns and responses.
THEOREM SignatureRight == BistSpec => []SignatureIsReference
<1>1. SessionInv => SignatureIsReference
  BY DEF SessionInv
<1>2. QED BY <1>1, SessionInvariant, PTL

\* Every pattern is taken from a generator that runs.
THEOREM PatternsAlwaysFlow == BistSpec => []PatternsFlow
<1>1. ControllerInv /\ SessionInv => PatternsFlow
  <2> SUFFICES ASSUME ControllerInv, SessionInv,
                      present_state \in Shifting \cup {"testexec_state"}
               PROVE  lfsr # Zero(W)
    BY DEF PatternsFlow
  <2>1. count_vector \in 1 .. VectorLast /\ count_shift \in 0 .. ShiftsPerLoad
    BY Sizes DEF ControllerInv, TypeOK, Count, Shifting, ShiftsPerLoad
  <2>2. Shifts \in 0 .. ShiftsPerLoad * VectorLast
    BY <2>1, Cycles DEF Shifts
  <2>3. lfsr = prn[Shifts]
    BY DEF SessionInv, LoadsPatterns
  <2>4. QED BY <2>2, <2>3, GeneratorWords DEF Nonzero
<1>2. QED BY <1>1, SessionInvariant, BlockRunsTheSequencer, ControllerInvariant, PTL

\* A session that starts from zero tells a fault-free core from a core with one
\* wrong cell in one response, whichever cell of whichever response it is.
LEMMA SessionJudges == SessionInv => VerdictIsRight
<1> SUFFICES ASSUME SessionInv, present_state = "evaluate_state",
                    start_signature = Zero(W)
             PROVE  verdict <=> error = NoError
  BY DEF VerdictIsRight
<1>1. misr = RefSignature(Zero(W), error)
  BY DEF SessionInv, SignatureIsReference
<1>2. verdict <=> misr = golden_signature
  BY DEF verdict, go_nogo
<1>3. ASSUME error # NoError PROVE misr # golden_signature
  <2> DEFINE n == ShiftsPerLoad * (VectorLast - 1)
  <2>1. error \in WrongCapture
    BY <1>3 DEF SessionInv, Words
  <2>2. n \in Unloading
    BY Sizes DEF Unloading
  <2>3. ~(n <= WrongCycle(error))
    <3>1. error.cell \in Cells /\ error.capture \in 1 .. VectorLast - 1
      BY <2>1 DEF WrongCapture
    <3>2. /\ error.cell[2] \in 1 .. ChainLen[error.cell[1]]
          /\ ChainLen[error.cell[1]] \in 1 .. ShiftLast
      BY <3>1, CellShape
    <3>3. ChainLen[error.cell[1]] - error.cell[2] \in 0 .. ShiftLast
      BY <3>2, Sizes
    <3>4. LET k == error.capture
              j == ChainLen[error.cell[1]] - error.cell[2]
          IN  (k - 1) * ShiftsPerLoad + j + 1 \in Unloading
      BY <3>1, <3>3, UnloadCycle
    <3>5. (error.capture - 1) * ShiftsPerLoad \in Nat
      BY <3>1, Sizes
    <3>6. QED BY <3>3, <3>4, <3>5, Sizes DEF WrongCycle, Unloading
  <2>4. Absorbed(Zero(W), error)[n] # Absorbed(Zero(W), NoError)[n]
    BY <2>1, <2>2, <2>3, WrongSignature, ZeroIsAWord
  <2>5. QED BY <1>1, <2>4 DEF RefSignature, golden_signature
<1>4. error = NoError => misr = golden_signature
  BY <1>1 DEF golden_signature
<1>5. QED BY <1>2, <1>3, <1>4

\* Go for a fault-free core, no-go for a core with one wrong bit.
THEOREM VerdictRight == BistSpec => []VerdictIsRight
BY SessionJudges, SessionInvariant, PTL

-----------------------------------------------------------------------------
(* The bench.                                                              *)

\* At power-on the bench has not come far.
LEMMA BenchStarts == BenchInit => BenchInv
BY SomeReset DEF BenchInit, BistInit, Init, BenchInv, InStep, rst_n, Bit

\* A verdict is only asked for in the last state; elsewhere go_nogo is a pulse.
LEMMA Pulse ==
  present_state # "evaluate_state" =>
    (verdict <=> present_state \in {"teststart_state", "endtest_state"})
BY DEF verdict, go_nogo

\* The edges of the reset.
LEMMA ResetKeepsInStep ==
  ASSUME BenchInv, NEW pi \in Bit, Edge(pi), rst_n = 0 PROVE BenchInv'
<1>1. BistClock(0, test_normal_sig, pi) /\ HostReset /\ edges' = edges + 1
  BY DEF Edge
<1>2. Clock(0, test_normal_sig)
  BY <1>1 DEF BistClock
<1>3. present_state' = "reset_state"
  BY <1>2 DEF Clock, Reset, Arc
<1>4. misr' = Zero(W)
  BY <1>1, RegistersByState DEF BenchInv, Bit
<1>5. start_signature' = Zero(W)
  BY <1>1, <1>3 DEF BistClock, History, Between
<1>6. edges' \in 0 .. ResetWaitCycles
  BY <1>1, SomeReset DEF BenchInv, rst_n
<1>7. flags' = {"reset_state"} /\ test_normal_sig' = 0 /\ bist_result' = "none"
  BY <1>1 DEF HostReset, BenchInv
<1>8. InStep'
  BY <1>3, <1>7 DEF InStep, Shifting
<1>9. QED
  BY <1>3, <1>4, <1>5, <1>6, <1>7, <1>8 DEF BenchInv, Bit

\* What the block does in an edge of the bench after its reset.
LEMMA BlockEdge ==
  ASSUME ControllerInv, SessionInv, BenchInv, NEW pi \in Bit, Edge(pi), rst_n = 1
  PROVE  /\ Clock(1, test_normal_sig) /\ edges' = edges
         /\ present_state # "testshift_state" => misr' = misr
         /\ start_signature' = Zero(W)
<1>1. BistClock(1, test_normal_sig, pi) /\ edges' = edges
  BY DEF Edge
<1>2. Clock(1, test_normal_sig)
  BY <1>1 DEF BistClock
<1>3. present_state # "testshift_state" => misr' = misr
  BY <1>1, RegistersByState DEF BenchInv, Bit
<1>4. start_signature' = Zero(W)
  <2>1. CASE present_state' = "teststart_state"
    <3>1. present_state = "idle_state"
      BY <1>2, <2>1
      DEF Clock, Reset, LeaveReset, StayIdle, StartTest, FirstShift, Shift,
          Capture, Unload, EndTest, Evaluate, Finish, Arc, Shifting
    <3>2. test_normal_sig = 1
      BY <1>2, <2>1, <3>1
      DEF Clock, Reset, LeaveReset, StayIdle, StartTest, FirstShift, Shift,
          Capture, Unload, EndTest, Evaluate, Finish, Arc, Shifting
    <3>3. misr = Zero(W)
      BY <3>1, <3>2 DEF BenchInv
    <3>4. start_signature' = misr'
      BY <1>1, <2>1, HistoryKept DEF BenchInv, Bit
    <3>5. QED BY <1>3, <3>1, <3>3, <3>4
  <2>2. CASE present_state' \in Between
    BY <1>1, <2>2 DEF BistClock, History
  <2>3. CASE present_state' \notin Between \cup {"teststart_state"}
    BY <1>1, <2>3, HistoryKept DEF BenchInv, Bit
  <2>4. QED BY <2>1, <2>2, <2>3
<1>5. QED BY <1>1, <1>2, <1>3, <1>4

\* The host follows the block from state to state.
LEMMA EdgeKeepsInStep ==
  ASSUME ControllerInv, SessionInv, BenchInv, NEW pi \in Bit, Edge(pi), rst_n = 1
  PROVE  BenchInv'
<1>1. Clock(1, test_normal_sig) /\ edges' = edges /\ start_signature' = Zero(W)
  BY BlockEdge
<1>2. present_state # "testshift_state" => misr' = misr
  BY BlockEdge
<1>3. HostRuns
  BY DEF Edge
<1>4. edges > 0 /\ rst_n' = 1 /\ edges \in 0 .. ResetWaitCycles
  BY <1>1, SomeReset DEF BenchInv, rst_n
<1>5. InStep /\ test_normal_sig \in Bit
  BY DEF BenchInv
<1> USE DEF BenchInv, InStep, HostRuns, NextFlags, NextRequest, Move, Arc, Bit, Shifting
<1>6. CASE LeaveReset
  <2>1. /\ present_state = "reset_state" /\ present_state' = "idle_state"
        /\ flags = {"reset_state"} /\ bist_result = "none" /\ misr = Zero(W)
    BY <1>4, <1>6 DEF LeaveReset
  <2>2. flags' = {"wait_state"}
    BY <1>3, <2>1
  <2>3. test_normal_sig' = 1 /\ bist_result' = "none"
    BY <1>3, <2>1
  <2>4. misr' = Zero(W)
    BY <1>2, <2>1
  <2>5. InStep'
    BY <2>1, <2>2, <2>3
  <2>6. QED BY ONLY <1>1, <1>4, <2>1, <2>3, <2>4, <2>5 DEF BenchInv, Bit
<1>7. CASE test_normal_sig = 0 /\ StayIdle
  BY <1>1, <1>2, <1>3, <1>4, <1>5, <1>7, Pulse DEF StayIdle
<1>8. CASE test_normal_sig = 1 /\ StartTest
  BY <1>1, <1>2, <1>3, <1>4, <1>5, <1>8, Pulse DEF StartTest
<1>9. CASE FirstShift
  BY <1>1, <1>2, <1>3, <1>4, <1>5, <1>9, Pulse DEF FirstShift
<1>10. CASE Shift
  BY <1>1, <1>2, <1>3, <1>4, <1>5, <1>10, Pulse DEF Shift
<1>11. CASE Capture
  BY <1>1, <1>2, <1>3, <1>4, <1>5, <1>11, Pulse DEF Capture
<1>12. CASE Unload
  BY <1>1, <1>2, <1>3, <1>4, <1>5, <1>12, Pulse DEF Unload
<1>13. CASE EndTest
  BY <1>1, <1>2, <1>3, <1>4, <1>5, <1>13, Pulse DEF EndTest, LastVector
<1>14. CASE Evaluate
  BY <1>1, <1>2, <1>3, <1>4, <1>5, <1>14, Pulse DEF Evaluate
<1>15. CASE Finish
  BY <1>1, <1>2, <1>3, <1>4, <1>5, <1>15 DEF Finish
<1> HIDE DEF BenchInv, InStep, HostRuns, NextFlags, NextRequest, Move, Arc, Bit, Shifting
<1>16. QED
  BY ONLY <1>1, <1>6, <1>7, <1>8, <1>9, <1>10, <1>11, <1>12, <1>13, <1>14, <1>15
  DEF Clock

\* A simulation ended by the core's bus leaves everything else as it is.
LEMMA OthersKeepInStep ==
  ASSUME BenchInv, FalseExit \/ UNCHANGED benchVars PROVE BenchInv'
<1>1. /\ UNCHANGED <<present_state, count_shift, count_vector, lfsr, misr, cells,
                      start_signature, error>>
      /\ UNCHANGED <<edges, flags, test_normal_sig, bist_result>>
  BY DEF FalseExit, benchVars, bistVars
<1>2. rst_n' = rst_n
  BY <1>1 DEF rst_n
<1>3. QED BY <1>1, <1>2 DEF BenchInv, InStep

\* Every step of the bench preserves how far it has come.
LEMMA NextKeepsInStep ==
  ControllerInv /\ SessionInv /\ BenchInv /\ [BenchNext]_benchVars => BenchInv'
<1> SUFFICES ASSUME ControllerInv, SessionInv, BenchInv, [BenchNext]_benchVars
             PROVE  BenchInv'
  OBVIOUS
<1>1. rst_n \in {0, 1}
  BY DEF rst_n
<1>2. ASSUME NEW pi \in Bit, Edge(pi) PROVE BenchInv'
  BY <1>1, <1>2, ResetKeepsInStep, EdgeKeepsInStep
<1>3. QED BY <1>2, OthersKeepInStep DEF BenchNext

\* A step of the bench is a step of the block or none.
LEMMA BenchStepsTheBlock ==
  BenchInv /\ [BenchNext]_benchVars => [BistNext]_bistVars
<1> SUFFICES ASSUME BenchInv, [BenchNext]_benchVars PROVE [BistNext]_bistVars
  OBVIOUS
<1>1. ASSUME NEW pi \in Bit, Edge(pi) PROVE BistNext
  <2>1. rst_n \in Bit /\ test_normal_sig \in Bit
    BY DEF rst_n, Bit, BenchInv
  <2>2. QED BY <1>1, <2>1 DEF Edge, BistNext
<1>2. FalseExit \/ UNCHANGED benchVars => UNCHANGED bistVars
  BY DEF FalseExit, benchVars
<1>3. QED BY <1>1, <1>2 DEF BenchNext

\* How far the bench has come, and what the block holds then.
THEOREM BenchInvariant ==
  BenchSpec => [](ControllerInv /\ SessionInv /\ BenchInv)
<1>1. BenchInit => ControllerInv /\ SessionInv /\ BenchInv
  BY BenchStarts, InitIsASession, InitEstablishesInv DEF BenchInit, BistInit
<1>2. ControllerInv /\ SessionInv /\ BenchInv /\ [BenchNext]_benchVars =>
        (ControllerInv /\ SessionInv /\ BenchInv)'
  <2> SUFFICES ASSUME ControllerInv, SessionInv, BenchInv, [BenchNext]_benchVars
               PROVE  (ControllerInv /\ SessionInv /\ BenchInv)'
    OBVIOUS
  <2>1. [BistNext]_bistVars
    BY BenchStepsTheBlock
  <2>2. [Next]_vars
    BY <2>1 DEF BistNext, BistClock, Next, bistVars, vars
  <2>3. ControllerInv'
    BY <2>2, NextPreservesInv
  <2>4. SessionInv'
    BY <2>1, NextKeepsTheSession
  <2>5. BenchInv'
    BY NextKeepsInStep
  <2>6. QED BY <2>3, <2>4, <2>5
<1>3. QED BY <1>1, <1>2, PTL DEF BenchSpec

\* The bench only uses the block as the block's own specification allows: what
\* is proved of the block under any input holds in the bench.
THEOREM BenchRunsTheBlock == BenchSpec => BistSpec
<1>1. BenchInit => BistInit
  BY DEF BenchInit
<1>2. QED
  BY <1>1, BenchStepsTheBlock, BenchInvariant, PTL DEF BenchSpec, BistSpec

\* The host takes each pulse of go_nogo for what it is.
THEOREM HostInStep == BenchSpec => []InStep
<1>1. BenchInv => InStep
  BY DEF BenchInv
<1>2. QED BY <1>1, BenchInvariant, PTL

\* While the chains shift the request is up, before and after the edge.
LEMMA RequestWhileScanning == BenchInv => (test_normal_sig = 0 => test_en_i = 0)
<1> SUFFICES ASSUME BenchInv, test_normal_sig = 0 PROVE test_en_i = 0
  OBVIOUS
<1>1. present_state = "reset_state" \/ present_state = "idle_state"
  BY DEF BenchInv
<1>2. QED BY <1>1 DEF test_en_i, High, Shifting

\* The memory has no clock edge while the chains shift.
THEOREM MemoryFrozen == BenchSpec => MemoryFrozenWhileScanning
<1>1. BenchInv /\ BenchInv' =>
        /\ test_normal_sig = 0 => test_en_i = 0
        /\ test_normal_sig' = 0 => test_en_i' = 0
  <2>1. (BenchInv => (test_normal_sig = 0 => test_en_i = 0))'
    BY RequestWhileScanning, PTL
  <2>2. QED BY <2>1, RequestWhileScanning
<1>2. QED BY <1>1, BenchInvariant, PTL DEF MemoryFrozenWhileScanning

\* What the host prints is the truth about the core, whichever cell of whichever
\* response was wrong.
THEOREM ResultTrue == BenchSpec => ResultIsRight
<1>1. ASSUME ControllerInv, SessionInv, BenchInv, [BenchNext]_benchVars
      PROVE  [bist_result' # bist_result =>
                (bist_result' = "OK" <=> error = NoError)]_benchVars
  <2> SUFFICES ASSUME BenchNext, bist_result' # bist_result
               PROVE  bist_result' = "OK" <=> error = NoError
    BY <1>1 DEF benchVars
  <2>1. PICK pi \in Bit : Edge(pi)
    BY DEF BenchNext, FalseExit
  <2>2. rst_n = 1 /\ HostRuns
    BY <2>1 DEF Edge, HostReset, rst_n
  <2>3. "evaluate_state" \in flags
    BY <2>2 DEF HostRuns
  <2>4. present_state = "evaluate_state"
    BY <1>1, <2>2, <2>3
    DEF BenchInv, InStep, ControllerInv, TypeOK, state_type, Shifting
  <2>5. bist_result' = IF verdict THEN "OK" ELSE "NOT OK"
    BY <2>2, <2>3 DEF HostRuns
  <2>6. verdict <=> error = NoError
    BY <1>1, <2>4, SessionJudges DEF VerdictIsRight, BenchInv
  <2>7. QED BY <2>5, <2>6
<1>2. QED BY <1>1, BenchInvariant, PTL DEF BenchSpec, ResultIsRight

=============================================================================
