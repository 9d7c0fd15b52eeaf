-------------------------- MODULE ArithmeticProofs --------------------------
(***************************************************************************)
(* Theorems about what MCArithmetic checks: two compactors under the same  *)
(* control, for every width and every set of fed-back bits that contains   *)
(* bit 0; and the counters of the flexfloat library, for any formats and   *)
(* any program: the maps of the C++ class, and the tables of a fixed size  *)
(* of the C functions.                                                     *)
(***************************************************************************)
EXTENDS FlexProgram, FlexClass, MisrPair, FiniteSetTheorems, WellFoundedInduction, TLAPS

-----------------------------------------------------------------------------
(* The compactors.                                                            *)

\* An exclusive or is a bit.
LEMMA XorIsABit == \A a, b : Xor(a, b) \in Bit
BY DEF Xor, Bit

\* The cleared register.
LEMMA ZeroIsAWord == Zero(W) \in Word(W)
BY DEF Zero, Word, Bit

\* What the flip-flops sample is a word.
LEMMA AbsorbedIsAWord ==
  ASSUME NEW ff, NEW din PROVE ff_in(ff, din) \in Word(W)
BY XorIsABit DEF ff_in, Word

\* Words that agree bit by bit are equal.
LEMMA EqualBits ==
  ASSUME NEW f \in Word(W), NEW g \in Word(W),
         \A i \in 0 .. W - 1 : f[i] = g[i]
  PROVE  f = g
<1>1. /\ f = [i \in 0 .. W - 1 |-> f[i]]
      /\ g = [i \in 0 .. W - 1 |-> g[i]]
  BY DEF Word
<1>2. QED BY <1>1

\* Different inputs make equal signatures differ.
LEMMA DifferentInputs ==
  ASSUME NEW ff \in Word(W), NEW d \in Word(W), NEW e \in Word(W), d # e
  PROVE  ff_in(ff, d) # ff_in(ff, e)
<1>1. PICK i \in 0 .. W - 1 : d[i] # e[i]
  BY EqualBits
<1>2. d[i] \in Bit /\ e[i] \in Bit
  BY DEF Word
<1>3. \A a \in Bit : Xor(a, d[i]) # Xor(a, e[i])
  BY <1>1, <1>2 DEF Xor, Bit
<1>4. ff_in(ff, d)[i] # ff_in(ff, e)[i]
  BY <1>3, XorIsABit DEF ff_in
<1>5. QED BY <1>4

\* Equal inputs keep different signatures different.
LEMMA EqualInputs ==
  ASSUME NEW f \in Word(W), NEW g \in Word(W), NEW d \in Word(W),
         ff_in(f, d) = ff_in(g, d)
  PROVE  f = g
<1> DEFINE Prev(ff, i) == IF i = 0 THEN 0 ELSE ff[i - 1]
<1>1. \A i \in 0 .. W - 1 :
        Xor(Xor(Prev(f, i), FedBack(f, i)), d[i])
          = Xor(Xor(Prev(g, i), FedBack(g, i)), d[i])
  BY DEF ff_in
<1>2. \A i \in 0 .. W - 1 :
        Xor(Prev(f, i), FedBack(f, i)) = Xor(Prev(g, i), FedBack(g, i))
  BY <1>1, XorIsABit DEF Xor, Bit, Word
<1>3. W - 1 \in 0 .. W - 1 /\ 0 \in 0 .. W - 1
  BY MisrShape
<1>4. f[W - 1] \in Bit /\ g[W - 1] \in Bit
  BY <1>3 DEF Word
<1>5. f[W - 1] = g[W - 1]
  <2>1. Xor(0, f[W - 1]) = Xor(0, g[W - 1])
    BY <1>2, <1>3, MisrShape DEF FedBack
  <2>2. QED BY <2>1, <1>4 DEF Xor, Bit
<1>6. \A i \in 0 .. W - 2 : f[i] = g[i]
  <2> SUFFICES ASSUME NEW i \in 0 .. W - 2
               PROVE  f[i] = g[i]
    OBVIOUS
  <2>1. i \in 0 .. W - 1 /\ i + 1 \in 0 .. W - 1 /\ i + 1 # 0 /\ (i + 1) - 1 = i
    BY MisrShape
  <2>2. Xor(f[i], FedBack(f, i + 1)) = Xor(g[i], FedBack(g, i + 1))
    BY <1>2, <2>1
  <2>3. FedBack(f, i + 1) = FedBack(g, i + 1) /\ FedBack(f, i + 1) \in Bit
    BY <1>4, <1>5 DEF FedBack, Bit
  <2>4. f[i] \in Bit /\ g[i] \in Bit
    BY <2>1 DEF Word
  <2>5. QED BY <2>2, <2>3, <2>4 DEF Xor, Bit
<1>7. \A i \in 0 .. W - 1 : f[i] = g[i]
  BY <1>5, <1>6, MisrShape
<1>8. QED BY <1>7, EqualBits

\* Two compactors that have been made to differ once stay different: by an
\* error in one cycle, or by starting from different signatures.
THEOREM NeverAliasesAtAnyWidth == PairSpec => [](TypeOK /\ NeverAliases)
<1> USE DEF TypeOK, NeverAliases
<1>1. PairInit => TypeOK /\ NeverAliases
  BY DEF PairInit, Init
<1>2. TypeOK /\ NeverAliases /\ [PairNext]_pairVars => (TypeOK /\ NeverAliases)'
  <2> SUFFICES ASSUME TypeOK, NeverAliases, [PairNext]_pairVars
               PROVE  (TypeOK /\ NeverAliases)'
    OBVIOUS
  <2>1. CASE Cleared
    <3>1. ff_out' = Zero(W) /\ suspect' = Zero(W) /\ differed' = FALSE
      BY <2>1 DEF Cleared, Clock, Clocked, FlipFlop
    <3>2. QED BY <3>1, ZeroIsAWord
  <2>2. CASE Agree
    <3>1. PICK enable \in Bit, din \in Word(W) :
            Clock(1, enable, din) /\ suspect' = Clocked(suspect, 1, enable, din)
      BY <2>2 DEF Agree
    <3>2. differed' = differed
      BY <2>2 DEF Agree
    <3>3. CASE enable = 1
      <4>1. ff_out' = ff_in(ff_out, din) /\ suspect' = ff_in(suspect, din)
        BY <3>1, <3>3 DEF Clock, Clocked, FlipFlop
      <4>2. ff_out' \in Word(W) /\ suspect' \in Word(W)
        BY <4>1, AbsorbedIsAWord
      <4>3. ff_out' = suspect' => ff_out = suspect
        BY <4>1, EqualInputs
      <4>4. QED BY <3>2, <4>1, <4>2, <4>3
    <3>4. CASE enable # 1
      <4>1. ff_out' = ff_out /\ suspect' = suspect
        BY <3>1, <3>4 DEF Clock, Clocked, FlipFlop
      <4>2. QED BY <3>2, <4>1
    <3>5. QED BY <3>3, <3>4
  <2>3. CASE Error
    <3>1. PICK d \in Word(W), e \in Word(W) :
            d # e /\ Clock(1, 1, d) /\ suspect' = Clocked(suspect, 1, 1, e)
      BY <2>3 DEF Error
    <3>2. ff_out' = ff_in(ff_out, d) /\ suspect' = ff_in(suspect, e)
      BY <3>1 DEF Clock, Clocked, FlipFlop
    <3>3. ff_out = suspect /\ differed' = TRUE
      BY <2>3 DEF Error
    <3>4. ff_out' \in Word(W) /\ suspect' \in Word(W)
      BY <3>2, AbsorbedIsAWord
    <3>5. ff_out' # suspect'
      BY <3>1, <3>2, <3>3, DifferentInputs
    <3>6. QED BY <3>3, <3>4, <3>5
  <2>4. CASE UNCHANGED pairVars
    BY <2>4 DEF pairVars
  <2>5. QED BY <2>1, <2>2, <2>3, <2>4 DEF PairNext
<1>3. QED BY <1>1, <1>2, PTL DEF PairSpec

-----------------------------------------------------------------------------
(* The C++ class. What is counted, and the four maps as they are kept.        *)
OpCounters == Arithmetic \cup {"minus", "cmp"}
Filled(map, names) == \A k \in DOMAIN map : map[k] \in [names -> Nat]

Kept(s) ==
  /\ s = [ops |-> s.ops, vops |-> s.vops, casting |-> s.casting, vcasting |-> s.vcasting]
  /\ Filled(s.ops, OpCounters) /\ Filled(s.vops, OpCounters)
  /\ Filled(s.casting, {"total"}) /\ Filled(s.vcasting, {"total"})

Ops(s, name, type) == Entry(s.ops, type, name) + Entry(s.vops, type, name)
Casts(s, from, to) ==
  Entry(s.casting, <<from, to>>, "total") + Entry(s.vcasting, <<from, to>>, "total")

\* Counting adds one to one counter of a map, made if need be, and no other.
LEMMA TickedCounts ==
  ASSUME NEW map, NEW names, NEW name \in names, NEW key, Filled(map, names),
         NEW entry, entry = [n \in names |-> 0]
  PROVE  /\ Filled(Ticked(map, key, entry, name), names)
         /\ \A k, n : n \in names =>
              Entry(Ticked(map, key, entry, name), k, n)
                = Entry(map, k, n) + (IF k = key /\ n = name THEN 1 ELSE 0)
         /\ \A k, n : n \in names => Entry(map, k, n) \in Nat
<1> DEFINE old(k) == IF k \in DOMAIN map THEN map[k] ELSE entry
<1> DEFINE T == Ticked(map, key, entry, name)
<1>1. \A k \in DOMAIN map \cup {key} : old(k) \in [names -> Nat]
  BY DEF Filled
<1>2. /\ DOMAIN T = DOMAIN map \cup {key}
      /\ \A k \in DOMAIN T : T[k] = IF k = key THEN [old(k) EXCEPT ![name] = @ + 1] ELSE old(k)
  BY DEF Ticked
<1> HIDE DEF old, T
<1>3. ASSUME NEW k \in DOMAIN T
      PROVE  /\ T[k] \in [names -> Nat]
             /\ \A n \in names :
                  T[k][n] = old(k)[n] + (IF k = key /\ n = name THEN 1 ELSE 0)
  <2>1. PICK f \in [names -> Nat] : f = old(k)
    BY <1>1, <1>2
  <2>2. T[k] = IF k = key THEN [f EXCEPT ![name] = f[name] + 1] ELSE f
    BY <1>2, <2>1
  <2>3. QED BY <2>1, <2>2
<1>4. \A k, n : n \in names => Entry(map, k, n) \in Nat
  BY DEF Filled, Entry
<1>5. ASSUME NEW k, NEW n \in names
      PROVE  Entry(T, k, n) = Entry(map, k, n) + (IF k = key /\ n = name THEN 1 ELSE 0)
  <2>1. CASE k \notin DOMAIN T
    BY <2>1, <1>2 DEF Entry
  <2>2. CASE k \in DOMAIN T
    <3>1. Entry(T, k, n) = T[k][n]
      BY <2>2 DEF Entry
    <3>2. Entry(map, k, n) = old(k)[n]
      BY <1>2, <2>2 DEF Entry, old
    <3>3. QED BY <1>3, <2>2, <3>1, <3>2
  <2>3. QED BY <2>1, <2>2
<1>6. QED BY <1>3, <1>4, <1>5 DEF Filled, T

\* An operation is counted once for its type, vectorised or not, and no cast.
LEMMA OperationCounts ==
  ASSUME NEW s, Kept(s), NEW type, NEW name \in OpCounters,
         NEW c \in {CountScalar(s, type, name), CountOperation(s, type, name)}
  PROVE  /\ Kept(c)
         /\ \A n \in OpCounters : \A t :
              Ops(c, n, t) = Ops(s, n, t) + (IF t = type /\ n = name THEN 1 ELSE 0)
         /\ \A from, to : Casts(c, from, to) = Casts(s, from, to)
<1> DEFINE o == Ticked(s.ops, type, OpsStats, name)
           v == Ticked(s.vops, type, OpsStats, name)
<1>1. OpsStats = [n \in OpCounters |-> 0]
  BY DEF OpsStats, OpCounters
<1>2. Filled(s.ops, OpCounters) /\ Filled(s.vops, OpCounters)
  BY DEF Kept
<1>3. /\ Filled(o, OpCounters)
      /\ \A k, n : n \in OpCounters =>
           Entry(o, k, n) = Entry(s.ops, k, n) + (IF k = type /\ n = name THEN 1 ELSE 0)
      /\ \A k, n : n \in OpCounters => Entry(s.ops, k, n) \in Nat
  BY <1>1, <1>2, TickedCounts
<1>4. /\ Filled(v, OpCounters)
      /\ \A k, n : n \in OpCounters =>
           Entry(v, k, n) = Entry(s.vops, k, n) + (IF k = type /\ n = name THEN 1 ELSE 0)
      /\ \A k, n : n \in OpCounters => Entry(s.vops, k, n) \in Nat
  BY <1>1, <1>2, TickedCounts
<1>5. c \in {[s EXCEPT !.ops = o], [s EXCEPT !.vops = v]}
  BY DEF CountScalar, CountOperation
<1> HIDE DEF o, v
<1>6. CASE c = [s EXCEPT !.ops = o]
  <2>1. c = [ops |-> o, vops |-> s.vops, casting |-> s.casting, vcasting |-> s.vcasting]
    BY <1>6 DEF Kept
  <2>2. Kept(c)
    BY <2>1, <1>3 DEF Kept
  <2>3. QED BY <2>1, <2>2, <1>3, <1>4 DEF Ops, Casts
<1>7. CASE c = [s EXCEPT !.vops = v]
  <2>1. c = [ops |-> s.ops, vops |-> v, casting |-> s.casting, vcasting |-> s.vcasting]
    BY <1>7 DEF Kept
  <2>2. Kept(c)
    BY <2>1, <1>4 DEF Kept
  <2>3. QED BY <2>1, <2>2, <1>3, <1>4 DEF Ops, Casts
<1>8. QED BY <1>5, <1>6, <1>7

\* A cast is counted once for its pair of types, vectorised or not, and no
\* operation.
LEMMA CastCounts ==
  ASSUME NEW s, Kept(s), NEW from, NEW to
  PROVE  /\ Kept(CountCasting(s, from, to))
         /\ \A n \in OpCounters : \A t : Ops(CountCasting(s, from, to), n, t) = Ops(s, n, t)
         /\ \A x, y : Casts(CountCasting(s, from, to), x, y)
                        = Casts(s, x, y) + (IF x = from /\ y = to THEN 1 ELSE 0)
<1> DEFINE key == <<from, to>>
           c == CountCasting(s, from, to)
           o == Ticked(s.casting, key, CastingStats, "total")
           v == Ticked(s.vcasting, key, CastingStats, "total")
<1>1. CastingStats = [n \in {"total"} |-> 0] /\ "total" \in {"total"}
  BY DEF CastingStats
<1>2. Filled(s.casting, {"total"}) /\ Filled(s.vcasting, {"total"})
  BY DEF Kept
<1>3. /\ Filled(o, {"total"})
      /\ \A k : Entry(o, k, "total") = Entry(s.casting, k, "total") + (IF k = key THEN 1 ELSE 0)
      /\ \A k : Entry(s.casting, k, "total") \in Nat
  BY <1>1, <1>2, TickedCounts
<1>4. /\ Filled(v, {"total"})
      /\ \A k : Entry(v, k, "total") = Entry(s.vcasting, k, "total") + (IF k = key THEN 1 ELSE 0)
      /\ \A k : Entry(s.vcasting, k, "total") \in Nat
  BY <1>1, <1>2, TickedCounts, SMTT(60)
<1>5. c \in {[s EXCEPT !.casting = o], [s EXCEPT !.vcasting = v]}
  BY DEF CountCasting
<1>6. \A x, y : <<x, y>> = key <=> x = from /\ y = to
  OBVIOUS
<1> HIDE DEF o, v, key, c
<1>7. CASE c = [s EXCEPT !.casting = o]
  <2>1. c = [ops |-> s.ops, vops |-> s.vops, casting |-> o, vcasting |-> s.vcasting]
    BY <1>7 DEF Kept
  <2>2. Kept(c)
    BY <2>1, <1>3 DEF Kept
  <2>3. QED BY <2>1, <2>2, <1>3, <1>4, <1>6 DEF Ops, Casts, c
<1>8. CASE c = [s EXCEPT !.vcasting = v]
  <2>1. c = [ops |-> s.ops, vops |-> s.vops, casting |-> s.casting, vcasting |-> v]
    BY <1>8 DEF Kept
  <2>2. Kept(c)
    BY <2>1, <1>4 DEF Kept
  <2>3. QED BY <2>1, <2>2, <1>3, <1>4, <1>6 DEF Ops, Casts, c
<1>9. QED BY <1>5, <1>7, <1>8

(* The histories are bags; one more copy of an element is added to them.      *)
Sound(bag) == \A e \in DOMAIN bag : bag[e] \in Nat
Copies(e, bag) == IF e \in DOMAIN bag THEN bag[e] ELSE 0
OneMore(new, bag, x) ==
  /\ DOMAIN new = DOMAIN bag \cup {x}
  /\ \A e : Copies(e, new) = Copies(e, bag) + (IF e = x THEN 1 ELSE 0)

\* Adding to a bag adds one copy.
LEMMA BagOfOneMore ==
  ASSUME NEW new, NEW bag, Sound(bag), NEW x, new = bag (+) SetToBag({x})
  PROVE  OneMore(new, bag, x) /\ Sound(new)
<1>1. new = [e \in DOMAIN bag \cup {x} |-> Copies(e, bag) + (IF e = x THEN 1 ELSE 0)]
  BY DEF (+), SetToBag, Copies, Sound
<1>2. QED BY ONLY <1>1, Sound(bag) DEF OneMore, Sound, Copies

\* A union of bags has the copies of both.
LEMMA UnionOfBags ==
  ASSUME NEW A, NEW B, Sound(A), Sound(B)
  PROVE  /\ Sound(A (+) B) /\ DOMAIN (A (+) B) = DOMAIN A \cup DOMAIN B
         /\ \A e : Copies(e, A (+) B) = Copies(e, A) + Copies(e, B)
<1>1. A (+) B = [e \in DOMAIN A \cup DOMAIN B |-> Copies(e, A) + Copies(e, B)]
  BY DEF (+), Copies
<1>2. \A e : Copies(e, A) \in Nat /\ Copies(e, B) \in Nat
  BY DEF Copies, Sound
<1>3. \A e : e \notin DOMAIN A \cup DOMAIN B => Copies(e, A) + Copies(e, B) = 0
  BY DEF Copies
<1>4. QED BY ONLY <1>1, <1>2, <1>3 DEF Sound, Copies

\* Adding to either bag adds one copy to their union.
LEMMA UnionOfOneMore ==
  ASSUME NEW A, NEW B, Sound(A), Sound(B), NEW x,
         NEW C, NEW D, Sound(C), Sound(D),
         \/ OneMore(C, A, x) /\ D = B
         \/ OneMore(D, B, x) /\ C = A
  PROVE  OneMore(C (+) D, A (+) B, x)
<1>1. /\ DOMAIN (A (+) B) = DOMAIN A \cup DOMAIN B
      /\ DOMAIN (C (+) D) = DOMAIN C \cup DOMAIN D
      /\ \A e : Copies(e, A (+) B) = Copies(e, A) + Copies(e, B)
      /\ \A e : Copies(e, C (+) D) = Copies(e, C) + Copies(e, D)
  BY UnionOfBags
<1>2. \A e : Copies(e, A) \in Nat /\ Copies(e, B) \in Nat
  BY DEF Copies, Sound
<1>3. DOMAIN (C (+) D) = DOMAIN (A (+) B) \cup {x}
  BY <1>1 DEF OneMore
<1>4. \A e : Copies(e, C (+) D) = Copies(e, A (+) B) + (IF e = x THEN 1 ELSE 0)
  BY <1>1, <1>2 DEF OneMore
<1>5. QED BY <1>3, <1>4 DEF OneMore

\* The maps and the history are what they should be, and the report is exact.
ClassInv == Kept(stats) /\ Sound(written) /\ ClassCountsExact

\* A statement written down is one more of its kind.
LEMMA WrittenDown ==
  ASSUME Sound(written), NEW what, NEW from, NEW to,
         OneMore(written', written, [what |-> what, from |-> from, to |-> to])
  PROVE  \A w, f, t : /\ Written(w, f, t) \in Nat
                       /\ Written(w, f, t)' = Written(w, f, t)
                            + (IF w = what /\ f = from /\ t = to THEN 1 ELSE 0)
<1> DEFINE new == [what |-> what, from |-> from, to |-> to]
<1>1. \A e : /\ Copies(e, written) \in Nat
             /\ Copies(e, written') = Copies(e, written) + (IF e = new THEN 1 ELSE 0)
  BY DEF Sound, Copies, OneMore
<1>3. ASSUME NEW w, NEW f, NEW t
      PROVE  /\ Written(w, f, t) \in Nat
             /\ Written(w, f, t)' = Written(w, f, t)
                  + (IF w = what /\ f = from /\ t = to THEN 1 ELSE 0)
  <2> DEFINE e == [what |-> w, from |-> f, to |-> t]
  <2>1. e = new <=> (w = what /\ f = from /\ t = to)
    <3>1. e.what = w /\ e.from = f /\ e.to = t /\ new.what = what /\ new.from = from /\ new.to = to
      OBVIOUS
    <3>2. QED BY <3>1
  <2> HIDE DEF e, new
  <2>2. Written(w, f, t) = Copies(e, written) /\ Written(w, f, t)' = Copies(e, written')
    BY DEF Written, BagIn, BagToSet, e, Copies
  <2>3. QED BY <1>1, <2>1, <2>2
<1>4. QED BY <1>3

\* What a statement adds to a counter of its type.
OpsOf(what, name) ==
  IF what = name THEN 1
  ELSE IF name \in Arithmetic /\ what = CompoundOf[name] THEN 2 ELSE 0

Compounds == {"add=", "sub=", "mul=", "div="}
Ended == Arithmetic \cup Compounds \cup {"minus", "plus"}

\* What leaves the maps and the history alone leaves the report exact.
LEMMA ReportUnchanged ==
  ASSUME ClassInv, UNCHANGED <<stats, written>>
  PROVE  ClassInv'
<1>1. \A n, t : Reported(n, t)' = Reported(n, t)
  BY DEF Reported, Entry
<1>2. \A x, y : ReportedCasts(x, y)' = ReportedCasts(x, y)
  BY DEF ReportedCasts, Entry
<1>3. \A w, x, y : Written(w, x, y)' = Written(w, x, y)
  BY DEF Written
<1>4. \A t : Results(t)' = Results(t)
  BY <1>3 DEF Results
<1>5. QED BY <1>1, <1>2, <1>3, <1>4 DEF ClassInv, ClassCountsExact, Kept, Sound

\* A statement that counts so keeps the report exact, counting or not.
LEMMA StatementKeeps ==
  ASSUME ClassInv, NEW type \in Types, NEW what \in Ended \cup {"cmp", "cast"},
         NEW from, NEW counted, Does(what, from, type, counted), Kept(counted),
         what # "cast" => from = type,
         \A n \in OpCounters : \A t :
           Ops(counted, n, t) = Ops(stats, n, t) + (IF t = type THEN OpsOf(what, n) ELSE 0),
         \A x, y : Casts(counted, x, y) = Casts(stats, x, y)
           + (IF y = type /\ (IF what = "cast" THEN x = from ELSE what # "cmp" /\ x = DoubleType)
              THEN 1 ELSE 0)
  PROVE  ClassInv'
<1>1. CASE ~flexfloat_stats_enabled
  BY <1>1, ReportUnchanged DEF Does
<1>2. CASE flexfloat_stats_enabled
  <2>1. stats' = counted
    BY <1>2 DEF Does
  <2> DEFINE new == [what |-> what, from |-> from, to |-> type]
  <2>2. OneMore(written', written, new) /\ Sound(written')
    <3>1. written' = written (+) SetToBag({new}) /\ Sound(written)
      BY <1>2, Zenon DEF Does, ClassInv
    <3>2. QED BY ONLY <3>1, BagOfOneMore
  <2>3. /\ Sound(written)'
        /\ \A w, f, t : /\ Written(w, f, t) \in Nat
                        /\ Written(w, f, t)' = Written(w, f, t)
                             + (IF w = what /\ f = from /\ t = type THEN 1 ELSE 0)
    BY <2>2, WrittenDown DEF ClassInv, Sound
  <2>4. /\ \A n, t : Reported(n, t)' = Ops(counted, n, t) /\ Reported(n, t) = Ops(stats, n, t)
        /\ \A x, y : ReportedCasts(x, y)' = Casts(counted, x, y) /\ ReportedCasts(x, y) = Casts(stats, x, y)
    BY <2>1 DEF Reported, ReportedCasts, Ops, Casts, Entry
  <2> SUFFICES ASSUME NEW t \in Types
      PROVE /\ \A n \in Arithmetic : Reported(n, t)'
                   = Written(n, t, t)' + 2 * Written(CompoundOf[n], t, t)'
            /\ \A n \in {"minus", "cmp"} : Reported(n, t)' = Written(n, t, t)'
            /\ \A f \in Types \cup {IntType, FloatType} :
                 ReportedCasts(f, t)' = Written("cast", f, t)'
            /\ ReportedCasts(DoubleType, t)' = Written("cast", DoubleType, t)' + Results(t)'
    BY <2>1, <2>3 DEF ClassInv, ClassCountsExact
  <2>5. ASSUME NEW n \in Arithmetic
        PROVE  Reported(n, t)' = Written(n, t, t)' + 2 * Written(CompoundOf[n], t, t)'
    <3>1. Reported(n, t)  = Written(n, t, t) + 2 * Written(CompoundOf[n], t, t)
      BY DEF ClassInv, ClassCountsExact
    <3>2. Reported(n, t)' = Reported(n, t) + (IF t = type THEN OpsOf(what, n) ELSE 0)
      BY <2>4 DEF OpCounters
    <3>3. CompoundOf[n] \in Compounds /\ n \notin Compounds
      BY DEF Arithmetic, CompoundOf, Compounds
    <3>4. QED BY <3>1, <3>2, <3>3, <2>3 DEF OpsOf, Compounds, Arithmetic
  <2>6. ASSUME NEW n \in {"minus", "cmp"}
        PROVE  Reported(n, t)' = Written(n, t, t)'
    <3>1. Reported(n, t)  = Written(n, t, t)
      BY DEF ClassInv, ClassCountsExact
    <3>2. Reported(n, t)' = Reported(n, t) + (IF t = type THEN OpsOf(what, n) ELSE 0)
      BY <2>4 DEF OpCounters
    <3>3. n \notin Arithmetic
      BY DEF Arithmetic
    <3>4. QED BY <3>1, <3>2, <3>3, <2>3 DEF OpsOf
  <2>7. ASSUME NEW f \in Types \cup {IntType, FloatType}
        PROVE  ReportedCasts(f, t)' = Written("cast", f, t)'
    <3>1. ReportedCasts(f, t) = Written("cast", f, t)
      BY DEF ClassInv, ClassCountsExact
    <3>2. f # DoubleType
      BY ClassAssumption DEF NativeTypes, IntType, FloatType, DoubleType, Desc
    <3>3. QED BY <3>1, <3>2, <2>3, <2>4
  <2>8. ReportedCasts(DoubleType, t)' = Written("cast", DoubleType, t)' + Results(t)'
    <3>1. ReportedCasts(DoubleType, t) = Written("cast", DoubleType, t) + Results(t)
      BY DEF ClassInv, ClassCountsExact
    <3>2. Results(t)' = Results(t) + (IF t = type /\ what \in Ended THEN 1 ELSE 0)
      BY <2>3 DEF Results, Ended, Arithmetic, Compounds
    <3>3. "cast" \notin Ended /\ "cmp" \notin Ended
      BY DEF Ended, Arithmetic, Compounds
    <3>4. Results(t) \in Nat
      BY <2>3 DEF Results
    <3>5. QED BY <3>1, <3>2, <3>3, <3>4, <2>3, <2>4
  <2>9. QED BY <2>5, <2>6, <2>7, <2>8
<1>3. QED BY <1>1, <1>2

\* Counting an operation and a conversion.
LEMMA BinaryCounts ==
  ASSUME NEW s, Kept(s), NEW type, NEW name \in OpCounters
  PROVE  /\ Kept(CountBinary(s, type, name))
         /\ \A n \in OpCounters : \A t : Ops(CountBinary(s, type, name), n, t)
              = Ops(s, n, t) + (IF t = type /\ n = name THEN 1 ELSE 0)
         /\ \A x, y : Casts(CountBinary(s, type, name), x, y)
              = Casts(s, x, y) + (IF x = DoubleType /\ y = type THEN 1 ELSE 0)
<1> DEFINE c == CountOperation(s, type, name)
<1>1. /\ Kept(c)
      /\ \A n \in OpCounters : \A t :
           Ops(c, n, t) = Ops(s, n, t) + (IF t = type /\ n = name THEN 1 ELSE 0)
      /\ \A from, to : Casts(c, from, to) = Casts(s, from, to)
  BY OperationCounts
<1> HIDE DEF c
<1>2. /\ Kept(CountCasting(c, DoubleType, type))
      /\ \A n \in OpCounters : \A t : Ops(CountCasting(c, DoubleType, type), n, t) = Ops(c, n, t)
      /\ \A x, y : Casts(CountCasting(c, DoubleType, type), x, y)
                     = Casts(c, x, y) + (IF x = DoubleType /\ y = type THEN 1 ELSE 0)
  BY <1>1, CastCounts
<1>3. CountBinary(s, type, name) = CountCasting(c, DoubleType, type)
  BY DEF CountBinary, c
<1>4. QED BY <1>1, <1>2, <1>3

\* Each statement of the program keeps the report exact.
LEMMA EachStatementKeeps ==
  ASSUME ClassInv, NEW type \in Types, Statement(type)
  PROVE  ClassInv'
<1>1. Kept(stats)
  BY DEF ClassInv
<1>2. \A n \in OpCounters : \A t : Ops(stats, n, t) \in Nat
  BY <1>1 DEF Kept, Ops, Entry, Filled
<1>3. CASE Declare(type)
  BY <1>3, ReportUnchanged DEF Declare
<1>4. ASSUME NEW from \in Types \cup NativeTypes,
             Does("cast", from, type, CountCasting(stats, from, type))
      PROVE  ClassInv'
  <2> DEFINE counted == CountCasting(stats, from, type)
  <2>1. /\ Kept(counted)
        /\ \A n \in OpCounters : \A t : Ops(counted, n, t) = Ops(stats, n, t)
        /\ \A x, y : Casts(counted, x, y)
                       = Casts(stats, x, y) + (IF x = from /\ y = type THEN 1 ELSE 0)
    BY <1>1, CastCounts
  <2>2. \A n \in OpCounters : OpsOf("cast", n) = 0
    BY DEF OpsOf, OpCounters, Arithmetic, CompoundOf
  <2>3. Does("cast", from, type, counted)
    BY <1>4
  <2> HIDE DEF counted
  <2>4. \A n \in OpCounters : \A t :
          Ops(counted, n, t) = Ops(stats, n, t) + (IF t = type THEN OpsOf("cast", n) ELSE 0)
    BY <1>2, <2>1, <2>2
  <2>5. QED BY <2>1, <2>3, <2>4, StatementKeeps
<1>5. CASE UnaryMinus(type)
  <2> DEFINE counted == CountBinary(stats, type, "minus")
  <2>1. /\ Kept(counted)
        /\ \A n \in OpCounters : \A t :
             Ops(counted, n, t) = Ops(stats, n, t) + (IF t = type /\ n = "minus" THEN 1 ELSE 0)
        /\ \A x, y : Casts(counted, x, y)
             = Casts(stats, x, y) + (IF x = DoubleType /\ y = type THEN 1 ELSE 0)
    BY <1>1, BinaryCounts DEF OpCounters
  <2>2. \A n \in OpCounters : OpsOf("minus", n) = IF n = "minus" THEN 1 ELSE 0
    BY DEF OpsOf, OpCounters, Arithmetic, CompoundOf
  <2>3. Does("minus", type, type, counted)
    BY <1>5 DEF UnaryMinus, CountBinary
  <2> HIDE DEF counted
  <2>4. \A n \in OpCounters : \A t :
          Ops(counted, n, t) = Ops(stats, n, t) + (IF t = type THEN OpsOf("minus", n) ELSE 0)
    BY <1>2, <2>1, <2>2
  <2>5. "minus" \in Ended /\ "minus" # "cast" /\ "minus" # "cmp"
    BY DEF Ended
  <2>6. QED BY <2>1, <2>3, <2>4, <2>5, StatementKeeps
<1>6. CASE UnaryPlus(type)
  <2> DEFINE counted == CountCasting(stats, DoubleType, type)
  <2>1. /\ Kept(counted)
        /\ \A n \in OpCounters : \A t : Ops(counted, n, t) = Ops(stats, n, t)
        /\ \A x, y : Casts(counted, x, y)
             = Casts(stats, x, y) + (IF x = DoubleType /\ y = type THEN 1 ELSE 0)
    BY <1>1, CastCounts
  <2>2. \A n \in OpCounters : OpsOf("plus", n) = 0
    BY DEF OpsOf, OpCounters, Arithmetic, CompoundOf
  <2>3. Does("plus", type, type, counted)
    BY <1>6 DEF UnaryPlus
  <2> HIDE DEF counted
  <2>4. \A n \in OpCounters : \A t :
          Ops(counted, n, t) = Ops(stats, n, t) + (IF t = type THEN OpsOf("plus", n) ELSE 0)
    BY <1>2, <2>1, <2>2
  <2>5. "plus" \in Ended /\ "plus" # "cast" /\ "plus" # "cmp"
    BY DEF Ended
  <2>6. QED BY <2>1, <2>3, <2>4, <2>5, StatementKeeps
<1>7. ASSUME NEW name \in Arithmetic, Binary(type, name)
      PROVE  ClassInv'
  <2> DEFINE counted == CountBinary(stats, type, name)
  <2>1. /\ Kept(counted)
        /\ \A n \in OpCounters : \A t :
             Ops(counted, n, t) = Ops(stats, n, t) + (IF t = type /\ n = name THEN 1 ELSE 0)
        /\ \A x, y : Casts(counted, x, y)
             = Casts(stats, x, y) + (IF x = DoubleType /\ y = type THEN 1 ELSE 0)
    BY <1>1, BinaryCounts DEF OpCounters
  <2>2. \A n \in OpCounters : OpsOf(name, n) = IF n = name THEN 1 ELSE 0
    BY DEF OpsOf, OpCounters, Arithmetic, CompoundOf
  <2>3. Does(name, type, type, counted)
    BY <1>7 DEF Binary
  <2> HIDE DEF counted
  <2>4. \A n \in OpCounters : \A t :
          Ops(counted, n, t) = Ops(stats, n, t) + (IF t = type THEN OpsOf(name, n) ELSE 0)
    BY <1>2, <2>1, <2>2
  <2>5. name \in Ended /\ name # "cast" /\ name # "cmp"
    BY DEF Ended, Arithmetic
  <2>6. QED BY <2>1, <2>3, <2>4, <2>5, StatementKeeps
<1>8. ASSUME NEW name \in Arithmetic, Compound(type, name)
      PROVE  ClassInv'
  <2> DEFINE scalar == CountScalar(stats, type, name)
             counted == CountBinary(scalar, type, name)
             what == CompoundOf[name]
  <2>1. /\ Kept(scalar)
        /\ \A n \in OpCounters : \A t :
             Ops(scalar, n, t) = Ops(stats, n, t) + (IF t = type /\ n = name THEN 1 ELSE 0)
        /\ \A x, y : Casts(scalar, x, y) = Casts(stats, x, y)
    BY <1>1, OperationCounts DEF OpCounters
  <2>2. Does(what, type, type, counted)
    BY <1>8 DEF Compound
  <2> HIDE DEF scalar
  <2>3. /\ Kept(counted)
        /\ \A n \in OpCounters : \A t :
             Ops(counted, n, t) = Ops(scalar, n, t) + (IF t = type /\ n = name THEN 1 ELSE 0)
        /\ \A x, y : Casts(counted, x, y)
             = Casts(scalar, x, y) + (IF x = DoubleType /\ y = type THEN 1 ELSE 0)
    BY <2>1, BinaryCounts DEF OpCounters
  <2>4. \A n \in OpCounters : OpsOf(what, n) = IF n = name THEN 2 ELSE 0
    BY DEF OpsOf, OpCounters, Arithmetic, CompoundOf
  <2>5. what \in Ended /\ what # "cast" /\ what # "cmp"
    BY DEF Ended, Compounds, Arithmetic, CompoundOf
  <2> HIDE DEF counted, what
  <2>6. \A n \in OpCounters : \A t :
          Ops(counted, n, t) = Ops(stats, n, t) + (IF t = type THEN OpsOf(what, n) ELSE 0)
    BY <1>2, <2>1, <2>3, <2>4
  <2>7. \A x, y : Casts(counted, x, y)
          = Casts(stats, x, y) + (IF x = DoubleType /\ y = type THEN 1 ELSE 0)
    BY <2>1, <2>3
  <2>8. QED BY <2>2, <2>3, <2>5, <2>6, <2>7, StatementKeeps
<1>9. CASE Relational(type)
  <2> DEFINE counted == CountScalar(stats, type, "cmp")
  <2>1. /\ Kept(counted)
        /\ \A n \in OpCounters : \A t :
             Ops(counted, n, t) = Ops(stats, n, t) + (IF t = type /\ n = "cmp" THEN 1 ELSE 0)
        /\ \A x, y : Casts(counted, x, y) = Casts(stats, x, y)
    BY <1>1, OperationCounts DEF OpCounters
  <2>2. \A n \in OpCounters : OpsOf("cmp", n) = IF n = "cmp" THEN 1 ELSE 0
    BY DEF OpsOf, OpCounters, Arithmetic, CompoundOf
  <2>3. Does("cmp", type, type, counted)
    BY <1>9 DEF Relational
  <2> HIDE DEF counted
  <2>4. \A n \in OpCounters : \A t :
          Ops(counted, n, t) = Ops(stats, n, t) + (IF t = type THEN OpsOf("cmp", n) ELSE 0)
    BY <1>2, <2>1, <2>2
  <2>5. \A x, y : Casts(stats, x, y) \in Nat
    BY <1>1 DEF Kept, Casts, Entry, Filled
  <2>6. \A x, y : Casts(counted, x, y) = Casts(stats, x, y)
          + (IF y = type /\ (IF "cmp" = "cast" THEN x = type ELSE "cmp" # "cmp" /\ x = DoubleType)
             THEN 1 ELSE 0)
    BY <2>1, <2>5
  <2>7. QED BY <2>1, <2>3, <2>4, <2>6, StatementKeeps
<1>10. CASE \E from \in Types : FromFlexfloat(from, type)
  BY <1>4, <1>10 DEF FromFlexfloat
<1>11. CASE \E native \in NativeTypes, w \in Numbers : FromNumber(native, w, type)
  BY <1>4, <1>11 DEF FromNumber
<1>12. CASE \E name \in Operators : Binary(type, name) \/ Compound(type, name)
  BY <1>7, <1>8, <1>12, ClassAssumption
<1>13. QED
  BY <1>3, <1>5, <1>6, <1>9, <1>10, <1>11, <1>12 DEF Statement

\* Whatever the program does, the class's counters say it.
THEOREM ClassCounts == ClassSpec => []ClassCountsExact
<1>1. ClassInit => ClassInv
  <2> SUFFICES ASSUME ClassInit PROVE ClassInv
    OBVIOUS
  <2>1. DOMAIN EmptyMap = {} /\ DOMAIN EmptyBag = {}
    BY DEF EmptyMap, EmptyBag, SetToBag
  <2>2. Kept(stats) /\ Sound(written)
    BY <2>1 DEF ClassInit, Kept, Filled, Sound, EmptyStats
  <2>3. \A n, t : Reported(n, t) = 0
    BY <2>1 DEF ClassInit, Reported, Entry, EmptyStats
  <2>4. \A x, y : ReportedCasts(x, y) = 0
    BY <2>1 DEF ClassInit, ReportedCasts, Entry, EmptyStats
  <2>5. \A w, x, y : Written(w, x, y) = 0
    BY <2>1 DEF ClassInit, Written, BagIn, BagToSet
  <2>6. QED BY <2>2, <2>3, <2>4, <2>5 DEF ClassInv, ClassCountsExact, Results
<1>2. ClassInv /\ [ClassNext]_classVars => ClassInv'
  <2> SUFFICES ASSUME ClassInv, [ClassNext]_classVars PROVE ClassInv'
    OBVIOUS
  <2>1. CASE \E type \in Types : Statement(type)
    BY <2>1, EachStatementKeeps
  <2>2. CASE Vectorize \/ flexfloat_start_stats \/ flexfloat_stop_stats
    BY <2>2, ReportUnchanged DEF Vectorize, flexfloat_start_stats, flexfloat_stop_stats
  <2>3. CASE flexfloat_clear_stats
    <3>1. DOMAIN EmptyMap = {} /\ DOMAIN EmptyBag = {} /\ stats' = EmptyStats /\ written' = EmptyBag
      BY <2>3 DEF flexfloat_clear_stats, EmptyMap, EmptyBag, SetToBag
    <3>2. Kept(stats') /\ Sound(written')
      BY <3>1 DEF Kept, Filled, Sound, EmptyStats
    <3>3. \A n, t : Reported(n, t)' = 0
      BY <3>1 DEF Reported, Entry, EmptyStats
    <3>4. \A x, y : ReportedCasts(x, y)' = 0
      BY <3>1 DEF ReportedCasts, Entry, EmptyStats
    <3>5. \A w, x, y : Written(w, x, y)' = 0
      BY <3>1 DEF Written, BagIn, BagToSet
    <3>6. QED BY <3>2, <3>3, <3>4, <3>5 DEF ClassInv, ClassCountsExact, Results
  <2>4. CASE UNCHANGED classVars
    <3>1. UNCHANGED <<stats, written>>
      BY <2>4 DEF classVars
    <3>2. QED BY <3>1, ReportUnchanged
  <2>5. QED BY <2>1, <2>2, <2>3, <2>4 DEF ClassNext
<1>3. ClassInv => ClassCountsExact
  BY DEF ClassInv
<1>4. QED BY <1>1, <1>2, <1>3, PTL DEF ClassSpec

-----------------------------------------------------------------------------
(* The tables of the C functions.                                             *)

\* A nonempty set of naturals has a least member, and Min finds it.
LEMMA MinIsLeast ==
  ASSUME NEW S, S \subseteq Nat, S # {}
  PROVE  /\ Min(S) \in S
         /\ \A m \in S : (\A n \in S : m <= n) => m = Min(S)
         /\ \A n \in S : Min(S) <= n
<1> DEFINE R == {ss \in Nat \X Nat : ss[1] < ss[2]}
<1>1. IsWellFoundedOn(R, Nat)
  BY NatLessThanWellFounded DEF OpToRel
<1> HIDE DEF R
<1>2. \E m \in S : \A n \in S : ~ (<<n, m>> \in R)
  BY <1>1, WFMin
<1>3. \A m, n \in Nat : <<n, m>> \notin R => m <= n
  BY DEF R
<1>4. \E m \in S : \A n \in S : m <= n
  BY <1>2, <1>3
<1>5. Min(S) \in S /\ \A n \in S : Min(S) <= n
  BY <1>4 DEF Min
<1>6. \A m, n \in Nat : m <= n /\ n <= m => m = n
  OBVIOUS
<1>7. QED BY <1>5, <1>6

\* Every slot is on the way of every key.
LEMMA EverySlotMet ==
  ASSUME NEW n \in Nat \ {0}, NEW a \in Nat, NEW i \in 0..(n - 1)
  PROVE  \E k \in 0..(n - 1) : (a + k) % n = i
<1>1. a = n * (a \div n) + (a % n) /\ (a \div n) \in Int /\ a % n \in 0..(n - 1)
  OBVIOUS
<1>2. PICK r \in 0..(n - 1), q \in Int : a = n * q + r
  BY <1>1
<1>3. \A x \in Int : (n * x + i) % n = i
  OBVIOUS
<1>4. CASE i >= r
  <2>1. a + (i - r) = n * q + i /\ i - r \in 0..(n - 1)
    BY <1>2, <1>4
  <2>2. (a + (i - r)) % n = i
    BY <2>1, <1>3, <1>2
  <2>3. QED BY <2>1, <2>2
<1>5. CASE i < r
  <2>1. a + (i + n - r) = n * (q + 1) + i /\ i + n - r \in 0..(n - 1)
    BY <1>2, <1>5
  <2>2. (a + (i + n - r)) % n = i
    BY <2>1, <1>3, <1>2
  <2>3. QED BY <2>1, <2>2
<1>6. QED BY <1>4, <1>5

\* The key of a format is not the free one, and gives the format back.
LEMMA OpKeyDecodes ==
  ASSUME NEW d \in CountedFormats
  PROVE  precision_hash(d) \in 1..(2^16 - 1) /\ KeyDesc(precision_hash(d)) = d
<1>0. 2^8 = 256
  OBVIOUS
<1>1. d \in [exp_bits : 0..255, frac_bits : 0..255] /\ Within(d)
  BY FormatsAssumption, <1>0
<1>2. PICK e \in 0..255, f \in 0..255 : d = [exp_bits |-> e, frac_bits |-> f]
  BY <1>1
<1>3. e >= 1
  BY <1>1, <1>2 DEF Within
<1>4. QED BY <1>2, <1>3 DEF precision_hash, KeyDesc

\* And the key of two formats, both.
LEMMA CastKeyDecodes ==
  ASSUME NEW d \in CountedFormats, NEW e \in CountedFormats
  PROVE  precision_hash2(d, e) \in Nat \ {0} /\ KeyDesc2(precision_hash2(d, e)) = <<d, e>>
<1>1. PICK h \in 1..(2^16 - 1) : h = precision_hash(d) /\ KeyDesc(h) = d
  BY OpKeyDecodes
<1>2. PICK g \in 1..(2^16 - 1) : g = precision_hash(e) /\ KeyDesc(g) = e
  BY OpKeyDecodes
<1>3. (h + 2^16 * g) % 2^16 = h /\ (h + 2^16 * g) \div 2^16 = g
  OBVIOUS
<1>4. QED BY <1>1, <1>2, <1>3 DEF precision_hash2, KeyDesc2

Slots(size) == 0..(size - 1)

(* A table for the counters of names, by keys; the search for each key in it  *)
(* ends at the one slot it is in.                                             *)
Table(t, size) ==
  /\ DOMAIN t = Slots(size)
  /\ \A i \in Slots(size) :
       /\ t[i].key \in Nat
       /\ t[i].key # Free => Finds(t, t[i].key, size) /\ SlotOf(t, t[i].key, size) = i

\* A search that ends is at the key or at a free slot.
LEMMA SearchEnds ==
  ASSUME NEW size \in Nat \ {0}, NEW t, NEW key \in Nat, Finds(t, key, size)
  PROVE  SlotOf(t, key, size) \in Slots(size) /\ t[SlotOf(t, key, size)].key \in {key, Free}
<1> DEFINE m == Min(Stops(t, key, size))
<1>1. Stops(t, key, size) \subseteq Nat /\ Stops(t, key, size) # {}
  BY DEF Stops, Finds
<1>2. m \in Stops(t, key, size)
  BY <1>1, MinIsLeast
<1> HIDE DEF m
<1>3. m \in Nat /\ t[(key + m) % size].key \in {key, Free}
  BY <1>2 DEF Stops
<1>4. (key + m) % size \in Slots(size)
  BY <1>3 DEF Slots
<1>5. SlotOf(t, key, size) = (key + m) % size
  BY DEF SlotOf, m
<1>6. QED BY <1>3, <1>4, <1>5

\* A search that ends nowhere has looked at every slot.
LEMMA SearchFails ==
  ASSUME NEW size \in Nat \ {0}, NEW t, NEW key \in Nat, ~Finds(t, key, size),
         NEW i \in Slots(size)
  PROVE  t[i].key \notin {key, Free}
<1>1. PICK k \in 0..(size - 1) : (key + k) % size = i
  BY EverySlotMet DEF Slots
<1>2. k \notin Stops(t, key, size)
  BY DEF Finds
<1>3. QED BY <1>1, <1>2 DEF Stops

\* Taking the slot a search ends at for its key leaves every search right.
LEMMA SlotTaken ==
  ASSUME NEW size \in Nat \ {0}, NEW t, Table(t, size), NEW key \in Nat \ {0},
         Finds(t, key, size), NEW u, DOMAIN u = Slots(size),
         u[SlotOf(t, key, size)].key = key,
         \A j \in Slots(size) : j # SlotOf(t, key, size) => u[j] = t[j]
  PROVE  Table(u, size)
<1> DEFINE i == SlotOf(t, key, size)
<1>1. i \in Slots(size) /\ t[i].key \in {key, Free}
  BY SearchEnds
<1>2. ASSUME NEW k \in 0..(size - 1), NEW x \in Nat
      PROVE  (x + k) % size \in Slots(size)
  BY DEF Slots
<1>3. Stops(u, key, size) = Stops(t, key, size)
  <2>1. ASSUME NEW k \in 0..(size - 1)
        PROVE  u[(key + k) % size].key \in {key, Free} <=> t[(key + k) % size].key \in {key, Free}
    <3> DEFINE s == (key + k) % size
    <3>1. s \in Slots(size)
      BY <1>2
    <3> HIDE DEF s, i
    <3>2. QED BY <3>1, <1>1 DEF s, i
  <2>2. QED BY <2>1 DEF Stops
<1>4. ASSUME NEW j \in Slots(size), u[j].key # Free
      PROVE  u[j].key \in Nat /\ Finds(u, u[j].key, size) /\ SlotOf(u, u[j].key, size) = j
  <2>1. CASE j = i
    <3>1. u[j].key = key
      BY <2>1
    <3>2. QED BY <3>1, <2>1, <1>3 DEF Finds, SlotOf
  <2>2. CASE j # i
    <3>1. PICK x : x = t[j].key /\ x = u[j].key
      BY <2>2
    <3>2. /\ x \in Nat /\ x # Free
          /\ Finds(t, x, size) /\ SlotOf(t, x, size) = j
      BY <1>4, <3>1 DEF Table
    <3>3. x # key
      BY <2>2, <3>2
    <3>4. Stops(u, x, size) \subseteq Stops(t, x, size)
      <4>1. ASSUME NEW k \in 0..(size - 1), u[(x + k) % size].key \in {x, Free}
            PROVE  t[(x + k) % size].key \in {x, Free}
        <5> DEFINE s == (x + k) % size
        <5>1. s \in Slots(size)
          BY <1>2, <3>2
        <5> HIDE DEF s, i
        <5>2. s # i
          BY <4>1, <3>3 DEF s, i, Free
        <5>3. QED BY <4>1, <5>1, <5>2 DEF s, i
      <4>2. QED BY <4>1 DEF Stops
    <3> DEFINE m == Min(Stops(t, x, size))
    <3>5. Stops(t, x, size) \subseteq Nat /\ Stops(t, x, size) # {}
      BY <3>2 DEF Stops, Finds
    <3>6. m \in Stops(t, x, size) /\ \A n \in Stops(t, x, size) : m <= n
      BY <3>5, MinIsLeast
    <3>7. (x + m) % size = j
      BY <3>2 DEF SlotOf
    <3> HIDE DEF m
    <3>8. m \in Stops(u, x, size)
      BY <3>6, <3>7, <3>1 DEF Stops
    <3>9. Stops(u, x, size) \subseteq Nat /\ Stops(u, x, size) # {}
      BY <3>4, <3>5, <3>8
    <3>10. m = Min(Stops(u, x, size))
      BY <3>4, <3>6, <3>8, <3>9, MinIsLeast
    <3>11. QED BY <3>1, <3>2, <3>7, <3>8, <3>10 DEF Finds, SlotOf
  <2>3. QED BY <2>1, <2>2
<1>5. \A j \in Slots(size) : u[j].key \in Nat
  BY DEF Table
<1>6. QED BY <1>4, <1>5 DEF Table

(* What a bag says of one thing counted, and the things it speaks of.         *)
CountsOf(w, names, bag) == [n \in names |-> Copies(<<w, n>>, bag)]
TalliedIn(bag, names) == {e[1] : e \in {x \in DOMAIN bag : x[2] \in names}}
Pairs(bag) == \A e \in DOMAIN bag : e = <<e[1], e[2]>>
(* Keys are none of them the free one, and tell what they stand for apart.    *)
Hash(hash) == /\ \A w \in DOMAIN hash : hash[w] \in Nat \ {0}
              /\ \A v, w \in DOMAIN hash : hash[v] = hash[w] => v = w

(* A table says of each thing tallied how often it was, and of nothing else.  *)
Exact(t, size, names, hash, bag) ==
  /\ Table(t, size)
  /\ \A i \in Slots(size) : t[i].key = Free => t[i].value = [n \in names |-> 0]
  /\ \A i \in Slots(size) : t[i].key # Free =>
       \E w \in TalliedIn(bag, names) :
          t[i].key = hash[w] /\ t[i].value = CountsOf(w, names, bag)
  /\ \A w \in TalliedIn(bag, names) :
       w \in DOMAIN hash /\ \E i \in Slots(size) : t[i].key = hash[w]

(* What is counted after one more.                                            *)
Grown(new, bag, w, name, names) ==
  /\ name \in names => TalliedIn(new, names) = TalliedIn(bag, names) \cup {w}
  /\ name \notin names => TalliedIn(new, names) = TalliedIn(bag, names)
  /\ \A v : CountsOf(v, names, new)
       = [n \in names |-> Copies(<<v, n>>, bag) + (IF v = w /\ n = name THEN 1 ELSE 0)]
  /\ \A v, n : Copies(<<v, n>>, bag) \in Nat
  /\ \A v : v \notin TalliedIn(bag, names) => CountsOf(v, names, bag) = [n \in names |-> 0]

\* One more is all that is tallied more.
LEMMA TalliedAfter ==
  ASSUME NEW bag, Pairs(bag), Sound(bag), NEW new, NEW w, NEW name, OneMore(new, bag, <<w, name>>), NEW names
  PROVE  Pairs(new) /\ Grown(new, bag, w, name, names)
<1>1. Pairs(new)
  BY DEF Pairs, OneMore
<1>2. \A v, B : v \in TalliedIn(B, names) <=> \E e \in DOMAIN B : e[2] \in names /\ v = e[1]
  BY DEF TalliedIn
<1>3. ASSUME NEW v
      PROVE  v \in TalliedIn(new, names)
               <=> v \in TalliedIn(bag, names) \/ (v = w /\ name \in names)
  <2>1. \A e : e \in DOMAIN new <=> e \in DOMAIN bag \/ e = <<w, name>>
    BY DEF OneMore
  <2>2. <<w, name>>[1] = w /\ <<w, name>>[2] = name
    OBVIOUS
  <2>3. v \in TalliedIn(new, names) => v \in TalliedIn(bag, names) \/ (v = w /\ name \in names)
    BY <1>2, <2>1, <2>2
  <2>4. v \in TalliedIn(bag, names) => v \in TalliedIn(new, names)
    BY <1>2, <2>1
  <2>5. name \in names => w \in TalliedIn(new, names)
    BY <1>2, <2>1, <2>2
  <2>6. QED BY <2>3, <2>4, <2>5
<1>4. \A v, n : <<v, n>> = <<w, name>> <=> v = w /\ n = name
  OBVIOUS
<1>5. \A v : CountsOf(v, names, new)
        = [n \in names |-> Copies(<<v, n>>, bag) + (IF v = w /\ n = name THEN 1 ELSE 0)]
  BY <1>4 DEF CountsOf, OneMore
<1>6. \A v, n : Copies(<<v, n>>, bag) \in Nat
  BY DEF Copies, Sound
<1>7. ASSUME NEW v, v \notin TalliedIn(bag, names)
      PROVE  CountsOf(v, names, bag) = [n \in names |-> 0]
  <2>1. ASSUME NEW n \in names PROVE <<v, n>> \notin DOMAIN bag
    BY <1>2, <1>7
  <2>2. QED BY <2>1 DEF CountsOf, Copies
<1>8. QED BY <1>1, <1>3, <1>5, <1>6, <1>7 DEF Grown

\* Counting keeps the table exact,
LEMMA CountKeepsExact ==
  ASSUME NEW size \in Nat \ {0}, NEW t, NEW names, NEW name \in names, NEW hash, Hash(hash),
         NEW bag, Pairs(bag), Sound(bag), Exact(t, size, names, hash, bag),
         NEW w \in DOMAIN hash, Finds(t, hash[w], size),
         NEW new, OneMore(new, bag, <<w, name>>)
  PROVE  Exact(Counted(t, hash[w], size, name), size, names, hash, new)
<1> DEFINE key == hash[w]
           i == SlotOf(t, key, size)
           u == Counted(t, key, size, name)
<1>1. key \in Nat \ {0} /\ Table(t, size)
  BY DEF Hash, Exact
<1>2. i \in Slots(size) /\ t[i].key \in {key, Free}
  BY <1>1, SearchEnds
<1>3. /\ DOMAIN u = Slots(size)
      /\ u[i] = [key |-> key, value |-> [t[i].value EXCEPT ![name] = @ + 1]]
      /\ \A j \in Slots(size) : j # i => u[j] = t[j]
  <2> DEFINE r == [key |-> key, value |-> [t[i].value EXCEPT ![name] = @ + 1]]
  <2>1. u = [t EXCEPT ![i] = r]
    BY DEF Counted
  <2>2. DOMAIN t = Slots(size)
    BY <1>1 DEF Table
  <2> HIDE DEF i, u, r
  <2>3. DOMAIN u = Slots(size) /\ u[i] = r /\ \A j \in Slots(size) : j # i => u[j] = t[j]
    BY <2>1, <2>2, <1>2
  <2>4. QED BY <2>3 DEF r
<1>4. u[i].key = key /\ u[i].value = [t[i].value EXCEPT ![name] = @ + 1]
  BY <1>3
<1>5. Table(u, size)
  BY <1>1, <1>3, <1>4, SlotTaken
<1>6. /\ TalliedIn(new, names) = TalliedIn(bag, names) \cup {w}
      /\ \A v : CountsOf(v, names, new)
              = [n \in names |-> Copies(<<v, n>>, bag) + (IF v = w /\ n = name THEN 1 ELSE 0)]
      /\ \A v, n : Copies(<<v, n>>, bag) \in Nat
      /\ \A v : v \notin TalliedIn(bag, names) => CountsOf(v, names, bag) = [n \in names |-> 0]
  <2>1. Grown(new, bag, w, name, names)
    BY TalliedAfter
  <2>2. QED BY <2>1 DEF Grown
<1>7. ASSUME NEW j \in Slots(size), t[j].key = key
      PROVE  j = i
  BY <1>1, <1>7 DEF Table, Free
<1> HIDE DEF u, i
<1>8. t[i].value = CountsOf(w, names, bag)
  <2>1. CASE t[i].key = key
    BY <2>1, <1>1, <1>2 DEF Exact, Hash, Free
  <2>2. CASE t[i].key = Free
    <3>1. w \notin TalliedIn(bag, names)
      BY <2>2, <1>1, <1>7 DEF Exact, Free
    <3>2. QED BY <2>2, <3>1, <1>2, <1>6 DEF Exact
  <2>3. QED BY <2>1, <2>2, <1>2
<1>9. u[i].value = CountsOf(w, names, new)
  <2>1. t[i].value = [n \in names |-> Copies(<<w, n>>, bag)]
    BY <1>8 DEF CountsOf
  <2>2. u[i].value = [n \in names |-> t[i].value[n] + (IF n = name THEN 1 ELSE 0)]
    <3> DEFINE f == t[i].value
    <3>1. f = [n \in names |-> Copies(<<w, n>>, bag)] /\ u[i].value = [f EXCEPT ![name] = @ + 1]
      BY <1>4, <2>1
    <3>2. \A n \in names : f[n] \in Nat
      BY <3>1, <1>6
    <3>3. DOMAIN f = names /\ \A n \in names : [f EXCEPT ![name] = @ + 1][n] = f[n] + (IF n = name THEN 1 ELSE 0)
      BY ONLY <3>1, <3>2, name \in names
    <3>4. [f EXCEPT ![name] = @ + 1] = [n \in names |-> f[n] + (IF n = name THEN 1 ELSE 0)]
      BY ONLY <3>3
    <3>5. QED BY <3>1, <3>4
  <2>3. \A n \in names : t[i].value[n] = Copies(<<w, n>>, bag)
    BY <2>1
  <2>4. CountsOf(w, names, new) = [n \in names |-> Copies(<<w, n>>, bag) + (IF n = name THEN 1 ELSE 0)]
    BY <1>6
  <2>5. QED BY ONLY <2>2, <2>3, <2>4, Zenon
<1>10. \A j \in Slots(size) : u[j].key = Free => u[j].value = [n \in names |-> 0]
  BY <1>1, <1>3, <1>4 DEF Exact, Free
<1>11. ASSUME NEW j \in Slots(size), u[j].key # Free
       PROVE  \E v \in TalliedIn(new, names) :
                 u[j].key = hash[v] /\ u[j].value = CountsOf(v, names, new)
  <2>1. CASE j = i
    BY <2>1, <1>4, <1>6, <1>9
  <2>2. CASE j # i
    <3>1. PICK v \in TalliedIn(bag, names) :
            t[j].key = hash[v] /\ t[j].value = CountsOf(v, names, bag)
      BY <2>2, <1>3, <1>11 DEF Exact
    <3>2. v # w
      BY <3>1, <2>2, <1>7
    <3>3. CountsOf(v, names, new) = CountsOf(v, names, bag)
      BY <3>2, <1>6 DEF CountsOf
    <3>4. QED BY <3>1, <3>3, <2>2, <1>3, <1>6
  <2>3. QED BY <2>1, <2>2
<1>12. ASSUME NEW v \in TalliedIn(new, names)
       PROVE  v \in DOMAIN hash /\ \E j \in Slots(size) : u[j].key = hash[v]
  <2>1. CASE v = w
    BY <2>1, <1>2, <1>4
  <2>2. CASE v # w
    <3>1. PICK j \in Slots(size) : v \in DOMAIN hash /\ t[j].key = hash[v]
      BY <2>2, <1>6 DEF Exact
    <3>2. j # i
      BY <3>1, <2>2, <1>2 DEF Hash, Free
    <3>3. QED BY <3>1, <3>2, <1>3
  <2>3. QED BY <2>1, <2>2
<1>13. QED BY <1>5, <1>10, <1>11, <1>12 DEF Exact, u

\* and counting something else does too.
LEMMA OtherKeepsExact ==
  ASSUME NEW size, NEW t, NEW names, NEW hash,
         NEW bag, Pairs(bag), Sound(bag), Exact(t, size, names, hash, bag),
         NEW w, NEW name, name \notin names, NEW new, OneMore(new, bag, <<w, name>>)
  PROVE  Exact(t, size, names, hash, new)
<1>1. /\ TalliedIn(new, names) = TalliedIn(bag, names)
      /\ \A v : CountsOf(v, names, new)
              = [n \in names |-> Copies(<<v, n>>, bag) + (IF v = w /\ n = name THEN 1 ELSE 0)]
      /\ \A v, n : Copies(<<v, n>>, bag) \in Nat
  <2>1. Grown(new, bag, w, name, names)
    BY TalliedAfter
  <2>2. QED BY <2>1 DEF Grown
<1>2. \A v : CountsOf(v, names, new) = CountsOf(v, names, bag)
  BY <1>1 DEF CountsOf
<1>3. QED BY <1>1, <1>2 DEF Exact

(* The lines printed of a table, and those there should be.                   *)
ReportOf(t, dec) == {<<dec[s.key], s.value>> : s \in {t[i] : i \in DOMAIN t}}
CountsIn(bag, names) == {<<w, CountsOf(w, names, bag)>> : w \in TalliedIn(bag, names)}

\* The lines of an exact table, its free slots left out, are what was tallied.
LEMMA ExactReport ==
  ASSUME NEW size, NEW t, NEW names, NEW hash, Hash(hash), NEW bag, Exact(t, size, names, hash, bag),
         NEW dec, NEW none, none \notin DOMAIN hash, dec[Free] = none,
         \A w \in DOMAIN hash : dec[hash[w]] = w
  PROVE  ReportOf(t, dec) \ {<<none, [n \in names |-> 0]>>} = CountsIn(bag, names)
<1> DEFINE Report == {<<dec[s.key], s.value>> : s \in {t[i] : i \in DOMAIN t}}
           Blank == <<none, [n \in names |-> 0]>>
           Tally == {<<w, CountsOf(w, names, bag)>> : w \in TalliedIn(bag, names)}
<1>1. DOMAIN t = Slots(size)
  BY DEF Exact, Table
<1>2. ASSUME NEW i \in Slots(size), <<dec[t[i].key], t[i].value>> # Blank
      PROVE  <<dec[t[i].key], t[i].value>> \in Tally
  <2>1. t[i].key # Free
    BY <1>2 DEF Exact
  <2>2. PICK w \in TalliedIn(bag, names) :
          t[i].key = hash[w] /\ t[i].value = CountsOf(w, names, bag)
    BY <2>1 DEF Exact
  <2>3. w \in DOMAIN hash
    BY DEF Exact
  <2>4. QED BY <2>2, <2>3
<1>3. ASSUME NEW w \in TalliedIn(bag, names)
      PROVE  <<w, CountsOf(w, names, bag)>> \in Report \ {Blank}
  <2>1. PICK i \in Slots(size) : w \in DOMAIN hash /\ t[i].key = hash[w]
    BY DEF Exact
  <2>2. t[i].key # Free
    BY <2>1 DEF Hash, Free
  <2>3. PICK v \in TalliedIn(bag, names) :
          t[i].key = hash[v] /\ t[i].value = CountsOf(v, names, bag)
    BY <2>2 DEF Exact
  <2>4. v = w
    BY <2>1, <2>3 DEF Exact, Hash
  <2>5. <<w, CountsOf(w, names, bag)>> = <<dec[t[i].key], t[i].value>>
    BY <2>1, <2>3, <2>4
  <2>6. w # none
    BY <2>1
  <2>7. QED BY <2>5, <2>6, <1>1
<1>4. Report \ {Blank} = Tally
  BY <1>1, <1>2, <1>3
<1>5. QED BY <1>4 DEF ReportOf, CountsIn

\* When a search does not end, the table is full.
LEMMA FullTable ==
  ASSUME NEW size \in Nat \ {0}, NEW t, NEW names, NEW hash, Hash(hash), NEW bag,
         Exact(t, size, names, hash, bag), NEW w \in DOMAIN hash, ~Finds(t, hash[w], size)
  PROVE  Cardinality(TalliedIn(bag, names)) = size
<1>1. \A i \in Slots(size) : t[i].key # Free
  BY SearchFails DEF Hash
<1>2. \A i \in Slots(size) : \E v \in TalliedIn(bag, names) : t[i].key = hash[v]
  BY <1>1 DEF Exact
<1> DEFINE f == [i \in Slots(size) |-> CHOOSE v \in TalliedIn(bag, names) : t[i].key = hash[v]]
<1>3. \A i \in Slots(size) : f[i] \in TalliedIn(bag, names) /\ t[i].key = hash[f[i]]
  BY <1>2
<1>4. f \in [Slots(size) -> TalliedIn(bag, names)]
  BY <1>3
<1> HIDE DEF f
<1>5. \A i, j \in Slots(size) : f[i] = f[j] => i = j
  BY <1>1, <1>3 DEF Exact, Table
<1>6. \A v \in TalliedIn(bag, names) : \E i \in Slots(size) : f[i] = v
  BY <1>3 DEF Exact, Hash
<1>7. f \in Bijection(Slots(size), TalliedIn(bag, names))
  BY <1>4, <1>5, <1>6 DEF Bijection, Injection, Surjection, IsInjective
<1>8. IsFiniteSet(Slots(size)) /\ Cardinality(Slots(size)) = size
  BY FS_Interval DEF Slots
<1>9. QED BY <1>7, <1>8, FS_Bijection DEF ExistsBijection

-----------------------------------------------------------------------------
(* The two tables of the program.                                             *)
OpHash == [w \in CountedFormats \X {NoDesc} |-> precision_hash(w[1])]
CastHash == [w \in CountedFormats \X CountedFormats |-> precision_hash2(w[1], w[2])]

OpsExact == Exact(op_stats, FLEXFLOAT_STATS_MAX_TYPES, OpNames, OpHash, Executed)
CastsExact == Exact(cast_stats, CastSize, {"total"}, CastHash, Executed)
ATableIsFull ==
  \/ Cardinality(TalliedIn(Executed, OpNames)) = FLEXFLOAT_STATS_MAX_TYPES
  \/ Cardinality(TalliedIn(Executed, {"total"})) = CastSize

StatsInv ==
  /\ Sound(tally) /\ Sound(retyped) /\ Pairs(Executed)
  /\ OpsExact /\ CastsExact
  /\ hung => ATableIsFull

Described(o) == obj[o] = Unborn \/ obj[o].desc \in CountedFormats
FlexInv == StatsInv /\ DOMAIN obj = Objects /\ (counting => \A o \in Objects : Described(o))

\* Keys tell the things counted apart, and say which they are.
LEMMA Hashes ==
  /\ Hash(OpHash) /\ Hash(CastHash)
  /\ \A d \in CountedFormats :
       <<d, NoDesc>> \in DOMAIN OpHash /\ OpHash[<<d, NoDesc>>] = precision_hash(d)
  /\ \A d, e \in CountedFormats :
       <<d, e>> \in DOMAIN CastHash /\ CastHash[<<d, e>>] = precision_hash2(d, e)
  /\ <<NoDesc, NoDesc>> \notin DOMAIN OpHash \cup DOMAIN CastHash
  /\ \A w \in DOMAIN OpHash : OpHash[w] \in Nat /\ <<KeyDesc(OpHash[w]), NoDesc>> = w
  /\ \A w \in DOMAIN CastHash : CastHash[w] \in Nat /\ KeyDesc2(CastHash[w]) = w
<1>1. NoDesc \notin CountedFormats
  BY FormatsAssumption DEF NoDesc, Desc, Within
<1>2. /\ \A d \in CountedFormats :
           <<d, NoDesc>> \in DOMAIN OpHash /\ OpHash[<<d, NoDesc>>] = precision_hash(d)
      /\ \A d, e \in CountedFormats :
           <<d, e>> \in DOMAIN CastHash /\ CastHash[<<d, e>>] = precision_hash2(d, e)
  BY DEF OpHash, CastHash
<1>3. <<NoDesc, NoDesc>> \notin DOMAIN OpHash \cup DOMAIN CastHash
  BY <1>1 DEF OpHash, CastHash
<1>4. ASSUME NEW w \in DOMAIN OpHash
      PROVE  OpHash[w] \in Nat \ {0} /\ <<KeyDesc(OpHash[w]), NoDesc>> = w
  <2>1. PICK d \in CountedFormats : w = <<d, NoDesc>>
    BY DEF OpHash
  <2>2. precision_hash(d) \in 1..(2^16 - 1) /\ KeyDesc(precision_hash(d)) = d
    BY OpKeyDecodes
  <2>3. QED BY <1>2, <2>1, <2>2
<1>5. ASSUME NEW w \in DOMAIN CastHash
      PROVE  CastHash[w] \in Nat \ {0} /\ KeyDesc2(CastHash[w]) = w
  <2>1. PICK d \in CountedFormats, e \in CountedFormats : w = <<d, e>>
    BY DEF CastHash
  <2>2. QED BY <1>2, <2>1, CastKeyDecodes
<1>6. Hash(OpHash) /\ Hash(CastHash)
  BY <1>4, <1>5 DEF Hash
<1>7. QED BY <1>2, <1>3, <1>4, <1>5, <1>6

\* The tables have slots; an operation is not counted as a conversion.
LEMMA Sizes ==
  /\ FLEXFLOAT_STATS_MAX_TYPES \in Nat \ {0} /\ CastSize \in Nat \ {0}
  /\ "total" \notin OpNames
<1>1. \A m \in Nat \ {0} : m * m \in Nat \ {0}
  OBVIOUS
<1>2. QED BY <1>1, MaxTypesAssumption DEF CastSize, OpNames

\* What one history gets more, both together get more.
LEMMA OneMoreExecuted ==
  ASSUME StatsInv, NEW w, NEW name,
         \/ tally' = tally (+) SetToBag({<<w, name>>}) /\ retyped' = retyped
         \/ retyped' = retyped (+) SetToBag({<<w, name>>}) /\ tally' = tally
  PROVE  /\ Sound(tally') /\ Sound(retyped') /\ Pairs(Executed) /\ Sound(Executed)
         /\ OneMore(Executed', Executed, <<w, name>>) /\ Pairs(Executed')
<1>1. Sound(tally) /\ Sound(retyped) /\ Pairs(Executed)
  BY DEF StatsInv
<1>2. /\ Sound(tally') /\ Sound(retyped')
      /\ \/ OneMore(tally', tally, <<w, name>>) /\ retyped' = retyped
         \/ OneMore(retyped', retyped, <<w, name>>) /\ tally' = tally
  BY <1>1, BagOfOneMore
<1>3. OneMore(Executed', Executed, <<w, name>>)
  BY <1>1, <1>2, UnionOfOneMore DEF Executed
<1>4. Sound(Executed)
  BY <1>1, UnionOfBags DEF Executed
<1>5. Pairs(Executed')
  BY <1>1, <1>3, <1>4, TalliedAfter
<1>6. QED BY <1>1, <1>2, <1>3, <1>4, <1>5

\* The counting statement of an operation keeps both tables exact,
LEMMA CountOpKeeps ==
  ASSUME StatsInv, ~hung, NEW desc, counting => desc \in CountedFormats, NEW name \in OpNames,
         CountOp(desc, name)
  PROVE  StatsInv'
<1> DEFINE key == precision_hash(desc)
           w == <<desc, NoDesc>>
<1>1. CASE UNCHANGED statsVars
  BY <1>1 DEF statsVars, StatsInv, OpsExact, CastsExact, ATableIsFull, Executed
<1>2. CASE ~UNCHANGED statsVars
  <2>1. /\ counting /\ UNCHANGED <<cast_stats, retyped>>
        /\ IF Finds(op_stats, key, FLEXFLOAT_STATS_MAX_TYPES)
           THEN /\ op_stats' = Counted(op_stats, key, FLEXFLOAT_STATS_MAX_TYPES, name)
                /\ tally' = tally (+) SetToBag({<<w, name>>})
                /\ UNCHANGED hung
           ELSE hung' = TRUE /\ UNCHANGED <<op_stats, tally>>
    BY <1>2, Zenon DEF CountOp
  <2>2. Hash(OpHash) /\ w \in DOMAIN OpHash /\ OpHash[w] = key
    BY <2>1, Hashes
  <2>3. CASE Finds(op_stats, key, FLEXFLOAT_STATS_MAX_TYPES)
    <3>1. tally' = tally (+) SetToBag({<<w, name>>}) /\ retyped' = retyped
      BY <2>1, <2>3, Zenon
    <3>2. /\ Sound(tally') /\ Sound(retyped') /\ Pairs(Executed) /\ Sound(Executed)
          /\ OneMore(Executed', Executed, <<w, name>>) /\ Pairs(Executed')
      BY <3>1, OneMoreExecuted
    <3>4. op_stats' = Counted(op_stats, OpHash[w], FLEXFLOAT_STATS_MAX_TYPES, name) /\ hung' = hung
      BY <2>1, <2>2, <2>3, Zenon
    <3>5. OpsExact'
      BY <2>2, <2>3, <3>2, <3>4, Sizes, CountKeepsExact DEF StatsInv, OpsExact
    <3>6. CastsExact'
      BY <2>1, <3>2, Sizes, OtherKeepsExact DEF StatsInv, CastsExact
    <3>7. QED BY <3>2, <3>4, <3>5, <3>6 DEF StatsInv
  <2>4. CASE ~Finds(op_stats, key, FLEXFLOAT_STATS_MAX_TYPES)
    <3>1. UNCHANGED <<op_stats, cast_stats, tally, retyped>>
      BY <2>1, <2>4, Zenon
    <3>2. Cardinality(TalliedIn(Executed, OpNames)) = FLEXFLOAT_STATS_MAX_TYPES
      BY <2>2, <2>4, Sizes, FullTable DEF StatsInv, OpsExact
    <3>3. QED BY <3>1, <3>2 DEF StatsInv, OpsExact, CastsExact, ATableIsFull, Executed
  <2>5. QED BY <2>3, <2>4
<1>3. QED BY <1>1, <1>2

\* and so does a conversion's.
LEMMA CountCastKeeps ==
  ASSUME StatsInv, ~hung, NEW from, NEW to, NEW retypes,
         counting => from \in CountedFormats /\ to \in CountedFormats, CountCast(from, to, retypes)
  PROVE  StatsInv'
<1> DEFINE key == precision_hash2(from, to)
           w == <<from, to>>
<1>1. CASE UNCHANGED statsVars
  BY <1>1 DEF statsVars, StatsInv, OpsExact, CastsExact, ATableIsFull, Executed
<1>2. CASE ~UNCHANGED statsVars
  <2>1. /\ counting /\ UNCHANGED op_stats
        /\ IF Finds(cast_stats, key, CastSize)
           THEN /\ cast_stats' = Counted(cast_stats, key, CastSize, "total")
                /\ \/ tally' = tally (+) SetToBag({<<w, "total">>}) /\ retyped' = retyped
                   \/ retyped' = retyped (+) SetToBag({<<w, "total">>}) /\ tally' = tally
                /\ UNCHANGED hung
           ELSE hung' = TRUE /\ UNCHANGED <<cast_stats, tally, retyped>>
    BY <1>2, Zenon DEF CountCast
  <2>2. Hash(CastHash) /\ w \in DOMAIN CastHash /\ CastHash[w] = key
    BY <2>1, Hashes
  <2>3. CASE Finds(cast_stats, key, CastSize)
    <3>1. \/ tally' = tally (+) SetToBag({<<w, "total">>}) /\ retyped' = retyped
          \/ retyped' = retyped (+) SetToBag({<<w, "total">>}) /\ tally' = tally
      BY <2>1, <2>3, Zenon
    <3>2. /\ Sound(tally') /\ Sound(retyped') /\ Pairs(Executed) /\ Sound(Executed)
          /\ OneMore(Executed', Executed, <<w, "total">>) /\ Pairs(Executed')
      BY <3>1, OneMoreExecuted
    <3>4. cast_stats' = Counted(cast_stats, CastHash[w], CastSize, "total") /\ hung' = hung
      BY <2>1, <2>2, <2>3, Zenon
    <3>5. CastsExact'
      BY <2>2, <2>3, <3>2, <3>4, Sizes, CountKeepsExact DEF StatsInv, CastsExact
    <3>6. OpsExact'
      BY <2>1, <3>2, Sizes, OtherKeepsExact DEF StatsInv, OpsExact
    <3>7. QED BY <3>2, <3>4, <3>5, <3>6 DEF StatsInv
  <2>4. CASE ~Finds(cast_stats, key, CastSize)
    <3>1. UNCHANGED <<op_stats, cast_stats, tally, retyped>>
      BY <2>1, <2>4, Zenon
    <3>2. Cardinality(TalliedIn(Executed, {"total"})) = CastSize
      BY <2>2, <2>4, Sizes, FullTable DEF StatsInv, CastsExact
    <3>3. QED BY <3>1, <3>2 DEF StatsInv, OpsExact, CastsExact, ATableIsFull, Executed
  <2>5. QED BY <2>3, <2>4
<1>3. QED BY <1>1, <1>2

\* A fresh table is exact.
LEMMA EmptyIsExact ==
  ASSUME NEW size \in Nat \ {0}, NEW names, NEW hash, NEW blank, blank = [n \in names |-> 0]
  PROVE  Exact(EmptyTable(size, blank), size, names, hash, EmptyBag)
<1>1. DOMAIN EmptyBag = {}
  BY DEF EmptyBag, SetToBag
<1>2. TalliedIn(EmptyBag, names) = {}
  BY <1>1 DEF TalliedIn
<1> DEFINE t == EmptyTable(size, blank)
<1>3. DOMAIN t = Slots(size) /\ \A i \in Slots(size) : t[i].key = 0 /\ t[i].value = blank
  BY DEF EmptyTable, Slots, Free
<1> HIDE DEF t
<1>4. Table(t, size)
  BY <1>3 DEF Table, Free
<1>5. Exact(t, size, names, hash, EmptyBag)
  BY <1>2, <1>3, <1>4 DEF Exact, Free
<1>6. QED BY <1>5 DEF t

\* Cleared, the counters count nothing.
LEMMA NothingCounted ==
  /\ Pairs(EmptyBag) /\ Sound(EmptyBag) /\ EmptyBag (+) EmptyBag = EmptyBag
  /\ Exact(NoOpStats, FLEXFLOAT_STATS_MAX_TYPES, OpNames, OpHash, EmptyBag)
  /\ Exact(NoCastStats, CastSize, {"total"}, CastHash, EmptyBag)
<1>1. DOMAIN EmptyBag = {}
  BY DEF EmptyBag, SetToBag
<1>2. NoOps = [n \in OpNames |-> 0] /\ NoCasts = [n \in {"total"} |-> 0]
  BY DEF NoOps, NoCasts
<1>3. EmptyBag (+) EmptyBag = EmptyBag
  BY DEF EmptyBag, SetToBag, (+)
<1>4. QED BY <1>1, <1>2, <1>3, Sizes, EmptyIsExact DEF Pairs, Sound, NoOpStats, NoCastStats

\* What the program computes keeps the counters right.
LEMMA ComputesKeeps ==
  ASSUME FlexInv, ~hung, NEW o \in Objects, Computes(o)
  PROVE  FlexInv'
<1>1. StatsInv /\ DOMAIN obj = Objects /\ (counting => \A p \in Objects : Described(p))
  BY DEF FlexInv
<1>2. \A p \in Objects : counting /\ Live(p) => obj[p].desc \in CountedFormats
  BY <1>1 DEF Described, Live
<1>3. UNCHANGED statsVars => StatsInv'
  BY <1>1 DEF statsVars, StatsInv, OpsExact, CastsExact, ATableIsFull, Executed
<1>4. ASSUME NEW x, NEW raw, Becomes(o, x, raw), UNCHANGED counting,
             counting => x.desc \in CountedFormats, StatsInv'
      PROVE  FlexInv'
  <2>1. obj' = [obj EXCEPT ![o] = x]
    BY <1>4 DEF Becomes
  <2>2. DOMAIN obj' = Objects /\ \A p \in Objects : obj'[p] = IF p = o THEN x ELSE obj[p]
    BY <1>1, <2>1
  <2>3. QED BY <1>1, <1>4, <2>2 DEF FlexInv, Described
<1>5. ASSUME NEW name \in OpNames, NEW a \in Objects, Live(a), CountOp(obj[a].desc, name)
      PROVE  StatsInv'
  BY <1>1, <1>2, <1>5, CountOpKeeps
<1> USE DEF Keeps, Assigned
<1>6. CASE \E desc \in Used : Construct(o, desc)
  <2>1. PICK desc \in Used : Construct(o, desc)
    BY <1>6
  <2>2. ff_init_double(src, desc, mode).desc = desc
    BY DEF ff_init_double, Sanitized, Object
  <2>3. QED BY <1>3, <1>4, <2>1, <2>2 DEF Construct, Used
<1>7. CASE \E desc \in Used, n \in Ints : ConstructInt(o, n, desc)
  BY <1>3, <1>4, <1>7 DEF ConstructInt
<1>8. CASE \E desc \in Used : ConstructZero(o, desc)
  BY <1>3, <1>4, <1>8 DEF ConstructZero
<1>9. CASE \E desc \in Used : \E sign \in {0, 1}, exp \in {0, 1, flexfloat_inf_exp(desc)} :
             SetBits(o, sign, exp, 0, desc)
  BY <1>3, <1>4, <1>9 DEF SetBits
<1>10. CASE \E s \in Objects, desc \in Used : Cast(o, s, desc)
  <2>1. PICK s \in Objects, desc \in Used : Cast(o, s, desc)
    BY <1>10
  <2> DEFINE was == obj[s].desc
             from == IF o = s THEN desc ELSE was
             retypes == from # was
             x == ff_cast(obj[s].value, from, desc, mode)
  <2>2. x.desc = desc
    BY DEF ff_cast, Sanitized, Object
  <2>3. /\ Live(s) /\ UNCHANGED counting /\ CountCast(from, desc, retypes)
        /\ Becomes(o, x, retypes \/ (desc = was /\ s \in unrounded))
    BY <2>1, Zenon DEF Cast
  <2>4. counting => from \in CountedFormats /\ desc \in CountedFormats
    BY <1>2, <2>3 DEF Used
  <2> HIDE DEF was, from, retypes, x
  <2>5. StatsInv'
    BY <1>1, <2>3, <2>4, CountCastKeeps
  <2>6. QED BY <1>4, <2>2, <2>3, <2>4, <2>5
<1>11. CASE \E a \in Objects : Negate(o, a)
  <2>1. PICK a \in Objects : Negate(o, a)
    BY <1>11
  <2>2. Live(o) /\ ff_inverse(obj[a]).desc = obj[o].desc
    BY <2>1 DEF Negate, Alike, ff_inverse, Object
  <2>3. QED BY <1>2, <1>4, <1>5, <2>1, <2>2 DEF Negate, OpNames
<1>12. CASE \E a, b \in Objects : Add(o, a, b)
  <2>1. PICK a \in Objects, b \in Objects : Add(o, a, b)
    BY <1>12
  <2>2. Live(o) /\ Live(a) /\ ff_add(obj[a], obj[b], mode).desc = obj[a].desc
    BY <2>1 DEF Add, Alike, ff_add, Sanitized, Object
  <2>3. QED BY <1>2, <1>4, <1>5, <2>1, <2>2 DEF Add, OpNames
<1>13. CASE \E a, b \in Objects : Sub(o, a, b)
  <2>1. PICK a \in Objects, b \in Objects : Sub(o, a, b)
    BY <1>13
  <2>2. Live(o) /\ Live(a) /\ ff_sub(obj[a], obj[b], mode).desc = obj[a].desc
    BY <2>1 DEF Sub, Alike, ff_sub, Sanitized, Object
  <2>3. QED BY <1>2, <1>4, <1>5, <2>1, <2>2 DEF Sub, OpNames
<1>14. CASE \E a, b \in Objects : Mul(o, a, b)
  <2>1. PICK a \in Objects, b \in Objects : Mul(o, a, b)
    BY <1>14
  <2>2. Live(o) /\ Live(a) /\ ff_mul(obj[a], obj[b], mode).desc = obj[a].desc
    BY <2>1 DEF Mul, Alike, ff_mul, Sanitized, Object
  <2>3. QED BY <1>2, <1>4, <1>5, <2>1, <2>2 DEF Mul, OpNames
<1>15. CASE \E a, b \in Objects : Div(o, a, b)
  <2>1. PICK a \in Objects, b \in Objects : Div(o, a, b)
    BY <1>15
  <2>2. Live(o) /\ Live(a) /\ ff_div(obj[a], obj[b], mode).desc = obj[a].desc
    BY <2>1 DEF Div, Alike, ff_div, Sanitized, Object
  <2>3. QED BY <1>2, <1>4, <1>5, <2>1, <2>2 DEF Div, OpNames
<1>16. CASE \E a \in Objects : Acc(o, a)
  <2>1. PICK a \in Objects : Acc(o, a)
    BY <1>16
  <2>2. Live(o) /\ ff_add(obj[o], obj[a], mode).desc = obj[o].desc
    BY <2>1 DEF Acc, Alike, ff_add, Sanitized, Object
  <2>3. QED BY <1>2, <1>4, <1>5, <2>1, <2>2 DEF Acc, OpNames
<1>17. CASE \E b \in Objects : Compare(o, b)
  <2>1. PICK b \in Objects : Compare(o, b)
    BY <1>17
  <2>2. StatsInv'
    BY <1>5, <2>1 DEF Compare, Alike, OpNames
  <2>3. QED BY <1>1, <2>1, <2>2 DEF Compare, FlexInv, Described
<1>18. QED
  BY <1>6, <1>7, <1>8, <1>9, <1>10, <1>11, <1>12, <1>13, <1>14, <1>15, <1>16, <1>17 DEF Computes

\* The lines printed are the counts.
LEMMA ExactCounts ==
  ASSUME FlexInv
  PROVE  CountsExact
<1>1. \A bag, names : TalliedFor(bag, names) = TalliedIn(bag, names)
  BY DEF TalliedFor, TalliedIn, BagToSet
<1>2. \A bag, w, names : Counts(bag, w, names) = CountsOf(w, names, bag)
  BY DEF Counts, CountsOf, Copies, BagIn, BagToSet
<1>3. \A bag, names : Lines(bag, names) = CountsIn(bag, names)
  BY <1>1, <1>2 DEF Lines, CountsIn
<1>4. OpReport \ {<<<<NoDesc, NoDesc>>, NoOps>>} = Lines(Executed, OpNames)
  <2> DEFINE dec == [k \in Nat |-> <<KeyDesc(k), NoDesc>>]
  <2>1. \A s \in {op_stats[i] : i \in DOMAIN op_stats} : dec[s.key] = <<KeyDesc(s.key), NoDesc>>
    BY DEF FlexInv, StatsInv, OpsExact, Exact, Table
  <2>2. OpReport = ReportOf(op_stats, dec)
    BY <2>1 DEF OpReport, ReportOf
  <2>3. dec[Free] = <<NoDesc, NoDesc>>
    BY DEF KeyDesc, NoDesc, Desc, Free
  <2>4. \A w \in DOMAIN OpHash : dec[OpHash[w]] = w
    BY Hashes
  <2> HIDE DEF dec
  <2>5. Exact(op_stats, FLEXFLOAT_STATS_MAX_TYPES, OpNames, OpHash, Executed)
    BY DEF FlexInv, StatsInv, OpsExact
  <2>6. ReportOf(op_stats, dec) \ {<<<<NoDesc, NoDesc>>, [n \in OpNames |-> 0]>>} = CountsIn(Executed, OpNames)
    BY <2>3, <2>4, <2>5, Hashes, ExactReport
  <2>7. QED BY <1>3, <2>2, <2>6 DEF NoOps
<1>5. CastReport \ {<<<<NoDesc, NoDesc>>, NoCasts>>} = Lines(Executed, {"total"})
  <2> DEFINE dec == [k \in Nat |-> KeyDesc2(k)]
  <2>1. \A s \in {cast_stats[i] : i \in DOMAIN cast_stats} : dec[s.key] = KeyDesc2(s.key)
    BY DEF FlexInv, StatsInv, CastsExact, Exact, Table
  <2>2. CastReport = ReportOf(cast_stats, dec)
    BY <2>1 DEF CastReport, ReportOf
  <2>3. dec[Free] = <<NoDesc, NoDesc>>
    BY DEF KeyDesc2, KeyDesc, NoDesc, Desc, Free
  <2>4. \A w \in DOMAIN CastHash : dec[CastHash[w]] = w
    BY Hashes
  <2> HIDE DEF dec
  <2>5. Exact(cast_stats, CastSize, {"total"}, CastHash, Executed)
    BY DEF FlexInv, StatsInv, CastsExact
  <2>6. ReportOf(cast_stats, dec) \ {<<<<NoDesc, NoDesc>>, [n \in {"total"} |-> 0]>>} = CountsIn(Executed, {"total"})
    <3>1. Hash(CastHash) /\ <<NoDesc, NoDesc>> \notin DOMAIN CastHash
      BY Hashes
    <3>2. QED BY <2>3, <2>4, <2>5, <3>1, ExactReport
  <2>7. QED BY <1>3, <2>2, <2>6 DEF NoCasts
<1>6. QED BY <1>1, <1>4, <1>5 DEF CountsExact, FlexInv, StatsInv, ATableIsFull

\* Whatever the formats and the program, the tables of the C functions count
\* exactly what was executed, and a search that does not end means a full table.
THEOREM CountsAreExact == FlexSpec => []CountsExact
<1>1. FlexInit => FlexInv
  <2> SUFFICES ASSUME FlexInit PROVE FlexInv
    OBVIOUS
  <2>1. StatsInv
    BY NothingCounted DEF FlexInit, StatsInv, OpsExact, CastsExact, Executed
  <2>2. QED BY <2>1 DEF FlexInit, FlexInv, Described
<1>2. FlexInv /\ [FlexNext]_flexVars => FlexInv'
  <2> SUFFICES ASSUME FlexInv, [FlexNext]_flexVars PROVE FlexInv'
    OBVIOUS
  <2>1. CASE ~hung /\ Room /\ \E o \in Objects : Computes(o)
    BY <2>1, ComputesKeeps
  <2>2. CASE (\E m \in Modes : fesetround(m)) \/ ff_start_stats \/ ff_stop_stats
    <3>1. UNCHANGED <<obj, counting, op_stats, cast_stats, hung, tally, retyped>>
      BY <2>2 DEF fesetround, statsVars, ff_start_stats, ff_stop_stats, Keeps
    <3>2. QED BY <3>1 DEF FlexInv, StatsInv, OpsExact, CastsExact, ATableIsFull, Described, Executed
  <2>3. CASE ~hung /\ ff_clear_stats
    <3>1. /\ op_stats' = NoOpStats /\ cast_stats' = NoCastStats /\ tally' = EmptyBag
          /\ retyped' = EmptyBag /\ UNCHANGED <<obj, counting>> /\ ~hung'
      BY <2>3 DEF ff_clear_stats, Keeps
    <3>2. StatsInv'
      BY <3>1, NothingCounted DEF StatsInv, OpsExact, CastsExact, Executed
    <3>3. QED BY <3>1, <3>2 DEF FlexInv, Described
  <2>4. CASE UNCHANGED flexVars
    BY <2>4 DEF flexVars, statsVars, FlexInv, StatsInv, OpsExact, CastsExact, ATableIsFull, Described, Executed
  <2>5. QED BY <2>1, <2>2, <2>3, <2>4 DEF FlexNext
<1>3. FlexInv => CountsExact
  BY ExactCounts
<1>4. QED BY <1>1, <1>2, <1>3, PTL DEF FlexSpec
=============================================================================
