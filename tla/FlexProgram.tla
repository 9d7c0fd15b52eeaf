---------------------------- MODULE FlexProgram ----------------------------
(***************************************************************************)
(* A program that uses the C interface of flexfloat: it makes two objects  *)
(* from numbers of the backend type, changes the rounding mode, and        *)
(* combines the objects in any order.  The library is built either without *)
(* FLEXFLOAT_STATS, and the program then computes with every value, or     *)
(* with it, and the program then exercises the counters on one value.      *)
(***************************************************************************)
EXTENDS FlexFloat, FlexStats, Bags

CONSTANTS Formats,      \* descriptions the program uses
          CountedFormats,   \* and those it uses while operations are counted
          Ints,         \* integers it starts objects from
          MaxCounted    \* bound: operations counted in a behaviour

ASSUME FormatsAssumption ==
    /\ \A desc \in Formats : Emulated(desc)
    /\ \A desc \in CountedFormats : Within(desc)
    /\ CountedFormats \subseteq [exp_bits : 0..(2^8 - 1), frac_bits : 0..(2^8 - 1)]   \* bytes
    /\ Ints \subseteq Int /\ MaxCounted \in Nat

VARIABLES
    src,      \* the backend number the program starts from, while it has it
    obj,      \* its two objects
    mode,     \* fegetround()
    counting, \* FLEXFLOAT_STATS: constant over a behaviour
    StatsEnabled, op_stats, cast_stats,
    hung,     \* a search went round a full table and does not return
    tally,    \* history: what was executed while counting, since the last clear,
    retyped,  \* but for the casts in place to another format, which are here
    unrounded \* history: the objects that a cast in place left with extra bits

statsVars == <<StatsEnabled, op_stats, cast_stats, hung, tally, retyped>>
flexVars == <<src, obj, mode, counting, statsVars, unrounded>>

Objects == {1, 2}
(* Marks an object not made yet.                                              *)
NoDesc == Desc(0, 0)
Unborn == Object(NaN, NoDesc)
Spent == -1

(* A signalling NaN may lose all of its payload; programs do not make one.    *)
Quiet(v) == IsNaN(v) => FRACTION(v) >= 2^(NUM_BITS_FRAC - 1)
Sources == {v \in Patterns : Quiet(v)}

CastSize == FLEXFLOAT_STATS_MAX_TYPES * FLEXFLOAT_STATS_MAX_TYPES
NoOpStats == EmptyTable(FLEXFLOAT_STATS_MAX_TYPES, NoOps)
NoCastStats == EmptyTable(CastSize, NoCasts)

Executed == tally (+) retyped

Used == IF counting THEN CountedFormats ELSE Formats

-----------------------------------------------------------------------------
(* The counting statement that ends an operation, on the slot of its key. The *)
(* history gets the formats and the counter's name.                           *)
CountOp(desc, name) ==
    LET key == precision_hash(desc)
        size == FLEXFLOAT_STATS_MAX_TYPES
    IN  IF ~counting \/ ~StatsEnabled THEN UNCHANGED statsVars
        ELSE /\ UNCHANGED <<StatsEnabled, cast_stats, retyped>>
             /\ IF Finds(op_stats, key, size)
                THEN /\ op_stats' = Counted(op_stats, key, size, name)
                     /\ tally' = tally (+) SetToBag({<<<<desc, NoDesc>>, name>>})
                     /\ UNCHANGED hung
                ELSE hung' = TRUE /\ UNCHANGED <<op_stats, tally>>

(* The same of a cast; retypes says that it is in place to another format.    *)
CountCast(from, to, retypes) ==
    LET key == precision_hash2(from, to)
    IN  IF ~counting \/ ~StatsEnabled THEN UNCHANGED statsVars
        ELSE /\ UNCHANGED <<StatsEnabled, op_stats>>
             /\ IF Finds(cast_stats, key, CastSize)
                THEN /\ cast_stats' = Counted(cast_stats, key, CastSize, "total")
                     /\ LET cast == SetToBag({<<<<from, to>>, "total">>})
                        IN  IF retypes THEN retyped' = retyped (+) cast /\ UNCHANGED tally
                            ELSE tally' = tally (+) cast /\ UNCHANGED retyped
                     /\ UNCHANGED hung
                ELSE hung' = TRUE /\ UNCHANGED <<cast_stats, tally, retyped>>

Live(o) == obj[o] # Unborn
(* o becomes x; raw says that the value was not brought to the format of x.   *)
Becomes(o, x, raw) ==
    /\ obj' = [obj EXCEPT ![o] = x]
    /\ unrounded' = IF raw /\ ~Fits(x.value, x.desc) THEN unrounded \cup {o}
                    ELSE unrounded \ {o}
Assigned(o, x) == Becomes(o, x, FALSE)
Keeps == UNCHANGED <<src, mode, counting>>

(* The assertion every operation on two objects starts with; one that is not  *)
(* there has no format.                                                       *)
Alike(a, b) == Live(a) /\ obj[a].desc = obj[b].desc

-----------------------------------------------------------------------------
(* ff_init_float to ff_init_float128, of a number the backend holds exactly:  *)
(* the program's first object.                                                *)
Construct(o, desc) ==
    /\ o = 1 /\ src # Spent /\ Assigned(o, ff_init_double(src, desc, mode))
    /\ src' = Spent /\ UNCHANGED <<mode, counting, statsVars>>

ConstructInt(o, n, desc) ==
    /\ ~counting /\ Live(1) /\ Assigned(o, ff_init_int(n, desc, mode))
    /\ Keeps /\ UNCHANGED statsVars

ConstructZero(o, desc) ==
    /\ ~counting /\ Live(1) /\ Assigned(o, ff_init(desc)) /\ Keeps /\ UNCHANGED statsVars

(* flexfloat_set_bits, of an encoding that is not of a denormal: for those it *)
(* stores the number with an implicit one, which is not their value.          *)
SetBits(o, sign, exp, frac, desc) ==
    /\ ~counting /\ Live(1) /\ (exp = 0 => frac = 0) /\ EncodesInInt(desc)
    /\ Assigned(o, flexfloat_set_bits(desc,
                       (sign * 2^desc.exp_bits + exp) * 2^desc.frac_bits + frac))
    /\ Keeps /\ UNCHANGED statsVars

(* The object gets its format before the source's is read. In place the two   *)
(* are one: the value is not rounded, and the cast is counted as from the new *)
(* format.                                                                    *)
Cast(o, source, desc) ==
    LET was == obj[source].desc
        from == IF o = source THEN desc ELSE was
        retypes == from # was
    IN  /\ Live(source)
        /\ Becomes(o, ff_cast(obj[source].value, from, desc, mode),
                   retypes \/ (desc = was /\ source \in unrounded))
        /\ Keeps /\ CountCast(from, desc, retypes)

Negate(o, a) ==
    /\ Alike(o, a) /\ Becomes(o, ff_inverse(obj[a]), a \in unrounded)
    /\ Keeps /\ CountOp(obj[o].desc, "minus")

Add(o, a, b) ==
    /\ Alike(o, a) /\ Alike(a, b) /\ Assigned(o, ff_add(obj[a], obj[b], mode))
    /\ Keeps /\ CountOp(obj[o].desc, "add")

Sub(o, a, b) ==
    /\ Alike(o, a) /\ Alike(a, b) /\ Assigned(o, ff_sub(obj[a], obj[b], mode))
    /\ Keeps /\ CountOp(obj[o].desc, "sub")

Mul(o, a, b) ==
    /\ Alike(o, a) /\ Alike(a, b) /\ Assigned(o, ff_mul(obj[a], obj[b], mode))
    /\ Keeps /\ CountOp(obj[o].desc, "mul")

Div(o, a, b) ==
    /\ Alike(o, a) /\ Alike(a, b) /\ Assigned(o, ff_div(obj[a], obj[b], mode))
    /\ Keeps /\ CountOp(obj[o].desc, "div")

(* ff_acc counts under the same name as ff_inverse.                           *)
Acc(o, a) ==
    /\ Alike(o, a) /\ Assigned(o, ff_add(obj[o], obj[a], mode))
    /\ Keeps /\ CountOp(obj[o].desc, "minus")

(* The six comparisons, which return the backend's.                           *)
Compare(a, b) ==
    /\ Alike(a, b) /\ UNCHANGED <<obj, unrounded>> /\ Keeps /\ CountOp(obj[a].desc, "cmp")

fesetround(m) == ~counting /\ mode' = m /\ UNCHANGED <<src, obj, counting, statsVars, unrounded>>

ff_start_stats ==
    /\ counting /\ StatsEnabled' = TRUE
    /\ Keeps /\ UNCHANGED <<obj, unrounded, op_stats, cast_stats, hung, tally, retyped>>

ff_stop_stats ==
    /\ counting /\ StatsEnabled' = FALSE
    /\ Keeps /\ UNCHANGED <<obj, unrounded, op_stats, cast_stats, hung, tally, retyped>>

ff_clear_stats ==
    /\ counting /\ op_stats' = NoOpStats /\ cast_stats' = NoCastStats
    /\ tally' = EmptyBag /\ retyped' = EmptyBag
    /\ Keeps /\ UNCHANGED <<obj, unrounded, StatsEnabled, hung>>

Computes(o) ==
    \/ \E desc \in Used : Construct(o, desc)
    \/ \E desc \in Used, n \in Ints : ConstructInt(o, n, desc)
    \/ \E desc \in Used : ConstructZero(o, desc)
    \/ \E desc \in Used : \E sign \in {0, 1}, exp \in {0, 1, flexfloat_inf_exp(desc)} :
         SetBits(o, sign, exp, 0, desc)
    \/ \E s \in Objects, desc \in Used : Cast(o, s, desc)
    \/ \E a \in Objects : Negate(o, a)
    \/ \E a, b \in Objects : Add(o, a, b)
    \/ \E a, b \in Objects : Sub(o, a, b)
    \/ \E a, b \in Objects : Mul(o, a, b)
    \/ \E a, b \in Objects : Div(o, a, b)
    \/ \E a \in Objects : Acc(o, a)
    \/ \E b \in Objects : Compare(o, b)

FlexInit ==
    /\ counting \in BOOLEAN /\ mode = "FE_TONEAREST"
    /\ src \in IF counting THEN {NaN} ELSE Sources
    /\ obj = [o \in Objects |-> Unborn]
    /\ StatsEnabled = TRUE /\ op_stats = NoOpStats /\ cast_stats = NoCastStats
    /\ hung = FALSE /\ tally = EmptyBag /\ retyped = EmptyBag /\ unrounded = {}

(* The bound on what is counted.                                              *)
Room == counting /\ StatsEnabled => BagCardinality(Executed) < MaxCounted

FlexNext ==
    \/ ~hung /\ Room /\ \E o \in Objects : Computes(o)
    \/ ~hung /\ \E m \in Modes : fesetround(m)
    \/ ~hung /\ (ff_start_stats \/ ff_stop_stats \/ ff_clear_stats)
    \/ hung /\ UNCHANGED flexVars

FlexSpec == FlexInit /\ [][FlexNext]_flexVars

-----------------------------------------------------------------------------
(* The type invariant: an object, once born, holds a source value in one of   *)
(* the formats in use.                                                        *)
FlexTypeOK ==
    /\ src \in Sources \cup {Spent} /\ mode \in Modes
    /\ counting \in BOOLEAN /\ StatsEnabled \in BOOLEAN /\ hung \in BOOLEAN
    /\ \A o \in Objects : obj[o] = Unborn \/ (obj[o].value \in Sources /\ obj[o].desc \in Used)
    /\ unrounded \subseteq {o \in Objects : Live(o)}

(* Where rounding to a direction works: magnitudes from the smallest normal   *)
(* one of the format up. (Below it, what the shift to a denormal pushes out   *)
(* is lost, and zero is taken for a small number.)                            *)
Directed(n, d, desc) ==
    mode \in {"FE_UPWARD", "FE_DOWNWARD"} => n >= 2^desc.frac_bits * d

(* Where rounding to the nearest goes wrong: all ones, in a binade of         *)
(* denormals. The unit added carries into a binade where the backend has one  *)
(* bit less, and rounds once more.                                            *)
AllOnes(v, desc) ==
    FRACTION(v) = MASK_FRAC_MSB - 1 /\ Magnitude(v) < UnitOf(desc) * 2^desc.frac_bits

\* An object made from any number of the backend type holds the value of its
\* format that the rounding mode asks for (flexfloat.c:181-278): the nearest,
\* ties away from zero, or the neighbour towards zero, denormals and overflow
\* included; the neighbour above or below from the smallest normal value up.
ConversionRounds ==
    src # Spent => \A desc \in Used :
        LET v == ff_init_double(src, desc, mode).value
            n == Magnitude(src)
            d == UnitOf(desc)
        IN  IF IsNaN(src) THEN IsNaN(v)
            ELSE IF IsInf(src) THEN v = src
            ELSE Directed(n, d, desc) /\ ~(mode = "FE_TONEAREST" /\ AllOnes(src, desc)) =>
                     v = Nearest(SIGN(src), n, d, desc, mode)

\* Two objects with values of their format are added, subtracted, multiplied and
\* divided as the format itself would: the exact result rounded once, though
\* the code rounds it in the backend first (flexfloat.c:406-460). Infinities,
\* zeros' signs and NaN are the backend's. A cast in place is the one origin
\* that leaves another value in an object.
ArithmeticRounds ==
    Alike(1, 2) /\ unrounded = {} =>
        LET desc == obj[1].desc
            a == obj[1].value
            b == obj[2].value
            ta == InUnits(a, desc)
            tb == InUnits(b, desc)
            one == 2^(flexfloat_bias(desc) + desc.frac_bits - 1)
            sum == Signed(SIGN(a), ta) + Signed(SIGN(b), tb)
            difference == Signed(SIGN(a), ta) - Signed(SIGN(b), tb)
            Right(x, s, n, d) == Directed(n, d, desc) => x.value = Nearest(s, n, d, desc, mode)
            SignOf(n) == IF n < 0 THEN 1 ELSE 0
        IN  IF ~IsFinite(a) \/ ~IsFinite(b)
            THEN /\ ff_add(obj[1], obj[2], mode).value = Plus(a, b, mode)
                 /\ ff_mul(obj[1], obj[2], mode).value = Times(a, b, mode)
            ELSE /\ sum # 0 => Right(ff_add(obj[1], obj[2], mode), SignOf(sum),
                                     IF sum < 0 THEN -sum ELSE sum, 1)
                 /\ difference # 0 => Right(ff_sub(obj[1], obj[2], mode), SignOf(difference),
                                     IF difference < 0 THEN -difference ELSE difference, 1)
                 /\ Right(ff_mul(obj[1], obj[2], mode), SignOfProduct(a, b), ta * tb, one)
                 /\ tb # 0 => Right(ff_div(obj[1], obj[2], mode), SignOfProduct(a, b), ta * one, tb)

\* However it was made, an object holds a value of its format, but for a cast in
\* place that needed rounding (flexfloat.c:363), its copies and inverses: what
\* bitstring prints (flexfloat.hpp:454-465) is that value's encoding, and writing
\* back the bits read gives it again unless it is a denormal
\* (flexfloat.c:86-107). Rounding it once more, as the C++ class does with its
\* results and the C functions do not (flexfloat.hpp:300, flexfloat.c:399),
\* changes nothing, but for zero in the two directed modes.
ObjectsRepresentable ==
    \A o \in Objects : Live(o) /\ o \notin unrounded =>
        LET v == obj[o].value
            desc == obj[o].desc
            code == Encoding(v, desc)
        IN  /\ ~IsZero(v) \/ mode \in {"FE_TONEAREST", "FE_TOWARDZERO"} =>
                   flexfloat_sanitize(v, desc, mode) = v
            /\ IF IsNaN(v) THEN bitstring(v, desc)[2] = flexfloat_inf_exp(desc)
               ELSE /\ IsFinite(v) => Representing(SIGN(v), InUnits(v, desc), desc) = v
                    /\ bitstring(v, desc) = code
                    /\ EncodesInInt(desc) /\ (code[2] # 0 \/ code[3] = 0) =>
                           flexfloat_pack_bits(desc, flexfloat_get_bits(v, desc)) = v

(* What ff_print_stats prints, and what it should print.                      *)
OpReport == {<<<<KeyDesc(s.key), NoDesc>>, s.value>> : s \in {op_stats[i] : i \in DOMAIN op_stats}}
CastReport == {<<KeyDesc2(s.key), s.value>> : s \in {cast_stats[i] : i \in DOMAIN cast_stats}}
TalliedFor(bag, names) == {t[1] : t \in {x \in BagToSet(bag) : x[2] \in names}}
Counts(bag, what, names) ==
    [n \in names |-> IF BagIn(<<what, n>>, bag) THEN bag[<<what, n>>] ELSE 0]
Lines(bag, names) == {<<w, Counts(bag, w, names)>> : w \in TalliedFor(bag, names)}

\* The statistics count exactly what was executed since they were cleared, by
\* format and operation (ff_acc counts as an inversion), whatever formats share
\* a slot's index: a pair's line counts the casts from the one to the other and,
\* if they are the same, the casts in place to it from any other. A count that
\* does not return means more formats, or pairs of them, than the table has
\* slots (flexfloat.c:535-581).
CountsExact ==
    /\ OpReport \ {<<<<NoDesc, NoDesc>>, NoOps>>} = Lines(Executed, OpNames)
    /\ CastReport \ {<<<<NoDesc, NoDesc>>, NoCasts>>} = Lines(Executed, {"total"})
    /\ hung => \/ Cardinality(TalliedFor(Executed, OpNames)) = FLEXFLOAT_STATS_MAX_TYPES
               \/ Cardinality(TalliedFor(Executed, {"total"})) = CastSize

\* What README.md:49 of the library says of the report: casts are grouped by
\* source and destination. A pair's line counts the casts that were executed
\* from its first format to its second.
CastsByPair == \A line \in CastReport : line[2] = Counts(tally, line[1], {"total"})

\* What the source says of rounding, without the reservations of
\* ConversionRounds: README.md:36 of the library, the mode's rounding to the
\* nearest value; flexfloat.c:125, rounding to an infinity if any discarded bit
\* is 1.
RoundsInEveryMode ==
    src # Spent /\ IsFinite(src) => \A desc \in Used :
        ff_init_double(src, desc, mode).value
            = Nearest(SIGN(src), Magnitude(src), UnitOf(desc), desc, mode)
=============================================================================
