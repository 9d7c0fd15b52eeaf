----------------------------- MODULE FlexClass -----------------------------
(***************************************************************************)
(* A program on the C++ class of the flexfloat library, built with         *)
(* FLEXFLOAT_STATS and the double backend: one object of each type, and    *)
(* every constructor and operator of the class.  An operator computes in   *)
(* the backend and hands its result to the constructor for native numbers, *)
(* which rounds and counts as for any number of the program.               *)
(*                                                                         *)
(* Counters are entries of maps, made when first used.  Values are rounded *)
(* to the nearest; the other modes are FlexProgram's subject.              *)
(***************************************************************************)
EXTENDS FlexFloat, Bags

CONSTANTS Types,       \* the template arguments the program uses
          Operators,   \* the arithmetic operators, and
          Numbers,     \* the numbers of the backend it uses
          MaxWritten   \* bound: statements counted in a behaviour

(* a + b and a += b, and so on.                                               *)
Arithmetic == {"add", "sub", "mul", "div"}
CompoundOf == [add |-> "add=", sub |-> "sub=", mul |-> "mul=", div |-> "div="]

(* get_type_precision: what native types are counted as, widths that no       *)
(* backend of the source leaves room for.                                     *)
IntType == Desc(100, 132)
FloatType == Desc(108, 123)
DoubleType == Desc(111, 152)
NativeTypes == {IntType, FloatType, DoubleType}

ASSUME ClassAssumption ==
    /\ \A type \in Types : Emulated(type) /\ type \notin NativeTypes
    /\ Operators \subseteq Arithmetic /\ Numbers \subseteq Patterns /\ MaxWritten \in Nat

VARIABLES
    value,     \* of the object of each type
    flexfloat_vectorization, flexfloat_stats_enabled,
    stats,     \* the four maps
    written    \* history: what the program did while counting, since the last clear

classVars == <<value, flexfloat_vectorization, flexfloat_stats_enabled, stats, written>>

OpsStats == [n \in Arithmetic \cup {"minus", "cmp"} |-> 0]
CastingStats == [n \in {"total"} |-> 0]
EmptyMap == [key \in {} |-> CastingStats]

(* map[key].name++                                                            *)
Ticked(map, key, entry, name) ==
    [k \in DOMAIN map \cup {key} |->
        LET old == IF k \in DOMAIN map THEN map[k] ELSE entry
        IN  IF k = key THEN [old EXCEPT ![name] = @ + 1] ELSE old]

CountScalar(s, type, name) == [s EXCEPT !.ops = Ticked(@, type, OpsStats, name)]

CountOperation(s, type, name) ==
    IF flexfloat_vectorization THEN [s EXCEPT !.vops = Ticked(@, type, OpsStats, name)]
    ELSE CountScalar(s, type, name)

CountCasting(s, from, to) ==
    IF flexfloat_vectorization
    THEN [s EXCEPT !.vcasting = Ticked(@, <<from, to>>, CastingStats, "total")]
    ELSE [s EXCEPT !.casting = Ticked(@, <<from, to>>, CastingStats, "total")]

(* A statement of the program: a constructor or operator and the assignment   *)
(* of what it returns, which copies.                                          *)
Does(what, from, to, counted) ==
    /\ UNCHANGED <<flexfloat_vectorization, flexfloat_stats_enabled>>
    /\ IF flexfloat_stats_enabled
       THEN /\ BagCardinality(written) < MaxWritten /\ stats' = counted
            /\ written' = written (+) SetToBag({[what |-> what, from |-> from, to |-> to]})
       ELSE UNCHANGED <<stats, written>>

Result(type, v) == value' = [value EXCEPT ![type] = flexfloat_sanitize(v, type, "FE_TONEAREST")]

-----------------------------------------------------------------------------
Declare(type) ==
    /\ value' = [value EXCEPT ![type] = PACK(0, 0, 0)]
    /\ UNCHANGED <<flexfloat_vectorization, flexfloat_stats_enabled, stats, written>>

FromFlexfloat(from, type) ==
    /\ from # type /\ Result(type, value[from])
    /\ Does("cast", from, type, CountCasting(stats, from, type))

(* A number of a native type that the backend holds exactly.                  *)
FromNumber(native, w, type) ==
    /\ Result(type, w)
    /\ Does("cast", native, type, CountCasting(stats, native, type))

UnaryMinus(type) ==
    /\ Result(type, Negated(value[type]))
    /\ Does("minus", type, type,
            CountCasting(CountOperation(stats, type, "minus"), DoubleType, type))

UnaryPlus(type) ==
    /\ Result(type, value[type])
    /\ Does("plus", type, type, CountCasting(stats, DoubleType, type))

Computed(name, a, b) ==
    CASE name = "add" -> Plus(a, b, "FE_TONEAREST") [] name = "sub" -> Minus(a, b, "FE_TONEAREST")
      [] name = "mul" -> Times(a, b, "FE_TONEAREST") [] name = "div" -> Over(a, b, "FE_TONEAREST")

(* a + b and the others, here of an object and itself.                        *)
CountBinary(s, type, name) == CountCasting(CountOperation(s, type, name), DoubleType, type)

Binary(type, name) ==
    /\ Result(type, Computed(name, value[type], value[type]))
    /\ Does(name, type, type, CountBinary(stats, type, name))

(* a += b and the others count, never as vectorised, and then use +.          *)
Compound(type, name) ==
    /\ Result(type, Computed(name, value[type], value[type]))
    /\ Does(CompoundOf[name], type, type, CountBinary(CountScalar(stats, type, name), type, name))

(* The six comparisons, which return the backend's.                           *)
Relational(type) ==
    /\ UNCHANGED value /\ Does("cmp", type, type, CountScalar(stats, type, "cmp"))

-----------------------------------------------------------------------------
Vectorize ==
    /\ flexfloat_vectorization' = ~flexfloat_vectorization
    /\ UNCHANGED <<value, flexfloat_stats_enabled, stats, written>>

flexfloat_start_stats ==
    /\ flexfloat_stats_enabled' = TRUE
    /\ UNCHANGED <<value, flexfloat_vectorization, stats, written>>

flexfloat_stop_stats ==
    /\ flexfloat_stats_enabled' = FALSE
    /\ UNCHANGED <<value, flexfloat_vectorization, stats, written>>

EmptyStats == [ops |-> EmptyMap, vops |-> EmptyMap, casting |-> EmptyMap, vcasting |-> EmptyMap]

(* Mutation: the maps of vectorised operations are not cleared.               *)
flexfloat_clear_stats_scalar ==
    /\ stats' = [stats EXCEPT !.ops = EmptyMap, !.casting = EmptyMap] /\ written' = EmptyBag
    /\ UNCHANGED <<value, flexfloat_vectorization, flexfloat_stats_enabled>>

flexfloat_clear_stats ==
    /\ stats' = EmptyStats /\ written' = EmptyBag
    /\ UNCHANGED <<value, flexfloat_vectorization, flexfloat_stats_enabled>>

ClassInit ==
    /\ value = [type \in Types |-> PACK(0, 0, 0)]
    /\ flexfloat_vectorization = FALSE /\ flexfloat_stats_enabled = FALSE
    /\ stats = EmptyStats
    /\ written = EmptyBag

Statement(type) ==
    \/ Declare(type) \/ UnaryMinus(type) \/ UnaryPlus(type) \/ Relational(type)
    \/ \E from \in Types : FromFlexfloat(from, type)
    \/ \E native \in NativeTypes, w \in Numbers : FromNumber(native, w, type)
    \/ \E name \in Operators : Binary(type, name) \/ Compound(type, name)

ClassNext ==
    \/ \E type \in Types : Statement(type)
    \/ Vectorize \/ flexfloat_start_stats \/ flexfloat_stop_stats \/ flexfloat_clear_stats

ClassSpec == ClassInit /\ [][ClassNext]_classVars

-----------------------------------------------------------------------------
(* What flexfloat_print_stats prints of a type's operations, and of the casts *)
(* between two types, vectorised or not; a line that is missing counts zero.  *)
Entry(map, key, name) == IF key \in DOMAIN map THEN map[key][name] ELSE 0
Reported(name, type) == Entry(stats.ops, type, name) + Entry(stats.vops, type, name)
ReportedCasts(from, to) ==
    Entry(stats.casting, <<from, to>>, "total") + Entry(stats.vcasting, <<from, to>>, "total")

Written(what, from, to) ==
    LET s == [what |-> what, from |-> from, to |-> to]
    IN  IF BagIn(s, written) THEN written[s] ELSE 0

(* Operators that end in the constructor for native numbers, in one type.     *)
Results(type) ==
    LET Of(name) == Written(name, type, type)
    IN  Of("minus") + Of("plus") + Of("add") + Of("sub") + Of("mul") + Of("div")
        + Of("add=") + Of("sub=") + Of("mul=") + Of("div=")

\* However counting is stopped, started, cleared and split between the two kinds
\* of maps, the report says exactly what the program did since it was cleared:
\* each operation once and a compound assignment as two; each conversion once,
\* and each result of an operator as one more conversion from a double
\* (flexfloat.hpp:246-439). The emulated operations can so be told from it.
ClassCountsExact ==
    \A type \in Types :
        /\ \A n \in Arithmetic : Reported(n, type)
               = Written(n, type, type) + 2 * Written(CompoundOf[n], type, type)
        /\ \A n \in {"minus", "cmp"} : Reported(n, type) = Written(n, type, type)
        /\ \A from \in Types \cup {IntType, FloatType} :
               ReportedCasts(from, type) = Written("cast", from, type)
        /\ ReportedCasts(DoubleType, type) = Written("cast", DoubleType, type) + Results(type)
=============================================================================
