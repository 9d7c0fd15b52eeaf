----------------------------- MODULE FlexFloat -----------------------------
(***************************************************************************)
(* The flexfloat library: a number of a narrow format, described by desc   *)
(* (exp_bits and frac_bits), is kept as a value of the backend type that   *)
(* the format can represent.  Every operation computes in the backend and  *)
(* then sanitizes its result: rounds it to the format, by bit operations   *)
(* on the backend's pattern and one backend addition.                      *)
(***************************************************************************)
EXTENDS Backend, FiniteSetsExt

Desc(e, f) == [exp_bits |-> e, frac_bits |-> f]

flexfloat_inf_exp(desc) == 2^desc.exp_bits - 1
flexfloat_bias(desc) == 2^(desc.exp_bits - 1) - 1

(* Bits of the backend's fraction that the format does not have.              *)
Dropped(desc) == NUM_BITS_FRAC - desc.frac_bits

(* The formats the library can emulate: an exponent field narrower than the   *)
(* backend's, and a smallest denormal above the backend's smallest normal     *)
(* value, which stands for zero while it is rounded. In the three backends of *)
(* the source every narrower exponent field leaves this room.                 *)
Emulated(desc) ==
    /\ desc.exp_bits \in 2..(NUM_BITS_EXP - 1) /\ desc.frac_bits \in 1..(NUM_BITS_FRAC - 1)
    /\ BIAS - flexfloat_bias(desc) > desc.frac_bits + 1

(* Formats that a number of the backend can be given at all.                  *)
Within(desc) == desc.exp_bits \in 1..NUM_BITS_EXP /\ desc.frac_bits \in 0..NUM_BITS_FRAC

flexfloat_exp(v, desc) ==
    IF EXPONENT(v) \in {0, INF_EXP} THEN EXPONENT(v)
    ELSE EXPONENT(v) - BIAS + flexfloat_bias(desc)

flexfloat_frac(v, desc) == FRACTION(v) \div 2^Dropped(desc)

(* The fraction of a denormal of the format, with its leading one in place.   *)
flexfloat_denorm_frac(v, desc, exp) ==
    LET shift == Dropped(desc) - exp + 1
    IN  IF EXPONENT(v) = 0 THEN flexfloat_frac(v, desc)
        ELSE IF shift >= NUM_BITS THEN 0
        ELSE Significand(v) \div 2^shift

(* Mutation: infinity keeps the exponent it has in the narrow format.         *)
flexfloat_pack_finite(desc, sign, exp, frac) ==
    PACK(sign, exp - flexfloat_bias(desc) + BIAS, frac * 2^Dropped(desc))

flexfloat_pack(desc, sign, exp, frac) ==
    PACK(sign, IF exp = flexfloat_inf_exp(desc) THEN INF_EXP
               ELSE exp - flexfloat_bias(desc) + BIAS,
         frac * 2^Dropped(desc))

flexfloat_denorm_pack(desc, sign, frac) == PACK(sign, 0, frac * 2^Dropped(desc))

-----------------------------------------------------------------------------
(* The encoding of the format itself. The code makes a field's mask from an   *)
(* int and shifts the sign as one: in 31 bits or more that is not defined.    *)
EncodesInInt(desc) == desc.exp_bits + desc.frac_bits < 31

flexfloat_pack_bits(desc, bits) ==
    LET sign == (bits \div 2^(desc.exp_bits + desc.frac_bits)) % 2
        exp == (bits \div 2^desc.frac_bits) % 2^desc.exp_bits
        frac == bits % 2^desc.frac_bits
    IN  IF exp = 0 /\ frac = 0 THEN PACK(sign, 0, 0)
        ELSE flexfloat_pack(desc, sign, exp, frac)

flexfloat_get_bits(v, desc) ==
    LET exp == flexfloat_exp(v, desc)
    IN  SIGN(v) * 2^(desc.exp_bits + desc.frac_bits)
        + (IF exp = INF_EXP THEN flexfloat_inf_exp(desc) ELSE exp) * 2^desc.frac_bits
        + flexfloat_frac(v, desc)

(* The three fields that bitstring prints; an exponent is cut to its width.   *)
bitstring(v, desc) ==
    LET exp == flexfloat_exp(v, desc)
    IN  <<SIGN(v),
          IF exp <= 0 THEN 0 ELSE exp % 2^desc.exp_bits,
          IF exp <= 0 THEN flexfloat_denorm_frac(v, desc, exp)
          ELSE flexfloat_frac(v, desc)>>

-----------------------------------------------------------------------------
(* Rounding. A denormal of the format is first shifted to where its fraction  *)
(* would be; what the shift pushes out is not looked at.                      *)
Denormalised(v, exp) ==
    LET shift == 1 - exp IN IF shift < NUM_BITS THEN Significand(v) \div 2^shift ELSE 0

IsDenormal(v, exp) == exp <= 0 /\ EXPONENT(v) # 0

Half(n, desc) == (n \div 2^(Dropped(desc) - 1)) % 2 = 1

(* Mutation: the shift of a denormal is forgotten.                            *)
flexfloat_nearest_rounding_normal(v, desc, exp) == Half(v, desc)

flexfloat_nearest_rounding(v, desc, exp) ==
    Half(IF IsDenormal(v, exp) THEN Denormalised(v, exp) ELSE v, desc)

(* plus: towards +infinity, otherwise towards -infinity.                      *)
flexfloat_inf_rounding(v, desc, exp, plus) ==
    LET denorm == Denormalised(v, exp)
    IN  /\ plus <=> SIGN(v) = 0
        /\ IF IsDenormal(v, exp)
           THEN denorm % 2^Dropped(desc) # 0 \/ (FRACTION(denorm) = 0 /\ v # 0)
           ELSE v % 2^Dropped(desc) # 0

(* A unit in the last place of the format, as a value of the backend.         *)
flexfloat_rounding_value(v, desc, exp) ==
    IF EXPONENT(v) = 0 THEN flexfloat_denorm_pack(desc, SIGN(v), 1)
    ELSE flexfloat_pack(desc, SIGN(v),
                        IF exp <= 0 THEN 1 - desc.frac_bits ELSE exp - desc.frac_bits, 0)

RoundsUp(v, desc, exp, mode) ==
    \/ mode = "FE_TONEAREST" /\ flexfloat_nearest_rounding(v, desc, exp)
    \/ mode = "FE_UPWARD" /\ flexfloat_inf_rounding(v, desc, exp, TRUE)
    \/ mode = "FE_DOWNWARD" /\ flexfloat_inf_rounding(v, desc, exp, FALSE)

(* flexfloat_sanitize in its three steps. Zero and the backend's denormals    *)
(* become its smallest normal value;                                          *)
Normalised(v, desc) ==
    IF EXPONENT(v) = 0 /\ desc.exp_bits < NUM_BITS_EXP THEN SMALLEST_NORM(SIGN(v)) ELSE v

(* then a unit is added if the mode asks for it, in the backend;              *)
Incremented(v, desc, mode) ==
    LET exp == flexfloat_exp(v, desc)
    IN  IF exp # INF_EXP /\ desc.frac_bits # NUM_BITS_FRAC /\ RoundsUp(v, desc, exp, mode)
        THEN Plus(v, flexfloat_rounding_value(v, desc, exp), mode)
        ELSE v

(* The multiple of 2^shift at or below n.                                     *)
MultipleBelow(n, shift) == (n \div 2^shift) * 2^shift

(* and what the format cannot hold is cut off.                                *)
Truncated(sign, v, desc) ==
    LET exp == flexfloat_exp(v, desc)
        frac == flexfloat_frac(v, desc)
        inf_exp == flexfloat_inf_exp(desc)
        shift == 1 - exp
    IN  IF EXPONENT(v) = 0 THEN v
        ELSE IF exp <= 0
        THEN IF flexfloat_denorm_frac(v, desc, exp) = 0 THEN PACK(sign, 0, 0)
             ELSE flexfloat_pack(desc, sign, exp,
                      IF desc.frac_bits = NUM_BITS_FRAC THEN frac
                      ELSE IF shift < NUM_BITS_FRAC THEN MultipleBelow(frac, shift) ELSE 0)
        ELSE IF exp = INF_EXP THEN flexfloat_pack(desc, sign, inf_exp, frac)
        ELSE IF exp >= inf_exp THEN flexfloat_pack(desc, sign, inf_exp, 0)
        ELSE flexfloat_pack(desc, sign, exp, frac)

flexfloat_sanitize(v, desc, mode) ==
    IF desc = Desc(NUM_BITS_EXP, NUM_BITS_FRAC) THEN v
    ELSE Truncated(SIGN(v), Incremented(Normalised(v, desc), desc, mode), desc)

-----------------------------------------------------------------------------
(* The operations on objects.                                                 *)
Object(v, desc) == [value |-> v, desc |-> desc]
Sanitized(v, desc, mode) == Object(flexfloat_sanitize(v, desc, mode), desc)

ff_init(desc) == Object(PACK(0, 0, 0), desc)
ff_init_double(value, desc, mode) == Sanitized(value, desc, mode)
ff_init_int(value, desc, mode) == Sanitized(FromInt(value, mode), desc, mode)
flexfloat_set_bits(desc, bits) == Object(flexfloat_pack_bits(desc, bits), desc)

(* from is the format the comparison finds in the source of the value.        *)
ff_cast(value, from, desc, mode) ==
    IF desc = from THEN Object(value, desc) ELSE Sanitized(value, desc, mode)

ff_inverse(a) == Object(Negated(a.value), a.desc)
ff_add(a, b, mode) == Sanitized(Plus(a.value, b.value, mode), a.desc, mode)

(* Mutation: the difference is not brought back to the format.                *)
ff_sub_raw(a, b, mode) == Object(Minus(a.value, b.value, mode), a.desc)

ff_sub(a, b, mode) == Sanitized(Minus(a.value, b.value, mode), a.desc, mode)
ff_mul(a, b, mode) == Sanitized(Times(a.value, b.value, mode), a.desc, mode)
ff_div(a, b, mode) == Sanitized(Over(a.value, b.value, mode), a.desc, mode)

-----------------------------------------------------------------------------
(* What the format promises, computed on its own values and not on patterns.  *)
(* Magnitudes are counted in units of the format's smallest denormal.         *)
UnitOf(desc) == 2^(BIAS - flexfloat_bias(desc) + Dropped(desc))
Normals(desc) ==
    {(2^desc.frac_bits + j) * 2^(exp - 1) :
        j \in 0..(2^desc.frac_bits - 1), exp \in 1..(flexfloat_inf_exp(desc) - 1)}
Magnitudes(desc) == 0..(2^desc.frac_bits - 1) \cup Normals(desc)
(* The first magnitude the format does not have, which is infinity.           *)
Top(desc) == 2^desc.frac_bits * 2^(flexfloat_inf_exp(desc) - 1)

(* The value of the format with this sign and magnitude.                      *)
Representing(sign, t, desc) ==
    IF t = Top(desc) THEN Inf(sign) ELSE Rounded(sign, t * UnitOf(desc), 0, "FE_TOWARDZERO")

InUnits(v, desc) == Magnitude(v) \div UnitOf(desc)

(* The format has this number as it is.                                       *)
Fits(v, desc) ==
    \/ FRACTION(v) % 2^Dropped(desc) = 0 /\ ~IsFinite(v)
    \/ /\ IsFinite(v) /\ Magnitude(v) % UnitOf(desc) = 0
       /\ InUnits(v, desc) \in Magnitudes(desc)

(* The value the mode asks for, for the real number +-n/d: the neighbour on   *)
(* the asked side, or the nearest one, and of two the one away from zero.     *)
Nearest(sign, n, d, desc, mode) ==
    LET candidates == Magnitudes(desc) \cup {Top(desc)}
        below == Max({t \in candidates : t * d <= n})
        above == IF n >= Top(desc) * d THEN Top(desc)
                 ELSE Min({t \in candidates : t * d >= n})
        outward == \/ mode = "FE_TONEAREST" /\ above * d - n <= n - below * d
                   \/ mode = "FE_UPWARD" /\ sign = 0
                   \/ mode = "FE_DOWNWARD" /\ sign = 1
    IN  Representing(sign, IF outward THEN above ELSE below, desc)

(* The encoding of a value in the format's own exponent and fraction.         *)
Encoding(v, desc) ==
    LET t == InUnits(v, desc)
        exp == CHOOSE x \in 1..flexfloat_inf_exp(desc) : 2^desc.frac_bits <= t \div 2^(x - 1)
                                                       /\ t \div 2^(x - 1) < 2^(desc.frac_bits + 1)
    IN  IF IsInf(v) THEN <<SIGN(v), flexfloat_inf_exp(desc), 0>>
        ELSE IF t < 2^desc.frac_bits THEN <<SIGN(v), 0, t>>
        ELSE <<SIGN(v), exp, t \div 2^(exp - 1) - 2^desc.frac_bits>>
=============================================================================
