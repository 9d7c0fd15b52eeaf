------------------------------ MODULE Backend ------------------------------
(***************************************************************************)
(* The floating-point type the flexfloat library computes in (fp_t), as    *)
(* the machine gives it: an IEEE 754 binary format whose values are bit    *)
(* patterns 0 .. 2^NUM_BITS - 1, and the four rounding modes of fenv.h.    *)
(* The macros are the library's; the arithmetic is the compiler's and the  *)
(* processor's.  The source builds it as float, double or quad; any other  *)
(* pair of widths obeys the same rules.                                    *)
(***************************************************************************)
EXTENDS Integers

CONSTANTS NUM_BITS_EXP, NUM_BITS_FRAC

ASSUME BackendAssumption == NUM_BITS_EXP \in Nat \ {0, 1} /\ NUM_BITS_FRAC \in Nat \ {0}

NUM_BITS == 1 + NUM_BITS_EXP + NUM_BITS_FRAC
INF_EXP == 2^NUM_BITS_EXP - 1
BIAS == 2^(NUM_BITS_EXP - 1) - 1
MASK_FRAC_MSB == 2^NUM_BITS_FRAC
Patterns == 0 .. 2^NUM_BITS - 1

SIGN(a) == a \div 2^(NUM_BITS - 1)
EXPONENT(a) == (a \div MASK_FRAC_MSB) % 2^NUM_BITS_EXP
FRACTION(a) == a % MASK_FRAC_MSB     \* a & MASK_FRAC
Significand(a) == FRACTION(a) + MASK_FRAC_MSB   \* (a & MASK_FRAC) | MASK_FRAC_MSB
PACK(sign, exp, sig) ==
    (sign * 2^(NUM_BITS - 1) + exp * MASK_FRAC_MSB + sig) % 2^NUM_BITS
SMALLEST_NORM(sign) == PACK(sign, 1, 0)

Modes == {"FE_TONEAREST", "FE_UPWARD", "FE_DOWNWARD", "FE_TOWARDZERO"}

-----------------------------------------------------------------------------
(* What a pattern stands for.  Magnitudes are counted in units of the least   *)
(* subnormal: a finite magnitude is Digits(a) * 2^Scale(a).                   *)
Inf(sign) == PACK(sign, INF_EXP, 0)
NaN == PACK(0, INF_EXP, 2^(NUM_BITS_FRAC - 1))
IsNaN(a) == EXPONENT(a) = INF_EXP /\ FRACTION(a) # 0
IsInf(a) == EXPONENT(a) = INF_EXP /\ FRACTION(a) = 0
IsFinite(a) == EXPONENT(a) # INF_EXP
IsZero(a) == EXPONENT(a) = 0 /\ FRACTION(a) = 0

Digits(a) == IF EXPONENT(a) = 0 THEN FRACTION(a) ELSE Significand(a)
Scale(a) == IF EXPONENT(a) = 0 THEN 0 ELSE EXPONENT(a) - 1
Magnitude(a) == Digits(a) * 2^Scale(a)
Signed(sign, m) == IF sign = 1 THEN -m ELSE m

(* The exponent of the unit: 1.0 is 2^OneScale of them.                       *)
OneScale == BIAS + NUM_BITS_FRAC - 1

(* Bits in m, m > 0 (found in tens first, which TLC does in fewer steps).     *)
Length(m) ==
    LET tens == CHOOSE k \in 0..2 : m < 2^(10 * k + 10) /\ 2^(10 * k) <= m
    IN  CHOOSE n \in (10 * tens + 1)..(10 * tens + 10) : m < 2^n /\ 2^(n - 1) <= m

(* Does a magnitude truncated to q, with a remainder of rem in whole, become  *)
(* q + 1?                                                                     *)
RoundsAway(sign, q, rem, whole, mode) ==
    \/ mode = "FE_TONEAREST" /\ (2 * rem > whole \/ (2 * rem = whole /\ q % 2 = 1))
    \/ mode = "FE_UPWARD" /\ sign = 0 /\ rem > 0
    \/ mode = "FE_DOWNWARD" /\ sign = 1 /\ rem > 0

Overflowed(sign, mode) ==
    IF \/ mode = "FE_TONEAREST"
       \/ mode = "FE_UPWARD" /\ sign = 0
       \/ mode = "FE_DOWNWARD" /\ sign = 1
    THEN Inf(sign) ELSE Inf(sign) - 1

(* The value of the format for the real number +-m * 2^k units.               *)
Rounded(sign, m, k, mode) ==
    IF m = 0 THEN PACK(sign, 0, 0)
    ELSE LET excess == Length(m) + k - (NUM_BITS_FRAC + 1)
             scale == IF excess > 0 THEN excess ELSE 0
             drop == IF scale > k THEN scale - k ELSE 0
             q == IF drop = 0 THEN m * 2^(k - scale) ELSE m \div 2^drop
             rem == IF drop = 0 THEN 0 ELSE m % 2^drop
             mag == scale * MASK_FRAC_MSB + q
                    + (IF RoundsAway(sign, q, rem, 2^drop, mode) THEN 1 ELSE 0)
         IN  IF mag >= INF_EXP * MASK_FRAC_MSB THEN Overflowed(sign, mode)
             ELSE PACK(sign, 0, mag)

-----------------------------------------------------------------------------
(* a + b, -a, a - b, a * b, a / b.                                            *)
ExactZeroSign(a, b, mode) ==
    IF SIGN(a) = SIGN(b) THEN SIGN(a) ELSE IF mode = "FE_DOWNWARD" THEN 1 ELSE 0

Plus(a, b, mode) ==
    LET sum == Signed(SIGN(a), Magnitude(a)) + Signed(SIGN(b), Magnitude(b))
    IN  IF IsNaN(a) \/ IsNaN(b) \/ (IsInf(a) /\ IsInf(b) /\ a # b) THEN NaN
        ELSE IF IsInf(a) THEN a
        ELSE IF IsInf(b) THEN b
        ELSE IF sum = 0 THEN PACK(ExactZeroSign(a, b, mode), 0, 0)
        ELSE IF sum > 0 THEN Rounded(0, sum, 0, mode)
        ELSE Rounded(1, -sum, 0, mode)

(* The sign of a NaN means nothing, and operations leave it alone here.       *)
Negated(a) == IF IsNaN(a) THEN a ELSE (a + 2^(NUM_BITS - 1)) % 2^NUM_BITS
Minus(a, b, mode) == Plus(a, Negated(b), mode)

SignOfProduct(a, b) == (SIGN(a) + SIGN(b)) % 2

Times(a, b, mode) ==
    LET sign == SignOfProduct(a, b)
    IN  IF \/ IsNaN(a) \/ IsNaN(b)
           \/ (IsInf(a) /\ IsZero(b)) \/ (IsZero(a) /\ IsInf(b)) THEN NaN
        ELSE IF IsInf(a) \/ IsInf(b) THEN Inf(sign)
        ELSE Rounded(sign, Digits(a) * Digits(b), Scale(a) + Scale(b) - OneScale, mode)

(* Enough quotient bits, and one that says whether anything is left over.     *)
QuotientBits == 2 * NUM_BITS_FRAC + 4

Over(a, b, mode) ==
    LET sign == SignOfProduct(a, b)
        n == Digits(a) * 2^QuotientBits
        quotient == 2 * (n \div Digits(b)) + (IF n % Digits(b) = 0 THEN 0 ELSE 1)
    IN  IF \/ IsNaN(a) \/ IsNaN(b)
           \/ (IsInf(a) /\ IsInf(b)) \/ (IsZero(a) /\ IsZero(b)) THEN NaN
        ELSE IF IsInf(a) \/ IsZero(b) THEN Inf(sign)
        ELSE IF IsZero(a) \/ IsInf(b) THEN PACK(sign, 0, 0)
        ELSE Rounded(sign, quotient, Scale(a) - Scale(b) - QuotientBits - 1 + OneScale, mode)

(* (fp_t) n for an integer n, and the conversion of a pattern of this format  *)
(* to one that starts from it unchanged.                                      *)
FromInt(n, mode) ==
    IF n < 0 THEN Rounded(1, -n, OneScale, mode) ELSE Rounded(0, n, OneScale, mode)
=============================================================================
