---------------------------- MODULE MCArithmetic ----------------------------
(* The arithmetic of the repository that fits no clocked model: a program on  *)
(* the C functions of the flexfloat library, one on its C++ class, and two    *)
(* signature registers fed alike. A behaviour is of one of them; the others   *)
(* are at rest.                                                               *)
EXTENDS MCFlexFloat, FlexClass, MisrPair

NotANumber == {NaN}

VARIABLE studied

arithmeticVars == <<studied, flexVars, classVars, pairVars>>

PairAtRest == ff_out = Zero(W) /\ suspect = Zero(W) /\ differed = FALSE
FlexAtRest == FlexInit /\ src = 0 /\ ~counting

ArithmeticInit ==
    /\ ClassInit
    /\ \/ studied = "flexfloat" /\ FlexInit /\ PairAtRest
       \/ studied = "class" /\ FlexAtRest /\ PairAtRest
       \/ studied = "misr" /\ FlexAtRest /\ PairInit

ArithmeticNext ==
    /\ UNCHANGED studied
    /\ \/ studied = "flexfloat" /\ FlexNext /\ UNCHANGED <<classVars, pairVars>>
       \/ studied = "class" /\ ClassNext /\ UNCHANGED <<flexVars, pairVars>>
       \/ studied = "misr" /\ PairNext /\ UNCHANGED <<flexVars, classVars>>

ArithmeticSpec == ArithmeticInit /\ [][ArithmeticNext]_arithmeticVars
=============================================================================
