--------------------------- MODULE MCLoadStoreUnit ---------------------------
(* Two words of memory whose eight bytes differ in value and alternate in      *)
(* sign, and every load and store that starts in the first of them.            *)
EXTENDS LoadStoreUnit

TwoWords == 0..1

(* Byte n of memory; odd ones are negative.                                    *)
DistinctMem ==
    [w \in TwoWords |-> [i \in Lane |-> 4 * w + i + (IF i % 2 = 1 THEN 128 ELSE 16)]]

Reg == [i \in Lane |-> 64 + i]

(* Extension makes no difference to words (type 0).                            *)
Loads == {a \in [we : {FALSE}, type : 0..2, sext : 0..1, word : {0}, off : Lane, wdata : {NoWord}] :
             a.type = 0 => a.sext = 0}
Stores == [we : {TRUE}, type : 0..2, sext : {0}, word : {0}, off : Lane, wdata : {Reg}]
AllAccesses == Loads \cup Stores
=============================================================================
