------------------------------ MODULE DataLanes ------------------------------
(* The byte lanes of the load-store unit (src/rtl/riscv_load_store_unit.sv):   *)
(* which bytes of a memory word an access enables, where its store data sits,  *)
(* and how the bytes of a load are put together; beside them, what a program   *)
(* means by a load and a store, which says nothing of words or lanes.          *)
(*                                                                             *)
(* An address is a word number and an offset in that word: <<w, o>> stands     *)
(* for 4*w + o, so the second half of a misaligned access, at the address      *)
(* plus 4, is at <<w + 1, o>>.                                                 *)
EXTENDS Integers

Lane == 0..3
Byte == 0..255
MemWord == [Lane -> Byte]

(* data_type_ex_i: word, half word, and the two codes of a byte.               *)
WordType == 0
HalfType == 1
Size(type) == IF type = WordType THEN 4 ELSE IF type = HalfType THEN 2 ELSE 1

(* data_misaligned_o, for a request that is not itself a second half.          *)
Crosses(type, off) ==
    \/ type = WordType /\ off # 0
    \/ type = HalfType /\ off = 3

(* data_be: the lanes an access enables in its (first) word, and those the     *)
(* second part of a misaligned one enables in the next.                        *)
FirstLanes(type, off) ==
    IF type = WordType THEN off..3
    ELSE IF type = HalfType THEN {off, off + 1} \cap Lane
    ELSE {off}

(* Mutation: the second part of a misaligned word enables every byte.          *)
SecondLanes_whole(type, off) ==
    IF type = WordType THEN Lane ELSE IF type = HalfType THEN {0} ELSE {off}

SecondLanes(type, off) ==
    IF type = WordType THEN 0..(off - 1) ELSE IF type = HalfType THEN {0} ELSE {off}

(* data_wdata: the register rotated up by the offset (the decoder always gives *)
(* a register offset of 0).                                                    *)
data_wdata(reg, off) ==
    [i \in Lane |-> IF i >= off THEN reg[i - off] ELSE reg[4 + i - off]]

(* What fills the lanes above a loaded half word or byte whose last byte is b: *)
(* data_sign_ext_q is 0 for zeroes, 2 for ones (boxing), else the sign of b.   *)
Filler(sext, b) ==
    IF sext = 0 THEN 0
    ELSE IF sext = 2 THEN 255
    ELSE IF b >= 128 THEN 255 ELSE 0

(* The bytes of a load counted from its address: those of the kept word while  *)
(* the access is still in it, then those of the word just read. An access that *)
(* does not cross a word boundary has all its bytes in the word just read.     *)
Assembled(type, off, kept, read) ==
    [i \in Lane |-> IF off + i > 3 THEN read[off + i - 4]
                    ELSE IF Crosses(type, off) THEN kept[off + i]
                    ELSE read[off + i]]

(* Mutation: the sign is always that of the lowest byte.                       *)
data_rdata_ext_low(type, off, sext, kept, read) ==
    LET bytes == Assembled(type, off, kept, read)
    IN  [i \in Lane |-> IF i < Size(type) THEN bytes[i]
                        ELSE Filler(sext, bytes[0])]

(* data_rdata_ext: the assembled bytes, extended.                              *)
data_rdata_ext(type, off, sext, kept, read) ==
    LET bytes == Assembled(type, off, kept, read)
    IN  [i \in Lane |-> IF i < Size(type) THEN bytes[i]
                        ELSE Filler(sext, bytes[Size(type) - 1])]

(* The memory: a write changes the enabled lanes of one word.                  *)
WriteLanes(m, w, be, data) ==
    [m EXCEPT ![w] = [i \in Lane |-> IF i \in be THEN data[i] ELSE m[w][i]]]

-----------------------------------------------------------------------------
(* What a program means. The byte of memory m that lies i bytes after <<w, o>>.*)
ByteAt(m, w, o, i) == IF o + i > 3 THEN m[w + 1][o + i - 4] ELSE m[w][o + i]

(* A load: the Size(type) bytes from the address up, extended.                 *)
Loaded(m, type, w, o, sext) ==
    [i \in Lane |-> IF i < Size(type) THEN ByteAt(m, w, o, i)
                    ELSE Filler(sext, ByteAt(m, w, o, Size(type) - 1))]

(* A store: byte i of the register to the address plus i, all else unchanged.  *)
(* distance is how far lane i of word v is above the address.                  *)
Stored(m, type, w, o, reg) ==
    [v \in DOMAIN m |->
        [i \in Lane |->
            LET distance == 4 * (v - w) + i - o
            IN  IF distance \in 0..(Size(type) - 1) THEN reg[distance]
                ELSE m[v][i]]]
=============================================================================
