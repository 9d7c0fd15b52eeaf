----------------------------- MODULE FlexStats -----------------------------
(***************************************************************************)
(* The counters of the flexfloat library: open-addressing tables of a      *)
(* fixed size, one for operations by format and one for casts by pair of   *)
(* formats.  A key is made of the widths; key 0 marks a free slot.         *)
(***************************************************************************)
EXTENDS Integers, FiniteSetsExt

CONSTANT FLEXFLOAT_STATS_MAX_TYPES

ASSUME MaxTypesAssumption == FLEXFLOAT_STATS_MAX_TYPES \in Nat \ {0}

OpNames == {"minus", "add", "sub", "mul", "div", "cmp"}
NoOps == [n \in OpNames |-> 0]
NoCasts == [n \in {"total"} |-> 0]

Free == 0
(* A fresh table; blank is what malloc and memset give a new slot's value.    *)
EmptyTable(size, blank) == [i \in 0..(size - 1) |-> [key |-> Free, value |-> blank]]

precision_hash(desc) == desc.exp_bits + 2^8 * desc.frac_bits

precision_hash2(desc1, desc2) == precision_hash(desc1) + 2^16 * precision_hash(desc2)

(* The formats a key names, as ff_print_stats takes them from its bytes.      *)
KeyDesc(key) == [exp_bits |-> key % 2^8, frac_bits |-> (key \div 2^8) % 2^8]
KeyDesc2(key) == <<KeyDesc(key % 2^16), KeyDesc(key \div 2^16)>>

(* Mutation: a search stops at the first slot it looks at.                    *)
Stops_first(table, key, size) == {0}

(* How many slots past its own the search for a key may stop: at the key or   *)
(* at a free slot. It looks at them in turn, round and round; with neither in *)
(* the table it never returns.                                                *)
Stops(table, key, size) ==
    {k \in 0..(size - 1) : table[(key + k) % size].key \in {key, Free}}

(* ht_search, then ht_insert of a zeroed value if the key is not there: both  *)
(* stop at the same slot.                                                     *)
Finds(table, key, size) == Stops(table, key, size) # {}
SlotOf(table, key, size) == (key + Min(Stops(table, key, size))) % size
Counted(table, key, size, name) ==
    LET i == SlotOf(table, key, size)
        counters == table[i].value
    IN  [table EXCEPT ![i] = [key |-> key, value |-> [counters EXCEPT ![name] = @ + 1]]]
=============================================================================
