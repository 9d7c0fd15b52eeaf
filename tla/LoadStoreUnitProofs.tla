------------------------- MODULE LoadStoreUnitProofs -------------------------
(* What TLC checks of the load-store unit with two words and three accesses,   *)
(* for any memory, any set of accesses and any number of them: stores and the  *)
(* handshakes whether or not the EX stage may be held while an access is in    *)
(* it, loads in the core, where it is not.                                     *)
EXTENDS LoadStoreUnit, TLAPS

-----------------------------------------------------------------------------
(* Lanes. A load that stays in one word is assembled from the word just read,  *)
(* whatever was kept.                                                          *)
LEMMA WithinWord ==
    ASSUME NEW m, NEW type \in 0..3, NEW w, NEW o \in Lane, NEW sext, NEW kept,
           ~Crosses(type, o)
    PROVE  data_rdata_ext(type, o, sext, kept, m[w]) = Loaded(m, type, w, o, sext)
<1>1. \A i \in Lane : i < Size(type) => o + i <= 3
  BY DEF Crosses, Size, WordType, HalfType, Lane
<1>2. \A i \in Lane : i < Size(type) =>
          Assembled(type, o, kept, m[w])[i] = ByteAt(m, w, o, i)
  BY <1>1 DEF Assembled, ByteAt, Lane
<1>3. Size(type) - 1 \in Lane /\ Size(type) - 1 < Size(type)
  BY DEF Size, Lane
<1> QED
  BY <1>2, <1>3 DEF data_rdata_ext, Loaded

(* A load that crosses into the next word is assembled from both.              *)
LEMMA AcrossWords ==
    ASSUME NEW m, NEW type \in 0..3, NEW w, NEW o \in Lane, NEW sext,
           Crosses(type, o)
    PROVE  data_rdata_ext(type, o, sext, m[w], m[w + 1]) = Loaded(m, type, w, o, sext)
<1>1. \A i \in Lane :
          Assembled(type, o, m[w], m[w + 1])[i] = ByteAt(m, w, o, i)
  BY DEF Assembled, ByteAt, Lane
<1>2. Size(type) - 1 \in Lane
  BY DEF Size, Lane
<1> QED
  BY <1>1, <1>2 DEF data_rdata_ext, Loaded

(* The lanes of a load are bytes.                                              *)
LEMMA LoadType ==
    ASSUME NEW type \in 0..3, NEW o \in Lane, NEW sext \in 0..2,
           NEW kept \in MemWord, NEW read \in MemWord
    PROVE  data_rdata_ext(type, o, sext, kept, read) \in MemWord
<1>1. \A i \in Lane : Assembled(type, o, kept, read)[i] \in Byte
  BY DEF Assembled, MemWord, Lane
<1>2. Size(type) - 1 \in Lane
  BY DEF Size, Lane
<1>3. \A b \in Byte : Filler(sext, b) \in Byte
  BY DEF Filler, Byte
<1> QED
  BY <1>1, <1>2, <1>3 DEF data_rdata_ext, MemWord

\* What a store puts on the bus is a word.
LEMMA StoreDataType ==
    ASSUME NEW reg \in MemWord, NEW o \in Lane
    PROVE  data_wdata(reg, o) \in MemWord
  BY DEF data_wdata, MemWord, Lane

\* A partial write leaves a memory of words.
LEMMA WriteType ==
    ASSUME NEW m \in [Words -> MemWord], NEW w \in Words, NEW be,
           NEW data \in MemWord
    PROVE  WriteLanes(m, w, be, data) \in [Words -> MemWord]
<1>1. [i \in Lane |-> IF i \in be THEN data[i] ELSE m[w][i]] \in MemWord
  BY DEF MemWord
<1> QED
  BY <1>1 DEF WriteLanes

(* The enabled lanes of either half: those less than Size(type) above the      *)
(* address.                                                                    *)
LEMMA FirstEnabled ==
    ASSUME NEW type \in 0..3, NEW o \in Lane, NEW i \in Lane
    PROVE  i \in FirstLanes(type, o) <=> o <= i /\ i < o + Size(type)
<1>1. CASE type = WordType
  BY <1>1 DEF FirstLanes, Size, Lane
<1>2. CASE type = HalfType
  <2>1. FirstLanes(type, o) = {o, o + 1} \cap Lane /\ Size(type) = 2
    BY <1>2 DEF FirstLanes, Size, WordType, HalfType
  <2>2. i \in FirstLanes(type, o) <=> i = o \/ i = o + 1
    BY <2>1
  <2> QED
    BY <2>1, <2>2 DEF Lane
<1>3. CASE type # WordType /\ type # HalfType
  BY <1>3 DEF FirstLanes, Size, Lane
<1> QED
  BY <1>1, <1>2, <1>3

\* The byte enables of the second half.
LEMMA SecondEnabled ==
    ASSUME NEW type \in 0..3, NEW o \in Lane, NEW i \in Lane, Crosses(type, o)
    PROVE  i \in SecondLanes(type, o) <=> 4 + i < o + Size(type)
<1>1. CASE type = WordType
  BY <1>1 DEF SecondLanes, Size, Lane
<1>2. CASE type = HalfType
  BY <1>2 DEF SecondLanes, Size, Lane, WordType, HalfType, Crosses
<1> QED
  BY <1>1, <1>2 DEF Crosses

(* A size, and how far an access that does not cross can reach.                *)
LEMMA Sizes ==
    ASSUME NEW type \in 0..3, NEW o \in Lane
    PROVE  /\ Size(type) \in 1..4
           /\ ~Crosses(type, o) => o + Size(type) <= 4
  BY DEF Size, Lane, Crosses, WordType, HalfType

(* A store that stays in one word writes what the program means in one go.     *)
LEMMA WriteWithin ==
    ASSUME NEW m \in [Words -> MemWord], NEW type \in 0..3, NEW w \in Words,
           NEW o \in Lane, NEW reg, ~Crosses(type, o)
    PROVE  WriteLanes(m, w, FirstLanes(type, o), data_wdata(reg, o))
               = Stored(m, type, w, o, reg)
<1>1. Words \subseteq Int
  BY MemAssumption
<1> DEFINE be == FirstLanes(type, o)
           written == WriteLanes(m, w, be, data_wdata(reg, o))
           meant == Stored(m, type, w, o, reg)
<1>2. \A v \in Words, i \in Lane :
          4 * (v - w) + i - o \in 0..(Size(type) - 1) <=> v = w /\ i \in be
  BY <1>1, FirstEnabled, Sizes DEF Lane
<1>3. \A i \in Lane : i \in be => data_wdata(reg, o)[i] = reg[4 * (w - w) + i - o]
  <2>1. \A i \in Lane : i \in be => i >= o
    BY FirstEnabled
  <2>2. \A i \in Lane : 4 * (w - w) + i - o = i - o
    BY <1>1 DEF Lane
  <2> QED
    BY <2>1, <2>2 DEF data_wdata
<1>4. \A v \in Words : written[v] = meant[v]
  <2> SUFFICES ASSUME NEW v \in Words
               PROVE  written[v] = meant[v]
    OBVIOUS
  <2>1. m[v] = [i \in Lane |-> m[v][i]]
    BY DEF MemWord
  <2>2. meant[v] = [i \in Lane |-> IF v = w /\ i \in be
                                   THEN reg[4 * (v - w) + i - o] ELSE m[v][i]]
    BY <1>2 DEF Stored
  <2>3. written[v] = [i \in Lane |-> IF v = w /\ i \in be
                                     THEN data_wdata(reg, o)[i] ELSE m[v][i]]
    BY <2>1 DEF WriteLanes
  <2> QED
    BY <1>3, <2>2, <2>3
<1> QED
  BY <1>4 DEF WriteLanes, Stored

(* The first half of a store that crosses writes its part of what is meant.    *)
LEMMA WritePartly ==
    ASSUME NEW m \in [Words -> MemWord], NEW type \in 0..3, NEW w \in Words,
           NEW o \in Lane, NEW reg, Crosses(type, o)
    PROVE  \A v \in Words, i \in Lane :
               WriteLanes(m, w, FirstLanes(type, o), data_wdata(reg, o))[v][i]
                   = IF v = w THEN Stored(m, type, w, o, reg)[v][i] ELSE m[v][i]
<1>1. Words \subseteq Int
  BY MemAssumption
<1> DEFINE be == FirstLanes(type, o)
<1>2. \A i \in Lane : 4 * (w - w) + i - o = i - o
  BY <1>1 DEF Lane
<1>3. \A i \in Lane : i - o \in 0..(Size(type) - 1) <=> i \in be
  BY FirstEnabled, Sizes DEF Lane
<1>4. \A i \in Lane : i \in be => data_wdata(reg, o)[i] = reg[i - o]
  BY FirstEnabled DEF data_wdata
<1>5. \A i \in Lane : Stored(m, type, w, o, reg)[w][i]
                          = IF i \in be THEN reg[i - o] ELSE m[w][i]
  BY <1>2, <1>3 DEF Stored
<1>6. \A v \in Words, i \in Lane :
          WriteLanes(m, w, be, data_wdata(reg, o))[v][i]
              = IF v = w THEN IF i \in be THEN data_wdata(reg, o)[i] ELSE m[w][i]
                ELSE m[v][i]
  BY DEF WriteLanes
<1> QED
  BY <1>4, <1>5, <1>6

(* Its second half writes the rest.                                            *)
LEMMA WriteAcross ==
    ASSUME NEW m \in [Words -> MemWord], NEW type \in 0..3, NEW w \in Words,
           w + 1 \in Words, NEW o \in Lane, NEW reg \in MemWord, Crosses(type, o)
    PROVE  WriteLanes(WriteLanes(m, w, FirstLanes(type, o), data_wdata(reg, o)),
                      w + 1, SecondLanes(type, o), data_wdata(reg, o))
               = Stored(m, type, w, o, reg)
<1>1. Words \subseteq Int
  BY MemAssumption
<1> DEFINE data == data_wdata(reg, o)
           half == WriteLanes(m, w, FirstLanes(type, o), data)
           be == SecondLanes(type, o)
           whole == WriteLanes(half, w + 1, be, data)
           meant == Stored(m, type, w, o, reg)
<1>2. half \in [Words -> MemWord]
  BY WriteType, StoreDataType
<1>3. \A v \in Words, i \in Lane : v = w + 1 => 4 * (v - w) + i - o = 4 + i - o
  BY <1>1 DEF Lane
<1>4. \A i \in Lane : 4 + i - o \in 0..(Size(type) - 1) <=> i \in be
  BY SecondEnabled, Sizes DEF Lane
<1>5. \A i \in Lane : i \in be => data[i] = reg[4 + i - o]
  <2>1. \A i \in Lane : i \in be => i < o
    BY SecondEnabled, Sizes DEF Lane
  <2> QED
    BY <2>1 DEF data_wdata, Lane
<1>6. \A v \in Words, i \in Lane : v = w + 1 =>
          meant[v][i] = IF i \in be THEN reg[4 + i - o] ELSE m[v][i]
  <2>1. \A v \in Words, i \in Lane :
            meant[v][i] = IF 4 * (v - w) + i - o \in 0..(Size(type) - 1)
                          THEN reg[4 * (v - w) + i - o] ELSE m[v][i]
    BY DEF Stored
  <2> HIDE DEF meant, be
  <2> QED
    BY <1>3, <1>4, <2>1
<1>7. \A v \in Words, i \in Lane : v # w /\ v # w + 1 =>
          ~(4 * (v - w) + i - o \in 0..(Size(type) - 1))
  BY <1>1 DEF Size, Lane
<1>8. \A v \in Words, i \in Lane : v # w /\ v # w + 1 => meant[v][i] = m[v][i]
  BY <1>7 DEF Stored
<1>9. w # w + 1
  BY <1>1
<1>10. \A v \in Words, i \in Lane :
          half[v][i] = IF v = w THEN meant[v][i] ELSE m[v][i]
  BY WritePartly
<1>11. \A v \in Words, i \in Lane :
          whole[v][i] = IF v = w + 1 THEN IF i \in be THEN data[i] ELSE half[v][i]
                        ELSE half[v][i]
  BY DEF WriteLanes
<1>12. \A v \in Words, i \in Lane : whole[v][i] = meant[v][i]
  <2> SUFFICES ASSUME NEW v \in Words, NEW i \in Lane
               PROVE  whole[v][i] = meant[v][i]
    OBVIOUS
  <2> HIDE DEF half, whole, meant, data, be
  <2>1. CASE v = w
    BY <1>9, <1>10, <1>11, <2>1
  <2>2. CASE v = w + 1
    <3>1. whole[v][i] = IF i \in be THEN data[i] ELSE half[v][i]
      BY <1>11, <2>2
    <3>2. half[v][i] = m[v][i]
      BY <1>9, <1>10, <2>2
    <3> QED
      BY <1>5, <1>6, <2>2, <3>1, <3>2
  <2>3. CASE v # w /\ v # w + 1
    BY <1>8, <1>10, <1>11, <2>3
  <2> QED
    BY <2>1, <2>2, <2>3
<1>13. \A v \in Words : whole[v] = [i \in Lane |-> whole[v][i]]
  <2>1. whole \in [Words -> MemWord]
    BY <1>2, WriteType, StoreDataType
  <2> QED
    BY <2>1 DEF MemWord
<1>14. \A v \in Words : meant[v] = [i \in Lane |-> meant[v][i]]
  BY DEF Stored
<1>15. \A v \in Words : whole[v] = meant[v]
  BY <1>12, <1>13, <1>14
<1>16. whole = [v \in Words |-> whole[v]]
  BY <1>2 DEF WriteLanes
<1>17. meant = [v \in Words |-> meant[v]]
  BY DEF Stored
<1> QED
  BY <1>15, <1>16, <1>17

(* What a program loads and stores is made of bytes.                           *)
LEMMA LoadedType ==
    ASSUME NEW m \in [Words -> MemWord], NEW a \in Access
    PROVE  Loaded(m, a.type, a.word, a.off, a.sext) \in MemWord
<1>1. /\ a.type \in 0..3 /\ a.off \in Lane /\ a.sext \in 0..2
      /\ m[a.word] \in MemWord
      /\ Crosses(a.type, a.off) => m[a.word + 1] \in MemWord
  BY AccessAssumption DEF IsAccess
<1>2. CASE Crosses(a.type, a.off)
  <2>1. data_rdata_ext(a.type, a.off, a.sext, m[a.word], m[a.word + 1]) \in MemWord
    BY <1>1, <1>2, LoadType
  <2> QED
    BY <1>1, <1>2, <2>1, AcrossWords
<1>3. CASE ~Crosses(a.type, a.off)
  <2>1. data_rdata_ext(a.type, a.off, a.sext, m[a.word], m[a.word]) \in MemWord
    BY <1>1, LoadType
  <2> QED
    BY <1>1, <1>3, <2>1, WithinWord
<1> QED
  BY <1>2, <1>3

\* A whole store leaves a memory of words.
LEMMA StoredType ==
    ASSUME NEW m \in [Words -> MemWord], NEW a \in Access
    PROVE  Stored(m, a.type, a.word, a.off, a.wdata) \in [Words -> MemWord]
<1> DEFINE data == data_wdata(a.wdata, a.off)
           half == WriteLanes(m, a.word, FirstLanes(a.type, a.off), data)
<1>1. /\ a.type \in 0..3 /\ a.off \in Lane /\ a.wdata \in MemWord
      /\ a.word \in Words
      /\ Crosses(a.type, a.off) => a.word + 1 \in Words
  BY AccessAssumption DEF IsAccess
<1>2. data \in MemWord
  BY <1>1, StoreDataType
<1>3. half \in [Words -> MemWord]
  BY <1>1, <1>2, WriteType
<1>4. CASE Crosses(a.type, a.off)
  <2>1. WriteLanes(half, a.word + 1, SecondLanes(a.type, a.off), data) \in [Words -> MemWord]
    BY <1>1, <1>2, <1>3, <1>4, WriteType
  <2> QED
    BY <1>1, <1>4, <2>1, WriteAcross
<1>5. CASE ~Crosses(a.type, a.off)
  BY <1>1, <1>3, <1>5, WriteWithin
<1> QED
  BY <1>4, <1>5

(* The don't-cares of an empty EX stage, the reset values and no answer have    *)
(* the types of their registers.                                               *)
LEMMA NothingType == NoAccess \in [req : BOOLEAN, acc : Access, word : Words,
                                   misaligned : BOOLEAN, granted : BOOLEAN]
<1>1. AnyAccess \in Access
  BY AccessNonEmpty DEF AnyAccess
<1>2. AnyAccess.word \in Words
  BY <1>1, AccessAssumption DEF IsAccess
<1> QED
  BY <1>1, <1>2 DEF NoAccess

\* The idle values of the registers have their types.
LEMMA NoWordType == NoWord \in MemWord
  BY DEF NoWord, MemWord, Byte

\* The latches reset to values of their types.
LEMMA ResetType == ResetLatch \in [type : 0..3, off : Lane, sext : 0..2, we : BOOLEAN]
  BY DEF ResetLatch, Lane

\* No answer owed is a state of the memory port.
LEMMA NoAnswerType == NoAnswer \in [due : BOOLEAN, word : MemWord]
  BY NoWordType DEF NoAnswer

-----------------------------------------------------------------------------
(* What the ID stage has is no access, or one that has not begun.              *)
LEMMA UpcomingType ==
    ASSUME issued \in 0..MaxAccesses, NEW next \in Upcoming
    PROVE  /\ next \in [req : BOOLEAN, acc : Access, word : Words, misaligned : BOOLEAN,
                        granted : BOOLEAN]
           /\ next.word = next.acc.word /\ ~next.misaligned /\ ~next.granted
           /\ next.req => issued < MaxAccesses
<1>1. CASE next = NoAccess
  BY <1>1, NothingType DEF NoAccess
<1>2. CASE next \in {Arriving(b) : b \in Access} /\ issued < MaxAccesses
  <2>1. PICK b \in Access : next = Arriving(b)
    BY <1>2
  <2>2. b.word \in Words
    BY AccessAssumption DEF IsAccess
  <2> QED
    BY <1>2, <2>1, <2>2 DEF Arriving
<1>3. CASE next \notin {NoAccess}
  <2>1. issued < IF stalls THEN MaxStalled ELSE MaxAccesses
    BY <1>3 DEF Upcoming
  <2>2. issued < MaxAccesses
    BY <2>1, BoundAssumption
  <2> QED
    BY <1>2, <1>3, <2>2 DEF Upcoming
<1> QED
  BY <1>1, <1>3

(* An edge: what is in EX is granted only while it has not been, and moves on  *)
(* only when it has; the unit waits from the grant to the answer, and stalls   *)
(* from a grant on which the EX stage stays to the edge on which it moves. v   *)
(* is whether the EX stage moves on, and g whether what was in it is granted.  *)
LEMMA BusEdge ==
    ASSUME TypeOK, OneOutstanding, GrantedOnce, HalfInPlace,
           NEW rvalid \in BOOLEAN, NEW gnt \in BOOLEAN, NEW ready \in BOOLEAN,
           NEW next, Edge(rvalid, gnt, ready, next),
           NEW v \in BOOLEAN, v <=> ex_valid(rvalid, gnt, ready),
           NEW g \in BOOLEAN, g <=> ex.granted \/ gnt
    PROVE  /\ gnt => ex.req /\ ~ex.granted
           /\ ex.req /\ v => g
           /\ v => ~(CS = "WAIT_RVALID" /\ ~rvalid)
           /\ rvalid => answer.due
           /\ CS' \in States
           /\ Waiting' <=> gnt \/ (Waiting /\ ~rvalid)
           /\ CS' \in {"WAIT_RVALID_EX_STALL", "IDLE_EX_STALL"} <=>
                 ~v /\ (gnt \/ CS \in {"WAIT_RVALID_EX_STALL", "IDLE_EX_STALL"})
           /\ ex' = IF ~v THEN [ex EXCEPT !.granted = g]
                    ELSE IF data_misaligned
                         THEN [ex EXCEPT !.word = ex.word + 1, !.misaligned = TRUE,
                                         !.granted = FALSE]
                    ELSE next
           /\ answer' = IF gnt THEN [due |-> TRUE, word |-> mem[ex.word]]
                        ELSE IF rvalid THEN NoAnswer ELSE answer
<1> DEFINE stalled == {"WAIT_RVALID_EX_STALL", "IDLE_EX_STALL"}
<1>1. v <=> /\ ready
            /\ ex.req /\ (CS = "IDLE" \/ (CS = "WAIT_RVALID" /\ rvalid)) => gnt
            /\ CS = "WAIT_RVALID" => rvalid
  BY DEF ex_valid, lsu_ready_ex, lsu_ready_wb, data_req
<1>2. gnt => ex.req /\ (CS = "IDLE" \/ (CS = "WAIT_RVALID" /\ rvalid))
  BY DEF Edge, data_req
<1>3. rvalid => answer.due
  BY DEF Edge
<1>4. CS \in States /\ (CS \in {"WAIT_RVALID", "WAIT_RVALID_EX_STALL"} <=> answer.due)
  BY DEF TypeOK, OneOutstanding, Waiting
<1>5. ex.req => (ex.granted <=> CS \in stalled)
  BY DEF GrantedOnce
<1>6. ex.req /\ v => g
  BY <1>1, <1>4, <1>5 DEF States
<1>7. /\ CS' \in States
      /\ CS' \in {"WAIT_RVALID", "WAIT_RVALID_EX_STALL"} <=>
            gnt \/ (CS \in {"WAIT_RVALID", "WAIT_RVALID_EX_STALL"} /\ ~rvalid)
      /\ CS' \in stalled <=> ~v /\ (gnt \/ CS \in stalled)
  <2>1. \/ CS = "IDLE" /\ CS' = IF gnt THEN (IF v THEN "WAIT_RVALID" ELSE "WAIT_RVALID_EX_STALL")
                                ELSE "IDLE"
        \/ CS = "WAIT_RVALID" /\ ~rvalid /\ CS' = CS
        \/ CS = "WAIT_RVALID" /\ rvalid
              /\ CS' = IF gnt THEN (IF v THEN "WAIT_RVALID" ELSE "WAIT_RVALID_EX_STALL")
                       ELSE "IDLE"
        \/ CS = "WAIT_RVALID_EX_STALL" /\ ~rvalid /\ CS' = IF v THEN "WAIT_RVALID" ELSE CS
        \/ CS = "WAIT_RVALID_EX_STALL" /\ rvalid /\ CS' = IF v THEN "IDLE" ELSE "IDLE_EX_STALL"
        \/ CS = "IDLE_EX_STALL" /\ CS' = IF v THEN "IDLE" ELSE CS
    BY DEF Edge, Idle, Unanswered, Answered, StalledUnanswered, StalledAnswered,
           StalledDone, AfterGrant
  <2> QED
    BY <1>1, <1>2, <1>3, <1>4, <2>1 DEF States
<1>8. ex' = IF ~v THEN [ex EXCEPT !.granted = g]
            ELSE IF data_misaligned
                 THEN [ex EXCEPT !.word = ex.word + 1, !.misaligned = TRUE,
                                 !.granted = FALSE]
            ELSE next
  <2>1. (ex.granted \/ gnt) = g
    BY DEF TypeOK
  <2> QED
    BY <2>1 DEF Edge, Advance
<1>9. answer' = IF gnt THEN [due |-> TRUE, word |-> mem[ex.word]]
                ELSE IF rvalid THEN NoAnswer ELSE answer
  BY DEF Edge, Memory
<1>10. v => ~(CS = "WAIT_RVALID" /\ ~rvalid)
  BY <1>1
<1>11. gnt => ex.req /\ ~ex.granted
  BY <1>2, <1>5
<1> QED
  BY <1>3, <1>6, <1>7, <1>8, <1>9, <1>10, <1>11 DEF Waiting

(* What an edge does to memory: it then has what has been granted of the store *)
(* in EX, this grant included.                                                 *)
LEMMA MemoryEdge ==
    ASSUME BusInv, NEW rvalid, NEW gnt \in BOOLEAN, Memory(rvalid, gnt),
           gnt => ex.req /\ ~ex.granted,
           NEW g \in BOOLEAN, g <=> ex.granted \/ gnt
    PROVE  LET a == ex.acc
           IN  mem' = IF ~a.we \/ ~(g \/ ex.misaligned) THEN spec
                      ELSE IF g /\ ~data_misaligned
                      THEN Stored(spec, a.type, a.word, a.off, a.wdata)
                      ELSE WriteLanes(spec, a.word, FirstLanes(a.type, a.off),
                                      data_wdata(a.wdata, a.off))
<1> DEFINE a == ex.acc
           data == data_wdata(a.wdata, a.off)
           half == WriteLanes(spec, a.word, FirstLanes(a.type, a.off), data)
<1>1. /\ a \in Access /\ IsAccess(a) /\ spec \in [Words -> MemWord]
  BY AccessAssumption DEF BusInv, TypeOK
<1>2. /\ a.type \in 0..3 /\ a.word \in Words /\ a.off \in Lane /\ a.wdata \in MemWord
      /\ Crosses(a.type, a.off) => a.word + 1 \in Words
  BY <1>1 DEF IsAccess
<1>3. /\ ex.word = IF ex.misaligned THEN a.word + 1 ELSE a.word
      /\ ex.misaligned => Crosses(a.type, a.off)
  BY DEF BusInv, HalfInPlace
<1>4. mem = IF ~a.we \/ ~(ex.granted \/ ex.misaligned) THEN spec
            ELSE IF ex.granted /\ ~data_misaligned
            THEN Stored(spec, a.type, a.word, a.off, a.wdata) ELSE half
  BY DEF BusInv, StoreInMemory
<1>5. mem' = IF gnt /\ a.we
             THEN WriteLanes(mem, ex.word,
                             IF ex.misaligned THEN SecondLanes(a.type, a.off)
                             ELSE FirstLanes(a.type, a.off), data)
             ELSE mem
  BY DEF Memory
<1>6. CASE ~gnt \/ ~a.we
  BY <1>4, <1>5, <1>6
<1>7. CASE gnt /\ a.we /\ ex.misaligned
  <2>1. mem' = WriteLanes(half, a.word + 1, SecondLanes(a.type, a.off), data)
    BY <1>3, <1>4, <1>5, <1>7
  <2>2. mem' = Stored(spec, a.type, a.word, a.off, a.wdata)
    BY <1>1, <1>2, <1>3, <1>7, <2>1, WriteAcross
  <2> QED
    BY <1>7, <2>2 DEF data_misaligned
<1>8. CASE gnt /\ a.we /\ ~ex.misaligned
  <2>1. mem' = half
    BY <1>3, <1>4, <1>5, <1>8
  <2>2. ~data_misaligned => half = Stored(spec, a.type, a.word, a.off, a.wdata)
    BY <1>1, <1>2, <1>8, WriteWithin DEF data_misaligned
  <2> QED
    BY <1>8, <2>1, <2>2
<1> QED
  BY <1>6, <1>7, <1>8

(* The types of an edge.                                                       *)
LEMMA EdgeType ==
    ASSUME TypeOK, HalfInPlace,
           NEW rvalid \in BOOLEAN, NEW gnt \in BOOLEAN, NEW ready \in BOOLEAN,
           NEW next \in Upcoming, Edge(rvalid, gnt, ready, next),
           CS' \in States,
           ex' \in [req : BOOLEAN, acc : Access, word : Words, misaligned : BOOLEAN,
                    granted : BOOLEAN]
    PROVE  TypeOK'
<1> DEFINE a == ex.acc
           data == data_wdata(a.wdata, a.off)
           shown == data_rdata_ext(q.type, q.off, q.sext, rdata_q, answer.word)
<1>1. a \in Access /\ IsAccess(a) /\ ex.word \in Words
  BY AccessAssumption DEF TypeOK
<1>2. shown \in MemWord /\ data \in MemWord
  BY <1>1, LoadType, StoreDataType DEF TypeOK, IsAccess
<1>3. q' \in [type : 0..3, off : Lane, sext : 0..2, we : BOOLEAN]
  BY <1>1 DEF Edge, Latch, TypeOK, IsAccess
<1>4. rdata_q' \in MemWord /\ rd' \in MemWord
  BY <1>2 DEF Edge, KeepAnswer, Writeback, data_rdata_ex, TypeOK
<1>5. regfile_we_lsu' \in BOOLEAN
  BY DEF Edge, Writeback, TypeOK
<1>6. answer' \in [due : BOOLEAN, word : MemWord]
  <2>1. answer' = IF gnt THEN [due |-> TRUE, word |-> mem[ex.word]]
                  ELSE IF rvalid THEN NoAnswer ELSE answer
    BY DEF Edge, Memory
  <2> QED
    BY <1>1, <2>1, NoAnswerType DEF TypeOK
<1>7. mem' \in [Words -> MemWord]
  BY <1>1, <1>2, WriteType DEF Edge, Memory, TypeOK
<1>8. spec' \in [Words -> MemWord]
  BY <1>1, StoredType DEF Edge, Monitor, TypeOK
<1>9. want' \subseteq MemWord
  <2>1. Loaded(spec, a.type, a.word, a.off, a.sext) \in MemWord
    BY <1>1, LoadedType DEF TypeOK
  <2> QED
    BY <2>1 DEF Edge, Monitor, TypeOK
<1>10. owed' \subseteq MemWord
  BY DEF Edge, Monitor, TypeOK
<1>11. issued' \in 0..MaxAccesses
  <2>1. issued \in 0..MaxAccesses
    BY DEF TypeOK
  <2>2. next.req => issued < MaxAccesses
    BY <2>1, UpcomingType
  <2> QED
    BY <2>1, <2>2, BoundAssumption DEF Edge
<1>12. stalls' \in BOOLEAN
  BY DEF Edge, TypeOK
<1> QED
  BY <1>3, <1>4, <1>5, <1>6, <1>7, <1>8, <1>9, <1>10, <1>11, <1>12 DEF TypeOK

(* Every edge keeps the first part of the invariant, by what becomes of the    *)
(* access in EX: it stays, goes on with its second half, or makes way.         *)
LEMMA BusStep ==
    ASSUME BusInv, Clock
    PROVE  BusInv'
<1>1. PICK rvalid \in BOOLEAN, gnt \in BOOLEAN, ready \in BOOLEAN, next \in Upcoming :
          Edge(rvalid, gnt, ready, next)
  BY DEF Clock
<1>2. TypeOK /\ OneOutstanding /\ GrantedOnce /\ HalfInPlace
  BY DEF BusInv
<1>3. PICK v \in BOOLEAN : v <=> ex_valid(rvalid, gnt, ready)
  <2>1. ex_valid(rvalid, gnt, ready) \in BOOLEAN
    BY DEF ex_valid
  <2> QED
    BY <2>1
<1>4. PICK g \in BOOLEAN : g <=> ex.granted \/ gnt
  BY <1>2 DEF TypeOK
<1> DEFINE a == ex.acc
           stalled == {"WAIT_RVALID_EX_STALL", "IDLE_EX_STALL"}
           half == WriteLanes(spec, a.word, FirstLanes(a.type, a.off),
                              data_wdata(a.wdata, a.off))
           stored == Stored(spec, a.type, a.word, a.off, a.wdata)
<1>5. /\ gnt => ex.req /\ ~ex.granted
      /\ ex.req /\ v => g
      /\ CS' \in States
      /\ Waiting' <=> gnt \/ (Waiting /\ ~rvalid)
      /\ CS' \in stalled <=> ~v /\ (gnt \/ CS \in stalled)
      /\ rvalid => answer.due
  BY <1>1, <1>2, <1>3, <1>4, BusEdge
<1>6. ex' = IF ~v THEN [ex EXCEPT !.granted = g]
            ELSE IF data_misaligned
                 THEN [ex EXCEPT !.word = ex.word + 1, !.misaligned = TRUE,
                                 !.granted = FALSE]
            ELSE next
  BY <1>1, <1>2, <1>3, <1>4, BusEdge
<1>7. answer' = IF gnt THEN [due |-> TRUE, word |-> mem[ex.word]]
                ELSE IF rvalid THEN NoAnswer ELSE answer
  BY <1>1, <1>2, <1>3, <1>4, BusEdge
<1>8. /\ next \in [req : BOOLEAN, acc : Access, word : Words, misaligned : BOOLEAN,
                   granted : BOOLEAN]
      /\ next.word = next.acc.word /\ ~next.misaligned /\ ~next.granted
  BY <1>2, UpcomingType DEF TypeOK
<1>9. mem' = IF ~a.we \/ ~(g \/ ex.misaligned) THEN spec
             ELSE IF g /\ ~data_misaligned THEN stored ELSE half
  <2>1. Memory(rvalid, gnt)
    BY <1>1 DEF Edge
  <2> QED
    BY <1>4, <1>5, <2>1, MemoryEdge
<1>10. spec' = IF v /\ ex.req /\ a.we /\ ~data_misaligned THEN stored ELSE spec
  BY <1>1, <1>3 DEF Edge, Monitor
<1>11. /\ ex.word = IF ex.misaligned THEN a.word + 1 ELSE a.word
       /\ ex.misaligned => Crosses(a.type, a.off)
       /\ ex.misaligned \/ ex.granted => ex.req
       /\ data_misaligned <=> ex.req /\ ~ex.misaligned /\ Crosses(a.type, a.off)
  BY <1>2 DEF HalfInPlace, data_misaligned
<1>12. ex \in [req : BOOLEAN, acc : Access, word : Words, misaligned : BOOLEAN,
               granted : BOOLEAN]
  BY <1>2 DEF TypeOK
<1>13. OneOutstanding'
  <2>1. answer'.due <=> gnt \/ (answer.due /\ ~rvalid)
    BY <1>2, <1>7 DEF NoAnswer, TypeOK
  <2> QED
    BY <1>2, <1>5, <2>1 DEF OneOutstanding
<1>14. /\ ex' \in [req : BOOLEAN, acc : Access, word : Words, misaligned : BOOLEAN,
                   granted : BOOLEAN]
       /\ GrantedOnce' /\ HalfInPlace' /\ StoreInMemory'
  <2>1. CASE ~v
    <3>1. /\ ex' = [ex EXCEPT !.granted = g]
          /\ ex'.req = ex.req /\ ex'.acc = a /\ ex'.word = ex.word
          /\ ex'.misaligned = ex.misaligned /\ ex'.granted = g
      BY <1>6, <1>12, <2>1
    <3>2. GrantedOnce'
      BY <1>2, <1>4, <1>5, <2>1, <3>1 DEF GrantedOnce
    <3>3. HalfInPlace'
      BY <1>4, <1>5, <1>11, <3>1 DEF HalfInPlace
    <3>4. spec' = spec /\ (data_misaligned' <=> data_misaligned)
      BY <1>10, <2>1, <3>1 DEF data_misaligned
    <3>5. StoreInMemory'
      BY <1>9, <3>1, <3>4 DEF StoreInMemory
    <3> QED
      BY <1>12, <3>1, <3>2, <3>3, <3>5
  <2>2. CASE v /\ data_misaligned
    <3>1. /\ ex' = [ex EXCEPT !.word = ex.word + 1, !.misaligned = TRUE, !.granted = FALSE]
          /\ ex'.req = ex.req /\ ex'.acc = a /\ ex'.word = ex.word + 1
          /\ ex'.misaligned = TRUE /\ ex'.granted = FALSE
      BY <1>6, <1>12, <2>2
    <3>2. ex.word + 1 \in Words
      <4>1. IsAccess(a)
        BY <1>12, AccessAssumption
      <4> QED
        BY <1>11, <2>2, <4>1 DEF IsAccess
    <3>3. GrantedOnce' /\ HalfInPlace'
      BY <1>5, <1>11, <2>2, <3>1 DEF GrantedOnce, HalfInPlace
    <3>4. spec' = spec /\ mem' = IF a.we THEN half ELSE spec
      BY <1>5, <1>9, <1>10, <1>11, <2>2
    <3>5. StoreInMemory'
      BY <3>1, <3>4 DEF StoreInMemory
    <3> QED
      BY <1>12, <3>1, <3>2, <3>3, <3>5
  <2>3. CASE v /\ ~data_misaligned
    <3>1. ex' = next
      BY <1>6, <2>3
    <3>2. GrantedOnce' /\ HalfInPlace'
      BY <1>5, <1>8, <2>3, <3>1 DEF GrantedOnce, HalfInPlace
    <3>3. mem' = spec'
      BY <1>4, <1>5, <1>9, <1>10, <1>11, <2>3
    <3>4. StoreInMemory'
      BY <1>8, <3>1, <3>3 DEF StoreInMemory
    <3> QED
      BY <1>8, <3>1, <3>2, <3>4
  <2> QED
    BY <2>1, <2>2, <2>3
<1>15. TypeOK'
  BY <1>1, <1>2, <1>5, <1>14, EdgeType
<1> QED
  BY <1>13, <1>14, <1>15 DEF BusInv

-----------------------------------------------------------------------------
(* Loads, in the core. An edge there: an access in EX moves on exactly when it *)
(* is granted, and a grant comes when nothing is outstanding, or with its      *)
(* answer.                                                                     *)
LEMMA CoreEdge ==
    ASSUME BusInv, NeverStalled, ~stalls,
           NEW rvalid \in BOOLEAN, NEW gnt \in BOOLEAN, NEW ready \in BOOLEAN,
           NEW next, Edge(rvalid, gnt, ready, next),
           NEW v \in BOOLEAN, v <=> ex_valid(rvalid, gnt, ready)
    PROVE  /\ gnt <=> ex.req /\ v
           /\ v /\ CS = "WAIT_RVALID" => rvalid
           /\ rvalid => answer.due
           /\ NeverStalled'
           /\ ex' = IF ~v THEN ex
                    ELSE IF data_misaligned
                         THEN [ex EXCEPT !.word = ex.word + 1, !.misaligned = TRUE,
                                         !.granted = FALSE]
                    ELSE next
           /\ answer' = IF gnt THEN [due |-> TRUE, word |-> mem[ex.word]]
                        ELSE IF rvalid THEN NoAnswer ELSE answer
<1>1. TypeOK /\ OneOutstanding /\ GrantedOnce /\ HalfInPlace
  BY DEF BusInv
<1>2. ex.granted = FALSE
  BY <1>1 DEF GrantedOnce, HalfInPlace, NeverStalled, TypeOK
<1>3. gnt <=> ex.granted \/ gnt
  BY <1>2
<1>4. /\ gnt => ex.req
      /\ ex.req /\ v => gnt
      /\ v => ~(CS = "WAIT_RVALID" /\ ~rvalid)
      /\ rvalid => answer.due
      /\ CS' \in States
      /\ CS' \in {"WAIT_RVALID_EX_STALL", "IDLE_EX_STALL"} <=>
            ~v /\ (gnt \/ CS \in {"WAIT_RVALID_EX_STALL", "IDLE_EX_STALL"})
      /\ ex' = IF ~v THEN [ex EXCEPT !.granted = gnt]
               ELSE IF data_misaligned
                    THEN [ex EXCEPT !.word = ex.word + 1, !.misaligned = TRUE,
                                    !.granted = FALSE]
               ELSE next
      /\ answer' = IF gnt THEN [due |-> TRUE, word |-> mem[ex.word]]
                   ELSE IF rvalid THEN NoAnswer ELSE answer
  BY <1>1, <1>3, BusEdge
<1>5. gnt => v
  BY DEF Edge, data_req, ex_valid, lsu_ready_ex, lsu_ready_wb
<1>6. ~v => [ex EXCEPT !.granted = gnt] = ex
  <2>1. ~v => [ex EXCEPT !.granted = gnt] = [ex EXCEPT !.granted = FALSE]
    BY <1>5
  <2>2. [ex EXCEPT !.granted = FALSE] = ex
    BY <1>1, <1>2 DEF TypeOK
  <2> QED
    BY <2>1, <2>2
<1>7. NeverStalled'
  BY <1>4, <1>5 DEF NeverStalled, States
<1> QED
  BY <1>4, <1>5, <1>6, <1>7

(* The three ways an edge treats the access in EX: its first half is granted,  *)
(* its last is, or none is. Each conjunct is kept by each.                     *)
LEMMA CoreStep ==
    ASSUME BusInv, Coherent, ~stalls, Clock
    PROVE  Coherent'
<1>1. PICK rvalid \in BOOLEAN, gnt \in BOOLEAN, ready \in BOOLEAN, next \in Upcoming :
          Edge(rvalid, gnt, ready, next)
  BY DEF Clock
<1> DEFINE a == ex.acc
           data == data_wdata(a.wdata, a.off)
           shown == data_rdata_ext(q.type, q.off, q.sext, rdata_q, answer.word)
<1>2. PICK v \in BOOLEAN : v <=> ex_valid(rvalid, gnt, ready)
  <2>1. ex_valid(rvalid, gnt, ready) \in BOOLEAN
    BY DEF ex_valid
  <2> QED
    BY <2>1
<1>inv. /\ TypeOK /\ OneOutstanding /\ HalfInPlace /\ StoreInMemory
        /\ NeverStalled /\ FirstHalfKept /\ WritebackInStep /\ LoadsReturnBytes
  BY DEF BusInv, Coherent
<1>a. /\ a \in Access /\ IsAccess(a)
      /\ CS \in {"IDLE", "WAIT_RVALID"} /\ (CS = "WAIT_RVALID" <=> answer.due)
  BY <1>inv, AccessAssumption DEF TypeOK, NeverStalled, OneOutstanding, Waiting
<1>e. /\ gnt => ex.req /\ v
      /\ ex.req /\ v => gnt
      /\ v /\ CS = "WAIT_RVALID" => rvalid
      /\ rvalid => answer.due
      /\ NeverStalled'
  BY <1>1, <1>2, <1>inv, CoreEdge
<1>ex. ex' = IF ~v THEN ex
             ELSE IF data_misaligned
                  THEN [ex EXCEPT !.word = ex.word + 1, !.misaligned = TRUE,
                                  !.granted = FALSE]
             ELSE next
  BY <1>1, <1>2, <1>inv, CoreEdge
<1>answer. answer' = IF gnt THEN [due |-> TRUE, word |-> mem[ex.word]]
                     ELSE IF rvalid THEN NoAnswer ELSE answer
  BY <1>1, <1>2, <1>inv, CoreEdge
<1>wb. regfile_we_lsu' = IF v THEN ex.req /\ ~a.we
                         ELSE regfile_we_lsu /\ CS = "WAIT_RVALID" /\ ~rvalid
  BY <1>1, <1>2, <1>inv DEF Edge, Writeback, lsu_ready_wb, TypeOK
<1>spec. spec' = IF gnt /\ a.we /\ ~data_misaligned
                 THEN Stored(spec, a.type, a.word, a.off, a.wdata) ELSE spec
  BY <1>1, <1>2, <1>e DEF Edge, Monitor
<1>want. want' = IF v
                 THEN IF ex.req /\ ~a.we /\ ~data_misaligned
                      THEN {Loaded(spec, a.type, a.word, a.off, a.sext)} ELSE {}
                 ELSE IF CS = "WAIT_RVALID" /\ ~rvalid THEN want ELSE {}
  BY <1>1, <1>2 DEF Edge, Monitor, lsu_ready_wb
<1>owed. owed' = IF ~regfile_we_lsu THEN owed
                 ELSE IF CS = "WAIT_RVALID" /\ ~rvalid THEN {} ELSE want
  BY <1>1 DEF Edge, Monitor, lsu_ready_wb
<1>q. q' = IF gnt THEN [type |-> a.type, off |-> a.off, sext |-> a.sext, we |-> a.we]
           ELSE q
  BY <1>1 DEF Edge, Latch
<1>rdata. rdata_q' = IF rvalid /\ ~q.we
                     THEN IF ex.misaligned \/ data_misaligned THEN answer.word ELSE shown
                     ELSE rdata_q
  BY <1>1 DEF Edge, KeepAnswer, data_rdata_ex
<1>rd. rd' = IF regfile_we_lsu THEN IF rvalid THEN shown ELSE rdata_q ELSE rd
  BY <1>1 DEF Edge, Writeback, data_rdata_ex
<1>n. ~next.misaligned
  BY <1>inv, UpcomingType DEF TypeOK
<1>loads. ~a.we => mem = spec
  BY <1>inv DEF StoreInMemory
<1> HIDE DEF shown, data
<1>dm. data_misaligned <=> ex.req /\ ~ex.misaligned /\ Crosses(a.type, a.off)
  BY DEF data_misaligned
<1>half. /\ ex.word = IF ex.misaligned THEN a.word + 1 ELSE a.word
         /\ ex.misaligned => ex.req /\ Crosses(a.type, a.off)
  BY <1>inv DEF HalfInPlace
<1>moved. v /\ data_misaligned => ex'.misaligned /\ ex'.acc = a
  BY <1>ex, <1>inv DEF TypeOK
<1>7. FirstHalfKept'
  <2> SUFFICES ASSUME ex'.misaligned, ~ex'.acc.we
               PROVE  IF answer'.due THEN ~q'.we /\ answer'.word = spec'[ex'.acc.word]
                      ELSE rdata_q' = spec'[ex'.acc.word]
    BY DEF FirstHalfKept
  <2>1. CASE ~v
    <3>1. ex' = ex /\ ~gnt /\ spec' = spec /\ q' = q
      BY <2>1, <1>ex, <1>e, <1>spec, <1>q
    <3>2. IF answer.due THEN ~q.we /\ answer.word = spec[a.word] ELSE rdata_q = spec[a.word]
      BY <3>1, <1>inv DEF FirstHalfKept
    <3>3. CASE rvalid
      BY <3>1, <3>2, <3>3, <1>e, <1>answer, <1>rdata DEF NoAnswer
    <3>4. CASE ~rvalid
      BY <3>1, <3>2, <3>4, <1>answer, <1>rdata
    <3> QED
      BY <3>3, <3>4
  <2>2. CASE v /\ data_misaligned
    <3>1. ex'.acc = a /\ ~a.we /\ gnt /\ ~ex.misaligned
      BY <2>2, <1>moved, <1>dm, <1>e
    <3>2. mem = spec
      BY <3>1, <1>loads
    <3> QED
      BY <3>1, <3>2, <1>answer, <1>q, <1>spec, <1>half
  <2>3. CASE v /\ ~data_misaligned
    BY <2>3, <1>ex, <1>n
  <2> QED
    BY <2>1, <2>2, <2>3
<1>8. WritebackInStep'
  <2>1. regfile_we_lsu' => answer'.due /\ ~q'.we
    <3>1. CASE v
      BY <3>1, <1>wb, <1>e, <1>answer, <1>q
    <3>2. CASE ~v
      BY <3>2, <1>wb, <1>e, <1>answer, <1>q, <1>inv DEF WritebackInStep
    <3> QED
      BY <3>1, <3>2
  <2>2. ASSUME NEW w \in want'
        PROVE  /\ regfile_we_lsu'
               /\ w = data_rdata_ext(q'.type, q'.off, q'.sext, rdata_q', answer'.word)
    <3>1. CASE v
      <4>1. /\ ex.req /\ ~a.we /\ ~data_misaligned /\ gnt
            /\ w = Loaded(spec, a.type, a.word, a.off, a.sext)
        BY <2>2, <3>1, <1>want, <1>e
      <4>2. /\ q'.type = a.type /\ q'.off = a.off /\ q'.sext = a.sext
            /\ answer'.word = spec[ex.word]
        <5>1. mem = spec
          BY <4>1, <1>loads
        <5> QED
          BY <4>1, <5>1, <1>q, <1>answer
      <4>3. a.type \in 0..3 /\ a.off \in Lane
        BY <1>a DEF IsAccess
      <4>4. CASE ex.misaligned
        <5>1. rdata_q' = spec[a.word]
          BY <3>1, <4>1, <4>4, <1>a, <1>e, <1>rdata, <1>inv DEF FirstHalfKept
        <5>2. data_rdata_ext(a.type, a.off, a.sext, spec[a.word], spec[a.word + 1]) = w
          BY <4>1, <4>3, <4>4, <1>half, AcrossWords
        <5> QED
          BY <3>1, <4>1, <4>2, <4>4, <5>1, <5>2, <1>half, <1>wb
      <4>5. CASE ~ex.misaligned
        <5>1. ~Crosses(a.type, a.off)
          BY <4>1, <4>5, <1>dm
        <5>2. data_rdata_ext(a.type, a.off, a.sext, rdata_q', spec[a.word]) = w
          BY <4>1, <4>3, <5>1, WithinWord
        <5> QED
          BY <3>1, <4>1, <4>2, <4>5, <5>2, <1>half, <1>wb
      <4> QED
        BY <4>4, <4>5
    <3>2. CASE ~v
      <4>1. w \in want /\ CS = "WAIT_RVALID" /\ ~rvalid /\ ~gnt
        BY <2>2, <3>2, <1>want, <1>e
      <4>2. q' = q /\ rdata_q' = rdata_q /\ answer' = answer
        BY <4>1, <1>q, <1>rdata, <1>answer
      <4>3. regfile_we_lsu /\ w = shown
        BY <4>1, <1>inv DEF WritebackInStep, shown
      <4> QED
        BY <3>2, <4>1, <4>2, <4>3, <1>wb DEF shown
    <3> QED
      BY <3>1, <3>2
  <2> QED
    BY <2>1, <2>2 DEF WritebackInStep
<1>9. LoadsReturnBytes'
  <2> SUFFICES ASSUME NEW w \in owed'
               PROVE  rd' = w
    BY DEF LoadsReturnBytes
  <2>1. CASE regfile_we_lsu
    <3>1. w \in want /\ rvalid
      BY <2>1, <1>owed, <1>a, <1>inv DEF WritebackInStep
    <3> QED
      BY <2>1, <3>1, <1>rd, <1>inv DEF WritebackInStep, shown
  <2>2. CASE ~regfile_we_lsu
    BY <2>2, <1>owed, <1>rd, <1>inv DEF LoadsReturnBytes
  <2> QED
    BY <2>1, <2>2
<1> QED
  BY <1>e, <1>7, <1>8, <1>9 DEF Coherent

(* Reset forgets the access in EX, and what memory then has is what it should. *)
LEMMA ResetStep ==
    ASSUME BusInv, Reset
    PROVE  BusInv' /\ Coherent'
<1>1. TypeOK'
  BY NothingType, NoWordType, ResetType, NoAnswerType DEF BusInv, TypeOK, Reset, States
<1>2. ~ex'.req /\ ~ex'.misaligned /\ ~ex'.granted /\ ex'.word = ex'.acc.word
  BY DEF Reset, NoAccess
<1>3. BusInv'
  BY <1>1, <1>2 DEF Reset, NoAnswer, BusInv, OneOutstanding, Waiting, GrantedOnce,
                    HalfInPlace, StoreInMemory
<1>4. Coherent'
  BY <1>2 DEF Reset, Coherent, NeverStalled, FirstHalfKept, WritebackInStep,
              LoadsReturnBytes
<1> QED
  BY <1>3, <1>4

(* The unit starts with nothing in flight and memory as it should be.          *)
LEMMA InitStep ==
    ASSUME Init
    PROVE  BusInv /\ Coherent
<1>1. TypeOK
  <2>1. mem \in [Words -> MemWord] /\ spec \in [Words -> MemWord]
    BY MemAssumption DEF Init
  <2>2. issued \in 0..MaxAccesses
    BY BoundAssumption DEF Init
  <2> QED
    BY <2>1, <2>2, NothingType, NoWordType, ResetType, NoAnswerType DEF TypeOK, Init, States
<1>2. ~ex.req /\ ~ex.misaligned /\ ~ex.granted /\ ex.word = ex.acc.word
  BY DEF Init, NoAccess
<1>3. BusInv
  BY <1>1, <1>2 DEF Init, NoAnswer, BusInv, OneOutstanding, Waiting, GrantedOnce,
                    HalfInPlace, StoreInMemory
<1>4. Coherent
  BY <1>2 DEF Init, Coherent, NeverStalled, FirstHalfKept, WritebackInStep,
              LoadsReturnBytes
<1> QED
  BY <1>3, <1>4

-----------------------------------------------------------------------------
(* The unit, the access in EX and memory stay in step, and in the core the WB  *)
(* stage with them, whatever the program, the memory's delays and the resets.  *)
THEOREM CoreInvariant ==
    Spec => []CoreInv
<1>1. Init => CoreInv
  BY InitStep DEF CoreInv
<1>2. CoreInv /\ [Next]_vars => CoreInv'
  <2> SUFFICES ASSUME BusInv, ~stalls => Coherent, [Next]_vars
               PROVE  BusInv' /\ (~stalls => Coherent')
    <3>1. [Next]_vars => stalls' = stalls
      BY DEF Next, Clock, Reset, Edge, vars
    <3> QED
      BY <3>1 DEF CoreInv
  <2>1. CASE Clock
    BY <2>1, BusStep, CoreStep
  <2>2. CASE Reset
    BY <2>2, ResetStep
  <2>3. CASE UNCHANGED vars
    BY <2>3 DEF vars, lsuVars, coreVars, monitorVars, BusInv, Coherent, TypeOK,
                NeverStalled, OneOutstanding, Waiting, GrantedOnce, HalfInPlace,
                data_misaligned, StoreInMemory, FirstHalfKept, WritebackInStep,
                LoadsReturnBytes
  <2> QED
    BY <2>1, <2>2, <2>3 DEF Next
<1> QED
  BY <1>1, <1>2, PTL DEF Spec

(* Every load of the core ends with its register holding the bytes memory had  *)
(* at its address, extended: whatever the type, the alignment, the contents of *)
(* memory and the delays of its one or two answers.                            *)
THEOREM LoadsAreRight ==
    Spec => []LoadsReturnBytes
<1>1. CoreInv => LoadsReturnBytes
  BY DEF CoreInv, Coherent, LoadsReturnBytes
<1> QED
  BY <1>1, CoreInvariant, PTL

(* Memory always holds what the finished stores wrote and, during one, only    *)
(* bytes of before and after it, also where the EX stage may be held.          *)
THEOREM StoresAreRight ==
    Spec => []StoresWriteBytes
<1>1. CoreInv => StoresWriteBytes
  <2> SUFFICES ASSUME BusInv
               PROVE  StoresWriteBytes
    BY DEF CoreInv
  <2> DEFINE a == ex.acc
             after == Stored(spec, a.type, a.word, a.off, a.wdata)
             half == WriteLanes(spec, a.word, FirstLanes(a.type, a.off),
                                data_wdata(a.wdata, a.off))
  <2>1. TypeOK /\ HalfInPlace /\ StoreInMemory
    BY DEF BusInv
  <2>2. CASE mem = half /\ a.we /\ ex.req /\ Crosses(a.type, a.off)
             /\ (ex.granted \/ ex.misaligned)
    <3>1. /\ a.type \in 0..3 /\ a.word \in Words /\ a.off \in Lane
          /\ spec \in [Words -> MemWord]
      BY <2>1, AccessAssumption DEF TypeOK, IsAccess
    <3>2. \A w \in Words, i \in Lane :
              half[w][i] = IF w = a.word THEN after[w][i] ELSE spec[w][i]
      <4> HIDE DEF a
      <4> QED
        BY <2>2, <3>1, WritePartly
    <3>3. \A w \in Words, i \in Lane :
              mem[w][i] = IF w = a.word THEN after[w][i] ELSE spec[w][i]
      BY <2>2, <3>2
    <3> QED
      BY <2>2, <3>3 DEF StoresWriteBytes
  <2>3. CASE mem = after /\ a.we /\ ex.req /\ ex.granted
    BY <2>3 DEF StoresWriteBytes
  <2>4. CASE mem = spec /\ (~a.we \/ ~(ex.granted \/ ex.misaligned))
    BY <2>4 DEF StoresWriteBytes
  <2> QED
    BY <2>1, <2>2, <2>3, <2>4 DEF StoreInMemory, HalfInPlace, data_misaligned
<1> QED
  BY <1>1, CoreInvariant, PTL

(* Each half of an access is performed once, whatever holds the EX stage and   *)
(* whenever the memory answers.                                                *)
THEOREM HalvesGrantedOnce ==
    Spec => []GrantedOnce
<1>1. CoreInv => GrantedOnce
  BY DEF CoreInv, BusInv
<1> QED
  BY <1>1, CoreInvariant, PTL

(* The unit waits exactly while it is owed an answer, and in the core never    *)
(* enters its stall states.                                                    *)
THEOREM ProtocolKept ==
    Spec => [](OneOutstanding /\ (~stalls => NeverStalled))
<1>1. CoreInv => OneOutstanding /\ (~stalls => NeverStalled)
  BY DEF CoreInv, BusInv, Coherent
<1> QED
  BY <1>1, CoreInvariant, PTL

(* Types, for every memory and program.                                        *)
THEOREM TypesKept ==
    Spec => []TypeOK
<1>1. CoreInv => TypeOK
  BY DEF CoreInv, BusInv
<1> QED
  BY <1>1, CoreInvariant, PTL
=============================================================================
