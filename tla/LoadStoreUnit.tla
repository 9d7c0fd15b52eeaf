---------------------------- MODULE LoadStoreUnit ----------------------------
(* The load-store unit with the parts of the core that drive it: the access in *)
(* the EX stage, split in two when it crosses a word boundary (id_stage), the  *)
(* write-enable that follows a load into the WB stage (ex_stage), and a memory *)
(* that grants and answers when it likes. One step is one clock edge.          *)
(*                                                                             *)
(* Left out: memory protection errors (data_err_i = 0: programs run in machine *)
(* mode, in which the protection unit passes every access), and the APU, which *)
(* the bench and the netlist leave out (FPU = 0). The answer of the memory is  *)
(* the whole word, as dp_ram gives it; an access takes effect when granted.    *)
EXTENDS DataLanes, FiniteSets

CONSTANTS
    Words,        \* the words of memory, 0 .. some number
    Access,       \* the accesses a program makes: see IsAccess
    InitialMem,   \* what memory holds before the program runs
    MaxAccesses,  \* bound: accesses issued in a behaviour,
    MaxStalled    \* and in one where the EX stage may be held

IsAccess(a) ==
    /\ a.we \in BOOLEAN /\ a.type \in 0..3 /\ a.sext \in 0..2
    /\ a.word \in Words /\ a.off \in Lane /\ a.wdata \in MemWord
    /\ Crosses(a.type, a.off) => a.word + 1 \in Words

ASSUME AccessAssumption == \A a \in Access : IsAccess(a)
ASSUME MemAssumption == Words \subseteq Nat /\ InitialMem \in [Words -> MemWord]
ASSUME BoundAssumption == MaxAccesses \in Nat /\ MaxStalled \in 0..MaxAccesses

ASSUME AccessNonEmpty == Access # {}

VARIABLES
    stalls,    \* may the EX stage be held by something else than the access in
               \* it? Not in this core: the divider and the multiplier, the other
               \* sources of a stall, are idle during an access. Fixed.
    CS,        \* the state of the unit
    q,         \* data_type_q, rdata_offset_q, data_sign_ext_q and data_we_q
    rdata_q,   \* the first half of a misaligned load, or the last value loaded
    ex,        \* the access in the EX stage; ex.req is data_req_ex
    regfile_we_lsu,   \* the load in the WB stage writes a register
    rd,        \* the register that port wrote last
    mem,       \* the memory
    answer,    \* the word the memory owes the unit, if it owes one
    spec, want, owed, issued   \* the monitor, see below

lsuVars == <<CS, q, rdata_q>>
coreVars == <<ex, regfile_we_lsu, rd>>
monitorVars == <<spec, want, owed, issued>>
vars == <<stalls, lsuVars, coreVars, mem, answer, monitorVars>>

States == {"IDLE", "WAIT_RVALID", "WAIT_RVALID_EX_STALL", "IDLE_EX_STALL"}
NoWord == [i \in Lane |-> 0]
NoAnswer == [due |-> FALSE, word |-> NoWord]

(* The EX stage without an access. Its other fields are don't-cares, kept at   *)
(* one value.                                                                  *)
AnyAccess == CHOOSE a \in Access : TRUE
NoAccess == [req |-> FALSE, acc |-> AnyAccess, word |-> AnyAccess.word,
             misaligned |-> FALSE, granted |-> FALSE]
Arriving(a) == [req |-> TRUE, acc |-> a, word |-> a.word, misaligned |-> FALSE,
                granted |-> FALSE]

(* data_misaligned_o: the access in EX needs a second half.                    *)
data_misaligned == ex.req /\ ~ex.misaligned /\ Crosses(ex.acc.type, ex.acc.off)

(* data_req_o: asked when nothing is outstanding, or in the very cycle in      *)
(* which what was outstanding is answered.                                     *)
data_req(rvalid) ==
    ex.req /\ (CS = "IDLE" \/ (CS = "WAIT_RVALID" /\ rvalid))

lsu_ready_ex(rvalid, gnt) == data_req(rvalid) => gnt
lsu_ready_wb(rvalid) == CS = "WAIT_RVALID" => rvalid

(* ex_valid_o and ex_ready_o of the EX stage, which agree without the APU;     *)
(* ready is that of the ALU and the multiplier.                                *)
ex_valid(rvalid, gnt, ready) ==
    ready /\ lsu_ready_ex(rvalid, gnt) /\ lsu_ready_wb(rvalid)

(* What the unit offers to the register file.                                  *)
data_rdata_ex(rvalid) ==
    IF rvalid THEN data_rdata_ext(q.type, q.off, q.sext, rdata_q, answer.word)
    ELSE rdata_q

-----------------------------------------------------------------------------
(* The state machine, one action per state and answer. gnt can only be high    *)
(* when data_req is; valid is ex_valid_i.                                      *)
AfterGrant(valid) == IF valid THEN "WAIT_RVALID" ELSE "WAIT_RVALID_EX_STALL"

Idle(gnt, valid) ==
    /\ CS = "IDLE"
    /\ CS' = IF gnt THEN AfterGrant(valid) ELSE "IDLE"

Unanswered(rvalid) ==
    /\ CS = "WAIT_RVALID" /\ ~rvalid
    /\ CS' = CS

Answered(rvalid, gnt, valid) ==
    /\ CS = "WAIT_RVALID" /\ rvalid
    /\ CS' = IF gnt THEN AfterGrant(valid) ELSE "IDLE"

StalledUnanswered(rvalid, valid) ==
    /\ CS = "WAIT_RVALID_EX_STALL" /\ ~rvalid
    /\ CS' = IF valid THEN "WAIT_RVALID" ELSE CS

(* Mutation: a stalled access is forgotten when it is answered.                *)
StalledAnswered_idle(rvalid, valid) ==
    /\ CS = "WAIT_RVALID_EX_STALL" /\ rvalid
    /\ CS' = "IDLE"

(* Mutation: an answer in the cycle the stall ends is waited for once more.    *)
StalledAnswered_waits(rvalid, valid) ==
    /\ CS = "WAIT_RVALID_EX_STALL" /\ rvalid
    /\ CS' = IF valid THEN "WAIT_RVALID" ELSE "IDLE_EX_STALL"

StalledAnswered(rvalid, valid) ==
    /\ CS = "WAIT_RVALID_EX_STALL" /\ rvalid
    /\ CS' = IF valid THEN "IDLE" ELSE "IDLE_EX_STALL"

StalledDone(valid) ==
    /\ CS = "IDLE_EX_STALL"
    /\ CS' = IF valid THEN "IDLE" ELSE CS

(* What a grant latches of the access, for its answer.                         *)
Latch(gnt) ==
    q' = IF gnt THEN [type |-> ex.acc.type, off |-> ex.acc.off,
                      sext |-> ex.acc.sext, we |-> ex.acc.we]
         ELSE q

(* Mutation: the first half is recognised only while it is still the first.    *)
KeepAnswer_first(rvalid) ==
    rdata_q' = IF rvalid /\ ~q.we
               THEN IF data_misaligned THEN answer.word ELSE data_rdata_ex(rvalid)
               ELSE rdata_q

(* The answer of a load is kept as read while the access in EX is either half  *)
(* of a misaligned one, and as the register receives it otherwise.             *)
KeepAnswer(rvalid) ==
    rdata_q' = IF rvalid /\ ~q.we
               THEN IF ex.misaligned \/ data_misaligned THEN answer.word
                    ELSE data_rdata_ex(rvalid)
               ELSE rdata_q

(* The EX stage moves on when it is valid: to the second half of the access in *)
(* it, at the next word, or else to what the ID stage has.                     *)
Advance(gnt, valid, next) ==
    ex' = IF ~valid THEN [ex EXCEPT !.granted = ex.granted \/ gnt]
          ELSE IF data_misaligned
               THEN [ex EXCEPT !.word = ex.word + 1, !.misaligned = TRUE,
                               !.granted = FALSE]
          ELSE next

(* The EX/WB register, and the register file's write from it.                  *)
Writeback(rvalid, valid) ==
    /\ regfile_we_lsu' = IF valid THEN ex.req /\ ~ex.acc.we
                         ELSE regfile_we_lsu /\ ~lsu_ready_wb(rvalid)
    /\ rd' = IF regfile_we_lsu THEN data_rdata_ex(rvalid) ELSE rd

(* The memory performs what it grants, and owes the answer.                    *)
Memory(rvalid, gnt) ==
    IF gnt
    THEN /\ answer' = [due |-> TRUE, word |-> mem[ex.word]]
         /\ mem' = IF ex.acc.we
                   THEN WriteLanes(mem, ex.word,
                                   IF ex.misaligned
                                   THEN SecondLanes(ex.acc.type, ex.acc.off)
                                   ELSE FirstLanes(ex.acc.type, ex.acc.off),
                                   data_wdata(ex.acc.wdata, ex.acc.off))
                   ELSE mem
    ELSE /\ answer' = IF rvalid THEN NoAnswer ELSE answer
         /\ mem' = mem

(* The monitor: what memory should hold (spec), what the load in the WB stage  *)
(* should return once its last half is there (want), and what the register     *)
(* written last should hold (owed), each a set of at most one word. issued     *)
(* counts the accesses.                                                        *)
Monitor(rvalid, gnt, valid) ==
    LET a == ex.acc
        value == Loaded(spec, a.type, a.word, a.off, a.sext)
    IN  /\ spec' = IF valid /\ ex.req /\ a.we /\ ~data_misaligned
                   THEN Stored(spec, a.type, a.word, a.off, a.wdata)
                   ELSE spec
        /\ want' = IF valid
                   THEN IF ex.req /\ ~a.we /\ ~data_misaligned THEN {value} ELSE {}
                   ELSE IF lsu_ready_wb(rvalid) THEN {} ELSE want
        /\ owed' = IF ~regfile_we_lsu THEN owed
                   ELSE IF lsu_ready_wb(rvalid) THEN want ELSE {}

-----------------------------------------------------------------------------
(* What the ID stage may have: the next access, or another instruction.        *)
Upcoming == {NoAccess} \cup (IF issued < IF stalls THEN MaxStalled ELSE MaxAccesses
                             THEN {Arriving(a) : a \in Access} ELSE {})

(* A clock edge: rvalid, gnt and ready are the memory's and the other units'.  *)
Edge(rvalid, gnt, ready, next) ==
    LET valid == ex_valid(rvalid, gnt, ready)
    IN  /\ rvalid => answer.due
        /\ gnt => data_req(rvalid)
        /\ ex.req /\ ~stalls => ready
        /\ next # NoAccess => valid /\ ~data_misaligned
        /\ \/ Idle(gnt, valid)
           \/ Unanswered(rvalid)
           \/ Answered(rvalid, gnt, valid)
           \/ StalledUnanswered(rvalid, valid)
           \/ StalledAnswered(rvalid, valid)
           \/ StalledDone(valid)
        /\ Latch(gnt) /\ KeepAnswer(rvalid)
        /\ Advance(gnt, valid, next) /\ Writeback(rvalid, valid)
        /\ Memory(rvalid, gnt) /\ Monitor(rvalid, gnt, valid)
        /\ issued' = IF next.req THEN issued + 1 ELSE issued
        /\ UNCHANGED stalls

ResetLatch == [type |-> 0, off |-> 0, sext |-> 0, we |-> FALSE]

Init ==
    /\ stalls \in BOOLEAN
    /\ CS = "IDLE" /\ q = ResetLatch /\ rdata_q = NoWord
    /\ ex = NoAccess /\ regfile_we_lsu = FALSE /\ rd = NoWord
    /\ answer = NoAnswer /\ mem = InitialMem
    /\ spec = InitialMem /\ want = {} /\ owed = {} /\ issued = 0

(* Reset forgets the access in flight; memory stays as far as it got.          *)
Reset ==
    /\ CS' = "IDLE" /\ q' = ResetLatch /\ rdata_q' = NoWord
    /\ ex' = NoAccess /\ regfile_we_lsu' = FALSE /\ rd' = NoWord
    /\ answer' = NoAnswer /\ mem' = mem
    /\ spec' = mem /\ want' = {} /\ owed' = {} /\ issued' = issued
    /\ UNCHANGED stalls

Clock == \E rvalid, gnt, ready \in BOOLEAN, next \in Upcoming :
            Edge(rvalid, gnt, ready, next)

Next == Clock \/ Reset

Spec == Init /\ [][Next]_vars

(* A memory that answers what it owes and grants what is asked, and units that *)
(* let go of the EX stage: the source's memories take one cycle, or a drawn    *)
(* and finite number of them.                                                  *)
Fairness ==
    /\ WF_vars(\E gnt, ready \in BOOLEAN, next \in Upcoming : Edge(TRUE, gnt, ready, next))
    /\ WF_vars(\E rvalid, ready \in BOOLEAN, next \in Upcoming : Edge(rvalid, TRUE, ready, next))
    /\ WF_vars(\E rvalid, gnt \in BOOLEAN, next \in Upcoming : Edge(rvalid, gnt, TRUE, next))

FairSpec == Spec /\ Fairness

-----------------------------------------------------------------------------
(* Types: what every register, the memory and the monitor hold.                *)
TypeOK ==
    /\ stalls \in BOOLEAN
    /\ CS \in States
    /\ q \in [type : 0..3, off : Lane, sext : 0..2, we : BOOLEAN]
    /\ rdata_q \in MemWord /\ rd \in MemWord
    /\ ex \in [req : BOOLEAN, acc : Access, word : Words, misaligned : BOOLEAN,
               granted : BOOLEAN]
    /\ regfile_we_lsu \in BOOLEAN
    /\ answer \in [due : BOOLEAN, word : MemWord]
    /\ mem \in [Words -> MemWord] /\ spec \in [Words -> MemWord]
    /\ want \subseteq MemWord /\ owed \subseteq MemWord
    /\ issued \in 0..MaxAccesses

Waiting == CS \in {"WAIT_RVALID", "WAIT_RVALID_EX_STALL"}

(* The unit waits exactly while the memory owes it an answer: an answer never  *)
(* finds it idle (the source asserts this) and it never waits for one that     *)
(* does not come, so the memory never owes two.                                *)
OneOutstanding == Waiting <=> answer.due

(* Each half of an access is performed once: while the unit may ask for the    *)
(* half in EX it has not been granted, and one that was granted either moved   *)
(* on or is held by a stall state until it does.                               *)
GrantedOnce ==
    ex.req => (ex.granted <=> CS \in {"WAIT_RVALID_EX_STALL", "IDLE_EX_STALL"})

(* The stall states are never entered: with the divider and the multiplier     *)
(* idle, an access leaves the EX stage in the cycle it is granted.             *)
NeverStalled == CS \in {"IDLE", "WAIT_RVALID"}

(* Memory holds what the stores that left the EX stage wrote, byte for byte,   *)
(* the bytes next to those included; while a store is in it and begun, nothing *)
(* but bytes of before and after that store.                                   *)
StoresWriteBytes ==
    IF ex.req /\ ex.acc.we /\ (ex.granted \/ ex.misaligned)
    THEN LET a == ex.acc
             after == Stored(spec, a.type, a.word, a.off, a.wdata)
         IN  \A w \in Words, i \in Lane : mem[w][i] \in {spec[w][i], after[w][i]}
    ELSE mem = spec

(* In the core, when a load's write to the register file is done, the register *)
(* holds the bytes that memory held at the load's address, extended as asked,  *)
(* whatever the alignment, the delays and the accesses before and after it.    *)
LoadsReturnBytes == ~stalls => \A w \in owed : rd = w

(* Every access is eventually performed and answered.                          *)
AccessesDrain == []<>(~ex.req /\ ~answer.due)

-----------------------------------------------------------------------------
(* The inductive invariant. Its first part holds with and without stalls.      *)

(* What is left of a misaligned access is the half at the next word.           *)
HalfInPlace ==
    /\ ex.word = IF ex.misaligned THEN ex.acc.word + 1 ELSE ex.acc.word
    /\ ex.misaligned => Crosses(ex.acc.type, ex.acc.off)
    /\ ex.misaligned \/ ex.granted => ex.req

(* Memory has of the store in EX what has been granted: nothing yet, its first *)
(* half, or all of it.                                                         *)
StoreInMemory ==
    LET a == ex.acc
    IN  mem = IF ~a.we \/ ~(ex.granted \/ ex.misaligned) THEN spec
              ELSE IF ex.granted /\ ~data_misaligned
              THEN Stored(spec, a.type, a.word, a.off, a.wdata)
              ELSE WriteLanes(spec, a.word, FirstLanes(a.type, a.off),
                              data_wdata(a.wdata, a.off))

BusInv == TypeOK /\ OneOutstanding /\ GrantedOnce /\ HalfInPlace /\ StoreInMemory

(* In the core, between the halves of a load, the first word is owed or kept.  *)
FirstHalfKept ==
    ex.misaligned /\ ~ex.acc.we =>
        IF answer.due THEN ~q.we /\ answer.word = spec[ex.acc.word]
        ELSE rdata_q = spec[ex.acc.word]

(* The load in the WB stage is the one the memory owes the answer to, and with *)
(* that answer makes the wanted value.                                         *)
WritebackInStep ==
    /\ regfile_we_lsu => answer.due /\ ~q.we
    /\ \A w \in want :
          /\ regfile_we_lsu
          /\ w = data_rdata_ext(q.type, q.off, q.sext, rdata_q, answer.word)

Coherent == NeverStalled /\ FirstHalfKept /\ WritebackInStep /\ LoadsReturnBytes

(* All of it, which is inductive; StoresWriteBytes follows.                    *)
CoreInv == BusInv /\ (~stalls => Coherent)
=============================================================================
