----------------------------- MODULE TapSession -----------------------------
(***************************************************************************)
(* What a debugger that drives a JTAG port over a socket may count on: its *)
(* commands act on the test access port one after the other, in the order  *)
(* it sent them and each once, as if it held the pins itself; and a read   *)
(* returns what the port drives after all the commands before it.          *)
(***************************************************************************)
EXTENDS Integers, Sequences

CONSTANTS TapState,      \* states of the port
          TestLogicReset,   \* its state after reset
          Rise(_, _, _), \* the state after a rising TCK, given state, TMS and TDI
          Drives(_)      \* TDO after a falling TCK, in a state

Bit == {0, 1}

ASSUME TapAssumption ==
    /\ TestLogicReset \in TapState
    /\ \A s \in TapState, tms, tdi \in Bit : Rise(s, tms, tdi) \in TapState
    /\ \A s \in TapState : Drives(s) \in Bit

(* The commands of the remote_bitbang protocol: set the pins ('0' to '7'),    *)
(* read TDO ('R'), quit ('Q'); the others change nothing.                     *)
Command == [op : {"pins", "read", "quit", "other"}, tck : Bit, tms : Bit, tdi : Bit]

Pins == [tck : Bit, tms : Bit, tdi : Bit, trstn : Bit]
Levels(c, trstn) == [tck |-> c.tck, tms |-> c.tms, tdi |-> c.tdi, trstn |-> trstn]
AllHigh == [tck |-> 1, tms |-> 1, tdi |-> 1, trstn |-> 1]
AllLow == [tck |-> 0, tms |-> 0, tdi |-> 0, trstn |-> 0]

Ports == [state : TapState, tdo : Bit]
PowerOn == [state |-> TestLogicReset, tdo |-> 1]

(* How the port answers to pins that change from old to new.                  *)
Reacted(port, old, new) ==
    IF old.trstn = 0 \/ new.trstn = 0 THEN PowerOn
    ELSE IF old.tck = 0 /\ new.tck = 1
    THEN [port EXCEPT !.state = Rise(port.state, new.tms, new.tdi)]
    ELSE IF old.tck = 1 /\ new.tck = 0
    THEN [port EXCEPT !.tdo = Drives(port.state)]
    ELSE port

VARIABLES sent,      \* commands the debugger has sent
          executed,  \* how many of them have acted
          replies,   \* what it was answered
          pins, port

tapVars == <<sent, executed, replies, pins, port>>

TapInit ==
    /\ sent = <<>> /\ executed = 0 /\ replies = <<>>
    /\ pins = AllHigh /\ port = PowerOn

TapSend == \E c \in Command : sent' = Append(sent, c) /\ UNCHANGED <<executed, replies, pins, port>>

TapExecute ==
    /\ executed < Len(sent) /\ executed' = executed + 1 /\ UNCHANGED sent
    /\ LET c == sent[executed + 1]
       IN  \/ /\ c.op = "pins" /\ pins' = Levels(c, pins.trstn)
              /\ port' = Reacted(port, pins, pins') /\ UNCHANGED replies
           \/ /\ c.op = "read" /\ replies' = Append(replies, port.tdo)
              /\ UNCHANGED <<pins, port>>
           \/ c.op \in {"quit", "other"} /\ UNCHANGED <<replies, pins, port>>

TapNext == TapSend \/ TapExecute

TapSpec == TapInit /\ [][TapNext]_tapVars
=============================================================================
