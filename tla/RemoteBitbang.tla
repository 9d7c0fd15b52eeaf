--------------------------- MODULE RemoteBitbang ---------------------------
(***************************************************************************)
(* The JTAG server of the debug module's bench                             *)
(* (src/tb/dm/remote_bitbang): SimJTAG calls jtag_tick once every          *)
(* TICK_DELAY + 1 clocks; the call executes one command of a debugger      *)
(* connected over a socket, and the pins it returns reach the port through *)
(* wires with a delay.  While the call waits, for a debugger or for a      *)
(* command, simulated time stands still.                                   *)
(*                                                                         *)
(* The debugger (OpenOCD) and the test access port are external.  The      *)
(* debugger moves TMS and TDI while TCK is low; it may close its end at    *)
(* any time.  Bytes of a connection arrive in order.                       *)
(***************************************************************************)
EXTENDS TapSession

CONSTANTS TICK_DELAY,
          Sendable,    \* commands the debugger uses
          MaxSent      \* bound: commands in a behaviour

ASSUME ServerAssumption ==
    TICK_DELAY \in Nat /\ Sendable \subseteq Command /\ MaxSent \in Nat

VARIABLES
    client,       \* the debugger's end of the connection
    \* the library's globals, with pins (tck, tms, tdi and trstn)
    init, client_fd, tdo, quit,
    at,           \* where the simulation is: at a clock edge or in a call
    tickCounter,  \* tickCounterReg
    jtag,         \* the outputs of SimJTAG,
    seen,         \* what the port has of them, and
    settled,      \* whether the wires' delay has passed
    outcome       \* of the simulation

debuggerVars == <<client, sent>>
libVars == <<init, client_fd, tdo, quit, pins>>
doneVars == <<executed, replies>>
simVars == <<at, tickCounter, jtag, seen, settled, port, outcome>>
vars == <<debuggerVars, libVars, doneVars, simVars>>

Running == outcome = "running"

-----------------------------------------------------------------------------
(* The debugger.                                                              *)
LastPins ==
    LET sets == {i \in 1..Len(sent) : sent[i].op = "pins"}
    IN  IF sets = {} THEN AllHigh
        ELSE Levels(sent[CHOOSE i \in sets : \A j \in sets : j <= i], 1)

Steady(c) ==
    c.op = "pins" /\ c.tck = 1 /\ LastPins.tck = 0 =>
        c.tms = LastPins.tms /\ c.tdi = LastPins.tdi

Connect ==
    /\ client = "none" /\ init /\ client' = "waiting"
    /\ UNCHANGED <<sent, libVars, doneVars, simVars>>

Send(c) ==
    /\ client \in {"waiting", "connected"} /\ Len(sent) < MaxSent
    /\ \A i \in 1..Len(sent) : sent[i].op # "quit"
    /\ Steady(c) /\ sent' = Append(sent, c)
    /\ UNCHANGED <<client, libVars, doneVars, simVars>>

Close ==
    /\ client = "connected" /\ client' = "closed"
    /\ UNCHANGED <<sent, libVars, doneVars, simVars>>

-----------------------------------------------------------------------------
(* A rising clock edge. Every TICK_DELAY + 1 of them SimJTAG calls jtag_tick, *)
(* which opens the server the first time (rbs_init).                          *)
rbs_init ==
    /\ init' = TRUE
    /\ IF init THEN UNCHANGED <<pins, quit, client_fd>>
       ELSE pins' = AllHigh /\ quit' = 0 /\ client_fd' = 0

(* Mutation: a call looks for a debugger although it has one.                 *)
HasClient_never == FALSE

HasClient == client_fd > 0

(* The call goes on to one command if there is a debugger, and to accept one  *)
(* otherwise.                                                                 *)
rbs_tick ==
    IF HasClient THEN at' = "read" /\ tdo' = port.tdo
    ELSE at' = "accept" /\ UNCHANGED tdo

jtag_tick == rbs_init /\ rbs_tick

rbs_done == quit = 1

ClockEdge ==
    /\ Running /\ at = "clock" /\ settled
    /\ IF tickCounter = 0
       THEN tickCounter' = TICK_DELAY /\ jtag_tick
       ELSE tickCounter' = tickCounter - 1 /\ UNCHANGED <<libVars, at>>
    /\ UNCHANGED <<debuggerVars, doneVars, jtag, seen, settled, port, outcome>>

(* Before the next edge the port has the pins, and if the library is done the *)
(* bench calls $finish.                                                       *)
WiresSettle ==
    /\ Running /\ at = "clock" /\ ~settled
    /\ settled' = TRUE /\ seen' = jtag /\ port' = Reacted(port, seen, jtag)
    /\ outcome' = IF rbs_done THEN "finished" ELSE outcome
    /\ UNCHANGED <<debuggerVars, libVars, doneVars, at, tickCounter, jtag>>

-----------------------------------------------------------------------------
(* Inside a call. It ends by assigning the pins to SimJTAG's outputs.         *)

(* Mutation: the outputs are assigned before the command is executed.         *)
Returns_first ==
    /\ at' = "clock" /\ jtag' = pins /\ settled' = FALSE
    /\ UNCHANGED <<debuggerVars, init, tdo, tickCounter, seen, port, outcome>>

Returns ==
    /\ at' = "clock" /\ jtag' = pins' /\ settled' = FALSE
    /\ UNCHANGED <<debuggerVars, init, tdo, tickCounter, seen, port, outcome>>

(* accept returns EAGAIN until a debugger is there.                           *)
rbs_accept ==
    /\ Running /\ at = "accept" /\ client = "waiting"
    /\ client' = "connected" /\ client_fd' = 1
    /\ at' = "clock" /\ jtag' = pins /\ settled' = FALSE
    /\ UNCHANGED <<sent, init, tdo, quit, pins, doneVars, tickCounter, seen, port, outcome>>

(* The end of rbs_execute_command: the connection is closed if the command    *)
(* was to quit.                                                               *)
Executed ==
    /\ executed' = executed + 1
    /\ client_fd' = IF quit' = 1 THEN 0 ELSE client_fd
    /\ Returns

Reading(op) ==
    /\ Running /\ at = "read" /\ executed < Len(sent) /\ sent[executed + 1].op = op

rbs_set_pins ==
    /\ Reading("pins") /\ pins' = Levels(sent[executed + 1], pins.trstn)
    /\ UNCHANGED <<quit, replies>> /\ Executed

(* write fails at once, or at the latest the second time, when the debugger   *)
(* has closed its end.                                                        *)
ReadRequest ==
    /\ Reading("read") /\ replies' = Append(replies, tdo)
    /\ UNCHANGED <<quit, pins>> /\ Executed

QuitRequest ==
    /\ Reading("quit") /\ quit' = 1
    /\ UNCHANGED <<pins, replies>> /\ Executed

(* Blinking, the resets (rbs_reset does nothing) and unknown commands.        *)
OtherCommand ==
    /\ Reading("other") /\ UNCHANGED <<quit, pins, replies>> /\ Executed

(* read returns 0: the debugger closed its end and everything it sent is done.*)
(* The connection is kept, and no other is ever accepted.                     *)
EndOfStream ==
    /\ Running /\ at = "read" /\ executed = Len(sent) /\ client = "closed"
    /\ UNCHANGED <<pins, quit, client_fd, doneVars>> /\ Returns

(* read or write fails: the debugger closed its end with answers on the way.  *)
Aborts ==
    /\ Running /\ at = "read" /\ client = "closed"
    /\ replies # <<>> \/ Reading("read")
    /\ outcome' = "aborted"
    /\ UNCHANGED <<debuggerVars, libVars, doneVars, at, tickCounter, jtag, seen, settled, port>>

(* One more round of a loop that waits for a debugger or for a command.       *)
Waits ==
    /\ \/ at = "accept" /\ client # "waiting"
       \/ at = "read" /\ executed = Len(sent) /\ client = "connected"
    /\ UNCHANGED vars

Stopped == ~Running /\ UNCHANGED vars

-----------------------------------------------------------------------------
(* SimJTAG after its reset. The library's globals are zero.                   *)
Init ==
    /\ client = "none" /\ sent = <<>> /\ executed = 0 /\ replies = <<>>
    /\ init = FALSE /\ client_fd = 0 /\ tdo = 0 /\ quit = 0 /\ pins = AllLow
    /\ at = "clock" /\ tickCounter = TICK_DELAY /\ jtag = AllLow /\ seen = AllLow
    /\ settled = TRUE /\ port = PowerOn /\ outcome = "running"

Debugger == Connect \/ (\E c \in Sendable : Send(c)) \/ Close

Calls ==
    \/ rbs_accept \/ rbs_set_pins \/ ReadRequest \/ QuitRequest \/ OtherCommand
    \/ EndOfStream \/ Aborts

Simulation == ClockEdge \/ WiresSettle \/ Calls

Next == Debugger \/ Simulation \/ Waits \/ Stopped

(* The simulator runs whenever it can; the debugger does as it likes.         *)
Spec == Init /\ [][Next]_vars
FairSpec == Spec /\ WF_vars(Simulation)

-----------------------------------------------------------------------------
TypeOK ==
    /\ client \in {"none", "waiting", "connected", "closed"}
    /\ sent \in Seq(Command) /\ executed \in 0..Len(sent) /\ replies \in Seq(Bit)
    /\ init \in BOOLEAN /\ client_fd \in {0, 1} /\ tdo \in Bit /\ quit \in Bit
    /\ pins \in Pins /\ jtag \in Pins /\ seen \in Pins /\ settled \in BOOLEAN
    /\ at \in {"clock", "accept", "read"} /\ tickCounter \in 0..TICK_DELAY
    /\ port \in Ports /\ outcome \in {"running", "finished", "aborted"}

(* The port with what is still on the wires, and the pins a debugger finds.   *)
Tap == INSTANCE TapSession WITH
           pins <- IF init THEN pins ELSE AllHigh,
           port <- IF settled THEN port ELSE Reacted(port, seen, jtag)

\* For the debugger it is as if it held the pins itself: one command per call,
\* in order, none lost or repeated, and what a read returns has been driven by
\* the port after the last command before it, though the value is sampled
\* before the command is read (remote_bitbang.c:103-113) and pins reach the
\* port after the call.
ActsAsTap == Tap!TapSpec

\* Every command sent is executed, and a debugger that connects is served, as
\* long as the simulation goes on.
CommandsServed ==
    \A n \in 1..MaxSent : Len(sent) >= n ~> executed >= n \/ ~Running
=============================================================================
