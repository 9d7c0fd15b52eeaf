------------------------------ MODULE MCDebug ------------------------------
(***************************************************************************)
(* The repository's two ways into debug mode, side by side: the JTAG       *)
(* server with a port of one state bit (a bypass register), and the debug  *)
(* ROM of the Verilator bench.  A behaviour is of one; the other is at     *)
(* rest.                                                                   *)
(***************************************************************************)
EXTENDS RemoteBitbang, DebugRom

(* The port: TDI is shifted in unless TMS is high.                            *)
Bypass(s, tms, tdi) == IF tms = 0 THEN tdi ELSE s
Same(s) == s

\* The port ignores TDI while TMS is high, where the debugger leaves it high.
SetPins == {c \in [op : {"pins"}, tck : Bit, tms : Bit, tdi : Bit] : c.tms = 1 => c.tdi = 1}
OtherCommands == {[op |-> o, tck |-> 0, tms |-> 0, tdi |-> 0] : o \in {"read", "quit", "other"}}
AllCommands == SetPins \cup OtherCommands

\* cluster_id and core_id as top.sv:79-80 wires them, and as main takes them.
TwoHarts == {0, \h3E0}

VARIABLE studied

debugVars == <<studied, vars, romVars>>

DebugInit ==
    /\ studied \in {"jtag", "rom"} /\ Init /\ RomInit
    /\ studied = "jtag" => mhartid = 0

DebugNext ==
    /\ UNCHANGED studied
    /\ \/ studied = "jtag" /\ Next /\ UNCHANGED romVars
       \/ studied = "rom" /\ RomNext /\ UNCHANGED vars

\* The simulation goes on in both; main gets through its sequence.
DebugSpec ==
    /\ DebugInit /\ [][DebugNext]_debugVars
    /\ WF_debugVars(studied = "jtag" /\ Simulation /\ UNCHANGED <<studied, romVars>>)
    /\ WF_debugVars(studied = "rom" /\ Core /\ UNCHANGED <<studied, vars>>)
    /\ WF_debugVars(studied = "rom" /\ Main /\ UNCHANGED <<studied, vars>>)
=============================================================================
