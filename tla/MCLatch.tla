------------------------------- MODULE MCLatch -------------------------------
(***************************************************************************)
(* A ripple divider: a register on the falling edge of the clock, which    *)
(* clocks a second one, driven by the shell or by a program that calls the *)
(* methods of Timer one by one.  The library cell of the first may lack    *)
(* transition tables (SlewTables), that of the second setup tables         *)
(* (SetupTables).                                                          *)
(*                                                                         *)
(*   clk --- ff/CK   ff/Q --- q, r/CK                                      *)
(*   d   --- ff/D, r/D                                                     *)
(***************************************************************************)
EXTENDS TimerProperties

CONSTANTS
  SetupTables,   \* the edges of D the setup arc has a table for
  SlewTables     \* the edges of Q the register has a transition table for

L_Pins == {"clk", "d", "ff/CK", "ff/D", "ff/Q", "q", "r/CK", "r/D"}

L_Table ==
  [ckq   |-> <<"ff/CK", "ff/Q", "FALLING_EDGE", "NON_UNATE">>,
   setup |-> <<"ff/CK", "ff/D", "SETUP_FALLING", "NONE">>,
   rsetup |-> <<"r/CK", "r/D", "SETUP_FALLING", "NONE">>,
   hold  |-> <<"ff/CK", "ff/D", "HOLD_FALLING", "NONE">>,
   w_clk |-> <<"clk", "ff/CK", "WIRE", "POS_UNATE">>,
   w_d   |-> <<"d", "ff/D", "WIRE", "POS_UNATE">>,
   w_rc  |-> <<"ff/Q", "r/CK", "WIRE", "POS_UNATE">>,
   w_rd  |-> <<"d", "r/D", "WIRE", "POS_UNATE">>,
   w_q   |-> <<"ff/Q", "q", "WIRE", "POS_UNATE">>]
L_Arcs == DOMAIN L_Table
L_Wires == {"w_clk", "w_d", "w_q", "w_rc", "w_rd"}

L_from == [a \in L_Arcs |-> L_Table[a][1]]
L_to == [a \in L_Arcs |-> L_Table[a][2]]
L_type == [a \in L_Arcs |-> L_Table[a][3]]
L_sense == [a \in L_Arcs |-> L_Table[a][4]]
L_constraint_arcs == <<"setup", "hold", "rsetup">>

L_pin_type ==
  [p \in L_Pins |->
     CASE p \in {"clk", "d"} -> "PRIMARY_INPUT" [] p = "q" -> "PRIMARY_OUTPUT"
       [] p = "ff/Q" -> "OUTPUT" [] OTHER -> "INPUT"]

T(k, x, y, xy) == [k |-> k, x |-> x, y |-> y, xy |-> xy]

L_delay == [x \in L_Arcs \X Edges |->
  CASE x[1] \in L_Wires -> T(0, 0, 0, 0)
    [] x[1] = "ckq" -> T(3, 0, 1, 0)
    [] OTHER -> None]
L_slew == [x \in L_Arcs \X Edges |->
  CASE x[1] \in L_Wires -> T(0, 1, 0, 0)
    [] x[1] = "ckq" /\ x[2] \in SlewTables -> T(2, 0, 1, 0)
    [] OTHER -> None]
L_constraint == [x \in L_Arcs \X Edges |->
  CASE x[1] \in L_Wires -> T(0, 0, 0, 0)
    [] x[1] = "hold" -> T(1, 1, 0, 0)
    [] x[1] = "setup" \/ (x[1] = "rsetup" /\ x[2] \in SetupTables) ->
         IF x[2] = "RISING" THEN T(1, 1, 0, 0) ELSE T(2, 0, 0, 0)
    [] OTHER -> None]

L_capacitance == [k \in L_Pins \X Modes \X Edges |->
  IF k[1] \in {"ff/CK", "ff/D", "r/CK", "r/D"} THEN 1 ELSE 0]

L_fanout == [p \in L_Pins |->
  CASE p = "ff/CK" -> <<"ckq", "setup", "hold">>
    [] p = "r/CK" -> <<"rsetup">>
    [] p = "clk" -> <<"w_clk">> [] p = "d" -> <<"w_d", "w_rd">> [] p = "ff/Q" -> <<"w_q", "w_rc">>
    [] OTHER -> << >>]

L_Toposorts ==
  { <<"d", "clk", "ff/CK", "ff/D", "ff/Q", "q", "r/CK", "r/D">>,
    <<"clk", "ff/CK", "ff/Q", "r/CK", "q", "d", "ff/D", "r/D">> }

\* The circuit is one of those TimerProofs is about.
ASSUME L_WiresAndCells == WiresAndCells
=============================================================================
