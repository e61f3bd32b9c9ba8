------------------------------ MODULE MCRegister ------------------------------
(***************************************************************************)
(* A register whose output is gated with an input and fed back to it:      *)
(*                                                                         *)
(*   clk --- ff/CK    ff/Q --+-- g/A \                                     *)
(*                           +-- g/C  > g/Z --- ff/D, out                  *)
(*   in  ----------------------- g/B /                                     *)
(*                                                                         *)
(* The gate merges two non-unate and a negative-unate arc; the paths       *)
(* through A and C part at Q, meet again at Z and tie in one edge.  The    *)
(* register has a setup and a hold arc, Z drives both an end point of the  *)
(* registers and an output.  Arcs come in the order build_circuit creates  *)
(* them.                                                                   *)
(***************************************************************************)
EXTENDS TimerProperties

R_Pins == {"clk", "in", "ff/CK", "ff/D", "ff/Q", "g/A", "g/B", "g/C", "g/Z", "out"}

\* name -> <<from, to, timing type, timing sense>>
R_Table ==
  [ckq   |-> <<"ff/CK", "ff/Q", "RISING_EDGE", "NON_UNATE">>,
   setup |-> <<"ff/CK", "ff/D", "SETUP_RISING", "NONE">>,
   hold  |-> <<"ff/CK", "ff/D", "HOLD_RISING", "NONE">>,
   az    |-> <<"g/A", "g/Z", "COMBINATIONAL", "NON_UNATE">>,
   bz    |-> <<"g/B", "g/Z", "COMBINATIONAL", "NEG_UNATE">>,
   cz    |-> <<"g/C", "g/Z", "COMBINATIONAL", "NON_UNATE">>,
   w_clk |-> <<"clk", "ff/CK", "WIRE", "POS_UNATE">>,
   w_in  |-> <<"in", "g/B", "WIRE", "POS_UNATE">>,
   w_q   |-> <<"ff/Q", "g/A", "WIRE", "POS_UNATE">>,
   w_c   |-> <<"ff/Q", "g/C", "WIRE", "POS_UNATE">>,
   w_d   |-> <<"g/Z", "ff/D", "WIRE", "POS_UNATE">>,
   w_out |-> <<"g/Z", "out", "WIRE", "POS_UNATE">>]
R_Arcs == DOMAIN R_Table
R_constraint_arcs == <<"setup", "hold">>
R_Wires == {a \in R_Arcs : R_Table[a][3] = "WIRE"}

R_from == [a \in R_Arcs |-> R_Table[a][1]]
R_to == [a \in R_Arcs |-> R_Table[a][2]]
R_type == [a \in R_Arcs |-> R_Table[a][3]]
R_sense == [a \in R_Arcs |-> R_Table[a][4]]

R_pin_type ==
  [p \in R_Pins |->
     CASE p \in {"clk", "in"} -> "PRIMARY_INPUT" [] p = "out" -> "PRIMARY_OUTPUT"
       [] p \in {"ff/Q", "g/Z"} -> "OUTPUT" [] OTHER -> "INPUT"]

T(k, x, y, xy) == [k |-> k, x |-> x, y |-> y, xy |-> xy]
ZeroLut == T(0, 0, 0, 0)
PassThroughLut == T(0, 1, 0, 0)

R_delay == [x \in R_Arcs \X Edges |->
  CASE x[1] \in R_Wires -> ZeroLut
    [] x[1] = "ckq" -> IF x[2] = "RISING" THEN T(2, 0, 1, 0) ELSE T(3, 0, 1, 0)
    [] x[1] = "az"  -> IF x[2] = "RISING" THEN T(1, 1, 1, 0) ELSE T(3, 0, 1, 1)
    [] x[1] = "bz"  -> IF x[2] = "RISING" THEN T(2, 1, 1, 0) ELSE T(1, 2, 0, 0)
    [] x[1] = "cz"  -> IF x[2] = "RISING" THEN T(1, 1, 1, 0) ELSE T(4, 1, 0, 0)
    [] OTHER -> None]
R_slew == [x \in R_Arcs \X Edges |->
  CASE x[1] \in R_Wires -> PassThroughLut
    [] x[1] = "ckq" -> IF x[2] = "RISING" THEN T(1, 0, 1, 0) ELSE T(2, 0, 0, 0)
    [] x[1] = "az"  -> IF x[2] = "RISING" THEN T(1, 1, 0, 0) ELSE T(2, 0, 1, 0)
    [] x[1] = "bz"  -> IF x[2] = "RISING" THEN T(0, 0, 2, 0) ELSE T(1, 1, 0, 0)
    [] x[1] = "cz"  -> IF x[2] = "RISING" THEN T(2, 0, 1, 0) ELSE T(1, 0, 1, 0)
    [] OTHER -> None]
R_constraint == [x \in R_Arcs \X Edges |->
  CASE x[1] = "setup" -> IF x[2] = "RISING" THEN T(1, 1, 0, 0) ELSE T(2, 0, 1, 0)
    [] x[1] = "hold"  -> IF x[2] = "RISING" THEN T(-1, 1, 0, 0) ELSE T(1, -1, 0, 0)
    [] x[1] \in R_Wires -> ZeroLut
    [] OTHER -> None]

\* Capacitance differs by mode and edge on the gate's inputs.
R_capacitance == [k \in R_Pins \X Modes \X Edges |->
  CASE k[1] = "g/A" -> IF k[2] = "MAX" THEN 2 ELSE 1
    [] k[1] = "ff/D" -> IF k[3] = "RISING" THEN 1 ELSE 2
    [] k[1] \in {"g/B", "g/C", "ff/CK"} -> 1
    [] OTHER -> 0]

R_fanout == [p \in R_Pins |->
  CASE p = "ff/CK" -> <<"ckq", "setup", "hold">>
    [] p = "g/A" -> <<"az">>    [] p = "g/B" -> <<"bz">>    [] p = "g/C" -> <<"cz">>
    [] p = "clk" -> <<"w_clk">> [] p = "in" -> <<"w_in">>
    [] p = "ff/Q" -> <<"w_q", "w_c">>  [] p = "g/Z" -> <<"w_d", "w_out">>
    [] OTHER -> << >>]

\* Depth-first from clk and then in, or from in and then clk.
R_Toposorts ==
  { <<"in", "g/B", "clk", "ff/CK", "ff/Q", "g/C", "g/A", "g/Z", "out", "ff/D">>,
    <<"clk", "ff/CK", "ff/Q", "g/C", "g/A", "in", "g/B", "g/Z", "out", "ff/D">> }

\* The circuit is one of those TimerProofs is about.
ASSUME R_WiresAndCells == WiresAndCells
=============================================================================
