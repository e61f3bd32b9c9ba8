------------------------------- MODULE MCGates -------------------------------
(***************************************************************************)
(* Gates without a register: an input that reconverges through an inverter *)
(* in front of an exclusive-or, a gate with an input tied to a constant    *)
(* (no primary input reaches it), and the unclocked data pin of a spare    *)
(* register.                                                               *)
(*                                                                         *)
(*   a --+-- inv/A  inv/Z --- x/A \                                        *)
(*       |                         x/Z --+-- y1                            *)
(*       +------------------- x/B /      +-- sp/D                          *)
(*                                       +-- n/B \                         *)
(*                               tie/Z ----- n/A  n/Z --- y2               *)
(***************************************************************************)
EXTENDS TimerProperties

G_Pins == {"a", "inv/A", "inv/Z", "x/A", "x/B", "x/Z", "tie/Z", "n/A", "n/B", "n/Z",
           "sp/D", "y1", "y2"}

G_Table ==
  [inv  |-> <<"inv/A", "inv/Z", "COMBINATIONAL", "NEG_UNATE">>,
   xa   |-> <<"x/A", "x/Z", "COMBINATIONAL", "NON_UNATE">>,
   xb   |-> <<"x/B", "x/Z", "COMBINATIONAL", "NON_UNATE">>,
   na   |-> <<"n/A", "n/Z", "COMBINATIONAL", "POS_UNATE">>,
   nb   |-> <<"n/B", "n/Z", "COMBINATIONAL", "POS_UNATE">>,
   w_ai |-> <<"a", "inv/A", "WIRE", "POS_UNATE">>,
   w_ax |-> <<"a", "x/B", "WIRE", "POS_UNATE">>,
   w_i  |-> <<"inv/Z", "x/A", "WIRE", "POS_UNATE">>,
   w_y1 |-> <<"x/Z", "y1", "WIRE", "POS_UNATE">>,
   w_sp |-> <<"x/Z", "sp/D", "WIRE", "POS_UNATE">>,
   w_n  |-> <<"x/Z", "n/B", "WIRE", "POS_UNATE">>,
   w_t  |-> <<"tie/Z", "n/A", "WIRE", "POS_UNATE">>,
   w_y2 |-> <<"n/Z", "y2", "WIRE", "POS_UNATE">>]
G_Arcs == DOMAIN G_Table
G_Wires == {a \in G_Arcs : G_Table[a][3] = "WIRE"}

G_from == [a \in G_Arcs |-> G_Table[a][1]]
G_to == [a \in G_Arcs |-> G_Table[a][2]]
G_type == [a \in G_Arcs |-> G_Table[a][3]]
G_sense == [a \in G_Arcs |-> G_Table[a][4]]
G_constraint_arcs == << >>

G_pin_type ==
  [p \in G_Pins |->
     CASE p = "a" -> "PRIMARY_INPUT" [] p \in {"y1", "y2"} -> "PRIMARY_OUTPUT"
       [] p \in {"inv/Z", "x/Z", "tie/Z", "n/Z"} -> "OUTPUT" [] OTHER -> "INPUT"]

T(k, x, y, xy) == [k |-> k, x |-> x, y |-> y, xy |-> xy]

G_delay == [x \in G_Arcs \X Edges |->
  CASE x[1] \in G_Wires -> T(0, 0, 0, 0)
    [] x[1] = "inv" -> IF x[2] = "RISING" THEN T(2, 1, 1, 0) ELSE T(1, 1, 1, 0)
    [] x[1] = "xa"  -> IF x[2] = "RISING" THEN T(1, 1, 1, 0) ELSE T(2, 0, 1, 0)
    [] x[1] = "xb"  -> IF x[2] = "RISING" THEN T(4, 1, 0, 0) ELSE T(1, 1, 1, 1)
    [] x[1] = "na"  -> T(9, 0, 0, 0)
    [] x[1] = "nb"  -> IF x[2] = "RISING" THEN T(1, 2, 0, 0) ELSE T(2, 1, 0, 0)]
G_slew == [x \in G_Arcs \X Edges |->
  CASE x[1] \in G_Wires -> T(0, 1, 0, 0)
    [] x[1] = "inv" -> IF x[2] = "RISING" THEN T(1, 0, 1, 0) ELSE T(2, 0, 1, 0)
    [] x[1] \in {"xa", "xb"} -> IF x[2] = "RISING" THEN T(1, 1, 0, 0) ELSE T(0, 1, 1, 0)
    [] OTHER -> T(1, 0, 1, 0)]
G_constraint == [x \in G_Arcs \X Edges |-> IF x[1] \in G_Wires THEN T(0, 0, 0, 0) ELSE None]

G_capacitance == [k \in G_Pins \X Modes \X Edges |->
  CASE k[1] = "x/A" -> IF k[2] = "MAX" THEN 3 ELSE 1
    [] k[1] = "n/B" -> IF k[3] = "RISING" THEN 1 ELSE 2
    [] k[1] \in {"inv/A", "x/B", "n/A", "sp/D"} -> 1
    [] OTHER -> 0]

G_fanout == [p \in G_Pins |->
  CASE p = "inv/A" -> <<"inv">> [] p = "x/A" -> <<"xa">> [] p = "x/B" -> <<"xb">>
    [] p = "n/A" -> <<"na">>    [] p = "n/B" -> <<"nb">>
    [] p = "a" -> <<"w_ai", "w_ax">>
    [] p = "inv/Z" -> <<"w_i">> [] p = "tie/Z" -> <<"w_t">>
    [] p = "x/Z" -> <<"w_y1", "w_sp", "w_n">>
    [] p = "n/Z" -> <<"w_y2">>
    [] OTHER -> << >>]

\* Depth-first from a.
G_Toposorts ==
  {<<"a", "x/B", "inv/A", "inv/Z", "x/A", "x/Z", "n/B", "n/Z", "y2", "sp/D", "y1">>}

\* The circuit is one of those TimerProofs is about.
ASSUME G_WiresAndCells == WiresAndCells
=============================================================================
