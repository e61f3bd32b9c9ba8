-------------------------- MODULE MCLibraryQueries -------------------------
(* Small subjects for LibraryQueries: tables with one to three breakpoints,  *)
(* slew first and load first, complete and short of a value; vectors on full *)
(* and gappy grids; and cells whose arcs differ in ends, type, sense, model. *)
EXTENDS LibraryQueries

Ax(name, values) == [name |-> name, values |-> values]
Slews == "input_net_transition"
Loads == "total_output_net_capacitance"

Templates == {[variable1 |-> v[1], variable2 |-> v[2], axes |-> <<Ax("index_1", <<0, 3>>), Ax("index_2", <<1, 2>>)>>] :
                v \in {<<Slews, Loads>>, <<Loads, Slews>>, <<Slews, Slews>>, <<Slews, None>>, <<None, None>>}}
OneAxis == {<<Ax("index_1", v)>> : v \in {<<2>>, <<1, 3>>}}
TwoAxes == {<<Ax(n[1], v), Ax(n[2], w)>> : n \in {<<"index_1", "index_2">>, <<"index_2", "index_1">>},
                                           v \in {<<2>>, <<1, 3>>, <<0, 1, 3>>}, w \in {<<1, 4>>, <<2>>}}
MCTables ==
  [template : Templates \cup {None}, axes : OneAxis \cup TwoAxes \cup {<<>>},
   values : {<<5>>, <<5, 7>>, <<4, 1, 9, 2>>, <<4, 1, 9, 2, 6, 0>>}]

-----------------------------------------------------------------------------
Vec(slew, load, times, values) ==
  [slew |-> slew, load |-> load, times |-> times, values |-> values, ref_time |-> times[1]]
Early == <<1, 3, 5>>
Late == <<2, 3, 6, 8>>
Some(slew, load) == Vec(slew, load, Early, <<-slew, -2 * load, 0>>)
Grid == <<Some(1, 1), Some(1, 3), Some(3, 1), Some(3, 3)>>
MCCCSTables ==
  { Grid, <<Some(1, 1), Some(1, 3), Some(3, 1)>>, <<Some(1, 1), Some(1, 3)>>, <<Some(2, 2)>>,
    <<Some(1, 1), Vec(1, 3, Late, <<-1, -4, -3, 0>>), Some(3, 1), Some(3, 3)>>,
    <<Some(3, 3), Some(1, 1), Some(2, 2), Some(1, 2), Some(2, 1), Some(1, 3)>> }

-----------------------------------------------------------------------------
Given(axes, values) == [template |-> [variable1 |-> Slews, variable2 |-> Loads, axes |-> <<>>],
                        axes |-> axes, values |-> values]
Grid2 == <<Ax("index_1", <<0, 2>>), Ax("index_2", <<1, 3>>)>>
Slow == Given(Grid2, <<1, 2, 3, 6>>)
Fast == Given(Grid2, <<0, 1, 1, 2>>)
Constraint == [Slow EXCEPT !.template.variable2 = "constrained_pin_transition"]
Line == Given(<<Ax("index_1", <<0, 2>>)>>, <<1, 2>>)
Scalar == [template |-> None, axes |-> <<>>, values |-> <<5>>]

DelayModel(rise, fall, transition) ==
  [kind |-> "delay", currents |-> [e \in {"rise", "fall"} |-> IF e = "rise" THEN Grid ELSE None],
   tables |-> [n \in {"cell_rise", "cell_fall", "rise_transition", "fall_transition"} |->
                 CASE n = "cell_rise" -> rise [] n = "cell_fall" -> fall [] OTHER -> transition]]
CheckModel(table) == [kind |-> "check", tables |-> [n \in {"rise_constraint", "fall_constraint"} |-> table]]
PowerModel == [kind |-> "power", tables |-> [rise_power |-> Slow, fall_power |-> None]]

Port(name, type, cap, func) ==
  [name |-> <<name>>, type |-> type, cap |-> cap, func |-> func,
   clock_pin |-> name = "clk", enable_pin |-> name = "en",
   caps |-> [c \in {"max", "min"} \X {"rise", "fall"} |-> IF c = <<"max", "rise">> /\ cap = 2 THEN 3 ELSE None],
   slew_limits |-> [m \in {"max", "min"} |-> None], cap_limits |-> [m \in {"max", "min"} |-> None]]
Bit(k) == [Port("bus", "input", 0, None) EXCEPT !.name = <<"bus", k>>]
Bus == [name |-> <<"bus">>, bits |-> <<Bit(2), Bit(1), Bit(0)>>, type |-> "input", clock_pin |-> FALSE,
        enable_pin |-> FALSE]

TheCell(ports, unit) ==
  [ports |-> ports, buses |-> <<Bus>>, arc_sets |-> <<>>, power_sets |-> <<>>, is_icg |-> TRUE,
   time_unit |-> unit, cap_unit |-> "fF", slew_derate |-> 2, dont_use |-> FALSE]

Arc(src, type, sense, model) == [src |-> <<src>>, snk |-> <<"y">>, type |-> type, sense |-> sense, model |-> model]
Good == DelayModel(Slow, Fast, Fast)
Ends(src, snk) == [src |-> src, snk |-> snk, type |-> "hold_rising", sense |-> "default", model |-> CheckModel(Constraint)]
MCArcs ==
  { Arc("a", "combinational", "positive_unate", Good), Arc("a", "combinational", "negative_unate", DelayModel(Fast, Slow, Slow)),
    Arc("a", "combinational", "non_unate", Good), Arc("a", "setup_rising", "default", CheckModel(Constraint)),
    Arc("a", "clear", "default", Good), Arc("clk", "rising_edge", "default", DelayModel(Slow, None, None)),
    Arc("a", "default", "positive_unate", Good), Arc("a", "combinational_rise", "default", Good),
    Arc("a", "combinational", "default", DelayModel(Scalar, Fast, Fast)),
    Arc("b", "combinational", "default", DelayModel(Line, Scalar, Fast)),
    Arc("clk", "hold_rising", "default", None),
    Ends(<<"bus", 2>>, <<"y">>), Ends(<<"bus", 3>>, <<"y">>), Ends(<<"nowhere">>, <<"y">>), Ends(<<"clk">>, <<"en">>) }

Ports == <<Port("a", "input", 1, None), Port("clk", "input", 2, None),
           Port("y", "output", 0, [op |-> "buffer", port |-> <<"a">>])>>
Lists(n) == UNION {[1..k -> MCArcs] : k \in 0..n}
MCCellParts ==
  [cell : {TheCell(Append(Ports, Port("en", "input", 1, None)), "ns"), [TheCell(Ports, "ns") EXCEPT !.is_icg = FALSE]}, arcs : Lists(2), powers : {<<>>}]
  \cup [cell : {TheCell(Append(Ports, Port("z", "inout", 1, None)), "ps")},
        arcs : Lists(1), powers : {<<Arc("a", "default", "default", PowerModel)>>}]

-----------------------------------------------------------------------------
(* Cells to classify: ports in another order, another function, more arcs.   *)
And(x, y) == [op |-> "and", left |-> [op |-> "buffer", port |-> <<x>>], right |-> [op |-> "buffer", port |-> <<y>>]]
In(n) == Port(n, "input", 1, None)
Out(f) == Port("y", "output", 0, f)
C(ports, arcs) == FoldLeft(addLibertyArc, TheCell(ports, "ns"), arcs)
A1 == Arc("a", "combinational", "positive_unate", None)
A2 == Arc("b", "combinational", "positive_unate", None)
A3 == Arc("a", "clear", "default", None)
Sample1 ==
  { C(<<In("a"), In("b"), Out(And("a", "b"))>>, <<A1>>), C(<<In("b"), Out(And("a", "b")), In("a")>>, <<A1, A2>>),
    C(<<In("a"), In("b"), Out(And("a", "b"))>>, <<A2, A1>>), C(<<In("a"), In("b"), Out(And("a", "b"))>>, <<A3>>),
    C(<<In("a"), In("b"), Out(And("b", "a"))>>, <<A1>>), C(<<In("a"), Out([op |-> "buffer", port |-> <<"a">>])>>, <<A1>>),
    C(<<In("a"), Out([op |-> "not", left |-> [op |-> "buffer", port |-> <<"a">>]])>>, <<A1>>),
    [C(<<In("a"), In("b"), Out(And("a", "b"))>>, <<A1>>) EXCEPT !.dont_use = TRUE] }
MCLibSets == {<<>>} \cup {<<<<c1, c2>>, <<c3>>>> : c1, c2, c3 \in Sample1}

=============================================================================
