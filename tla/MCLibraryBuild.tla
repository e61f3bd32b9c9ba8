---------------------------- MODULE MCLibraryBuild ----------------------------
(***************************************************************************)
(* Small Liberty files, written as trees and flattened: a library around   *)
(* one or two cells, with the unit statement before, between or after them *)
(* and each cell one of several that meet the builder in another state.    *)
(***************************************************************************)
EXTENDS LibraryBuildProperties

F(a, v, form) == [kind |-> "simple", attr |-> a, val |-> v, form |-> form]
S(a, v) == F(a, v, IF a \in ReadAsText THEN "text" ELSE "number")
CF(a, k, v, forms) == [kind |-> "complex", attr |-> a, key |-> k, val |-> v, forms |-> forms]
C(a, k, v) == CF(a, k, v, <<"number", IF a = "capacitive_load_unit" THEN "text" ELSE "numeral">>)
Sub(name, named, names, stmts) ==
  [kind |-> "group", name |-> name, named |-> named, names |-> names, stmts |-> stmts]
G(name, names, stmts) == Sub(name, TRUE, names, stmts)
K_Expressions == {"A"}

RECURSIVE Flat(_, _, _), Walk(_, _, _)
\* A tree in group p as a sequence of groups, the first of them numbered g.
Flat(t, g, p) ==
  LET r == Walk(t.stmts, g + 1, g)
  IN  <<[name |-> t.name, named |-> t.named, names |-> t.names, parent |-> p, stmts |-> r.stmts]>> \o r.groups
Walk(stmts, g, p) ==
  IF stmts = << >> THEN [stmts |-> << >>, groups |-> << >>]
  ELSE LET s == Head(stmts)
           sub == IF s.kind = "group" THEN Flat(s, g, p) ELSE << >>
           r == Walk(Tail(stmts), g + Len(sub), p)
       IN  [stmts |-> <<IF s.kind = "group" THEN [kind |-> "group", group |-> g] ELSE s>> \o r.stmts,
            groups |-> sub \o r.groups]

\* Parts of libraries.
Wire == G("wire_load", <<"w">>, <<C("fanout_length", "1", "2"), S("capacitance", "c0"),
                                  S("resistance", "r0"), S("slope", "5")>>)
Lut == G("lu_table_template", <<"lut">>, <<S("variable_1", "input_net_transition"),
          S("variable_2", "total_output_net_capacitance"), C("index_1", "", "x")>>)
Ccs == G("output_current_template", <<"ccs">>, <<S("variable_3", "time")>>)
Bits == G("type", <<"bits">>, <<S("base_type", "array"), S("bit_width", "2")>>)
Top0 == <<S("time_unit", "1ps"), S("nom_voltage", "1"), S("slew_derate_from_library", "d")>>
Pre == <<Lut, Ccs, Bits>>
Pf == C("capacitive_load_unit", "1", "pf")

\* Parts of cells.
Leak(w) == G("leakage_power", << >>, <<S("value", "1"), S("when", w), S("related_pg_pin", "VDD")>>)
Table(n) == G(n, <<"lut">>, <<C("index_2", "", "y"), C("index_1", "", "x"), C("values", "", n)>>)
Power(stmts) == G("internal_power", << >>, stmts \o <<C("index_1", "", "x"), G("rise_power", <<"scalar">>, <<C("values", "", "p")>>)>>)
Timing(stmts, tables) == G("timing", << >>, stmts \o tables)
In(n) == G("pin", <<n>>, <<S("direction", "input"), S("capacitance", "c1"),
                           C("rise_capacitance_range", "lo", "hi")>>)
Vec(t) == G("vector", <<t>>, <<S("reference_time", "0"), C("values", "", "v")>>)
CurrentOf(t) == G("output_current_rise", << >>, <<Vec(t)>>)

OutPin(stmts) == G("pin", <<"Z">>, <<S("direction", "output"), S("function", "A"),
                     S("max_capacitance", "m"), S("max_transition", "s")>> \o stmts)
Bus(stmts) == G("bus", <<"D">>, <<S("bus_type", "bits"), S("direction", "input")>> \o stmts)

Comb(tables) == Timing(<<S("related_pin", "A"), S("timing_sense", "weird")>>, tables)
Setup(tables) == Timing(<<S("related_pin", "CK"), S("timing_type", "setup_rising")>>, tables)

Hold(tables) == Timing(<<S("related_pin", "CK"), S("timing_type", "hold_rising")>>, tables)

\* Cells: one line each for a state the builder may be in.
Inv == G("cell", <<"INV">>,
  <<S("area", "1"), S("is_macro_cell", "TRUE"), Leak("A"), In("A"),
    OutPin(<<Power(<<S("when", "A")>>), Power(<<S("related_pin", "A"), S("when", "!A")>>),
             Comb(<<Table("cell_rise"), CurrentOf("ccs"), Table("rise_transition"), Table("cell_rise")>>),
             Comb(<<Table("cell_fall")>>)>>)>>)
Dff == G("cell", <<"DFF">>,
  <<G("ff", <<"IQ">>, <<S("area", "7")>>),
    G("pin", <<"B[1]", "B[0]">>, <<S("direction", "output"), S("rise_capacitance", "c2"),
      S("fanout_load", "f"), S("unknown", "u"), C("unknown", "", "")>>),
    Bus(<<G("pin", <<"D[1]">>, <<S("capacitance", "c3"), C("fall_capacitance_range", "lo", "hi")>>),
          G("pin", <<"D[0]">>, <<S("capacitance", "c4"),
            Setup(<<Table("rise_constraint"), Table("fall_constraint")>>), Hold(<<Table("fall_constraint")>>)>>),
          Power(<< >>)>>)>>)
WhenInTiming == G("cell", <<"MUX">>,
  <<OutPin(<<Timing(<<S("related_pin", "A"), S("when", "S")>>, <<Table("cell_fall")>>)>>)>>)
SlewInSetup == G("cell", <<"BAD1">>, <<OutPin(<<Setup(<<Table("rise_transition")>>)>>)>>)
EarlyCurrent == G("cell", <<"BAD2">>, <<OutPin(<<Comb(<<CurrentOf("ccs")>>)>>)>>)
CheckCurrent == G("cell", <<"BAD3">>, <<OutPin(<<Setup(<<Table("rise_constraint"), CurrentOf("ccs")>>)>>)>>)
NoTemplate == G("cell", <<"BAD4">>, <<OutPin(<<Comb(<<Table("cell_rise"), CurrentOf("none")>>)>>)>>)
RangeLate == G("cell", <<"BAD5">>, <<Bus(<<In("D[1]"), In("D[0]")>>)>>)
RangeAfterPin == G("cell", <<"BAD6">>, <<Bus(<<In("D[0]"), C("fall_capacitance_range", "lo", "hi")>>)>>)
\* Pins A[0:3], and values and groups that cannot be read.
AscendingCell(stmts) == G("cell", <<"ASC">>, <<G("pin", << >>, stmts)>>)
Ascending == {AscendingCell(<<Power(<<S("related_pin", "A")>>)>>),
              AscendingCell(<<S("direction", "input")>>), AscendingCell(<<C("rise_capacitance_range", "lo", "hi")>>),
              AscendingCell(<<Comb(<<Table("cell_rise")>>)>>),
              G("cell", <<"ABUS">>, <<Bus(<<G("pin", << >>, <<S("fanout_load", "f")>>)>>)>>)}
Odd(stmt) == G("cell", <<"ODD">>, <<G("pin", <<"A">>, <<stmt>>)>>)
OddCells ==
  {Odd(s) : s \in {F("fanout_load", "1", "numeral"), F("fanout_load", "x", "text"),
                   F("direction", "1", "number"), F("function", "A", "number"),
                   S("function", "(A"), F("unknown", "x", "text"),
                   CF("rise_capacitance_range", "lo", "", <<"number">>),
                   CF("rise_capacitance_range", "lo", "hi", <<"number", "text">>),
                   Sub("timing", FALSE, << >>, <<S("related_pin", "B")>>)}}
  \cup {Sub("cell", FALSE, <<"DFF">>, <<S("area", "1")>>),
        G("cell", <<"ODD">>, <<G("leakage_power", << >>, <<F("value", "v", "text")>>),
                               Sub("pin", FALSE, <<"A">>, <<S("direction", "input")>>)>>)}
Length(forms) == G("wire_load", <<"w">>, <<CF("fanout_length", "1", "2", forms)>>)
OddParts ==
  {Length(forms) : forms \in {<<"pair">>, <<"text">>, <<"number">>, << >>,
                              <<"number", "text">>, <<"number", "number", "number">>}}
  \cup {CF("capacitive_load_unit", "1", "pf", forms) :
          forms \in {<<"numeral", "text">>, <<"text", "text">>, <<"number">>, <<"number", "number">>}}
  \cup {CF("capacitive_load_unit", "2", "ff", <<"number">>),
        G("lu_table_template", <<"new">>, <<S("variable_1", "speed")>>),
        G("ocv_table_template", <<"ocv">>, <<S("variable_1", "speed")>>),
        Sub("type", FALSE, <<"bits">>, <<S("base_type", "array")>>)}
OddFiles ==
  {[groups |-> Flat(t, 1, 0), needed |-> {}] :
     t \in {G("library", <<"lib">>, Top0 \o Pre \o <<c, Inv>>) : c \in Ascending \cup OddCells}
           \cup {G("library", <<"lib">>, <<p>> \o Pre \o <<Inv>>) : p \in OddParts}
           \cup {Sub("library", FALSE, <<"lib">>, <<Inv>>)}}

Cells == {Inv, Dff, WhenInTiming, SlewInSetup, EarlyCurrent, CheckCurrent, NoTemplate, RangeLate,
          RangeAfterPin}

LibTree(u, a, b) ==
  G("library", <<"lib">>,
    Top0 \o (IF u = 1 THEN <<Pf>> ELSE << >>) \o Pre \o (IF u = 2 THEN <<Wire>> ELSE << >>)
      \o <<a>> \o (IF u = 3 THEN <<Pf>> ELSE << >>) \o <<b>> \o <<Wire>>)
K_LibFiles ==
  {[groups |-> Flat(LibTree(u, a, b), 1, 0), needed |-> {}] :
      u \in 1 .. 3, a \in Cells, b \in {Inv, Dff, WhenInTiming}}
  \cup {[groups |-> Flat(LibTree(1, Inv, b), 1, 0), needed |-> {"DFF", "MUX"}] : b \in Cells}
  \cup OddFiles
=============================================================================
