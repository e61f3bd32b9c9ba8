----------------------------- MODULE LibraryBuild -----------------------------
(***************************************************************************)
(* RustLibertyReader::linkLib: the groups of a parsed Liberty file become  *)
(* the objects of a LibLibrary.  The handlers of attributes are not told   *)
(* which group they are in: they write through the pointers that the       *)
(* handlers of groups left in the LibBuilder, and so it is the order of    *)
(* visits that decides where a value goes.                                 *)
(*                                                                         *)
(* A file is a sequence of groups in the order they open, the library      *)
(* first.  An object is <<g, n>>: the n-th object group g makes; a table   *)
(* model is <<g, 0>>, g the group of its arc, and an arc set <<g, -1>>, g  *)
(* the group of its first arc.  Values stay what the file has; where the   *)
(* code scales one, the unit it assumed is kept beside it.  An error ends  *)
(* the walk: a LOG_FATAL, a panic of the parser's library, an exception, a *)
(* null pointer or an index out of bounds.                                 *)
(***************************************************************************)
EXTENDS Integers, Sequences, Maps

CONSTANTS
  LibFiles,     \* the files: groups (name, named, names, stmts) and cells to be built
  Expressions,  \* the texts that are Boolean expressions
  None,         \* a null pointer
  Nobody        \* an attribute that no handler takes

VARIABLES
  file,       \* the file that is linked
  stack,      \* the groups that are open: group and statements left
  builder,    \* LibBuilder
  kinds,      \* the class of each object
  attrs,      \* <<object, field, index>> :> value, where one was set
  members,    \* <<object, container, index>> :> the objects it holds
  error

vars == <<file, stack, builder, kinds, attrs, members, error>>

Library == <<1, 1>>

LibBuilder ==
  [obj |-> None, cell |-> None, leakage_power |-> None, port |-> None, port_bus |-> None,
   arc |-> None, power_arc |-> None, table_model |-> None, current_table |-> None,
   own_port_type |-> "unset", own_pg_or_when_type |-> "unset"]

Init ==
  /\ file \in LibFiles
  /\ stack = << >>
  /\ builder = LibBuilder
  /\ kinds = << >> /\ attrs = << >> /\ members = << >>
  /\ error = None

Group(g) == file.groups[g]
Stmts(g) == Group(g).stmts
Top == stack[Len(stack)]
Held(o, c, n) == IF <<o, c, n>> \in DOMAIN members THEN members[<<o, c, n>>] ELSE << >>
Attr(o, f) == IF <<o, f, "">> \in DOMAIN attrs THEN attrs[<<o, f, "">>].val ELSE "unset"
Name(o) == Group(o[1]).names[o[2]]

-----------------------------------------------------------------------------
\* The simple attributes: whose pointer the handler follows, what it sets there
\* (several fields, or elements of an array), and the unit it converts from.

To(of, unit, at) == [of |-> of, unit |-> unit, at |-> at]
One(f) == {<<f, "">>}

Thresholds ==
  {"slew_lower_threshold_pct_rise", "slew_upper_threshold_pct_rise",
   "slew_lower_threshold_pct_fall", "slew_upper_threshold_pct_fall",
   "input_threshold_pct_rise", "output_threshold_pct_rise", "input_threshold_pct_fall",
   "output_threshold_pct_fall"}
LibraryAttributes == [a \in Thresholds |-> To("lib", "percent", One(a))]
                     @@ "nom_voltage" :> To("lib", "", One("nom_voltage"))
\* The derate is stored as a threshold.
DerateAttribute ==
  "slew_derate_from_library" :> To("lib", "percent", One("output_threshold_pct_fall"))
UnitAttributes == "pulling_resistance_unit" :> To("lib", "", One("resistance_unit"))
               @@ "time_unit" :> To("lib", "", One("time_unit"))
DefaultAttributes ==
  [a \in {"default_max_transition", "default_max_fanout"} |-> To("lib", "", One(a))]
LoadDefaults ==
  [a \in {"default_fanout_load", "default_wire_load"} |-> To("lib", "", One(a))]

DirectionAttribute == "direction" :> To("port", "", One("port_type"))
ClockGatePinAttributes ==
  [a \in {"clock_gate_clock_pin", "clock_gate_enable_pin"} |-> To("port", "", One(a))]
FanoutLoadAttribute == "fanout_load" :> To("port", "", One("fanout_load"))
CapacitanceAttribute == "capacitance" :> To("port_or_wire_load", "cap", One("cap"))
EdgeCapAttributes ==
     "rise_capacitance" :>
       To("port", "cap", {<<"port_caps", "max rise">>, <<"port_caps", "min rise">>})
  @@ "fall_capacitance" :>
       To("port", "cap", {<<"port_caps", "max fall">>, <<"port_caps", "min fall">>})
CapLimitAttributes == "max_capacitance" :> To("port", "cap", {<<"cap_limits", "max">>})
                   @@ "min_capacitance" :> To("port", "cap", {<<"cap_limits", "min">>})
\* The limit of the transition is stored as one of the capacitance.
SlewLimitAttributes == "max_transition" :> To("port", "", {<<"cap_limits", "max">>})
                    @@ "min_transition" :> To("port", "", {<<"cap_limits", "min">>})
FunctionAttribute == "function" :> To("port", "", {<<"func_expr", "">>, <<"func_expr_str", "">>})

AreaAttribute == "area" :> To("cell_if_any", "", One("cell_area"))
CellAttributes ==
     "is_macro_cell" :> To("cell", "", One("is_macro_cell"))
  @@ "cell_leakage_power" :> To("cell", "", One("cell_leakage_power"))
  @@ "clock_gating_integrated_cell" :>
       To("cell", "", {<<"clock_gating_integrated_cell", "">>,
                       <<"is_clock_gating_integrated_cell", "">>})
WireLoadAttributes == "resistance" :> To("wire_load", "res", One("resistance_per_length_unit"))
                   @@ "slope" :> To("wire_load", "", One("slope"))

RelatedPinAttribute == "related_pin" :> To("own_arc", "", One("src_port"))
RelatedPgAttribute == "related_pg_pin" :> To("own_power", "", One("related_pg_port"))
WhenAttribute == "when" :> To("own_power_if_any", "", One("when"))
ValueAttribute == "value" :> To("leakage_power", "", One("value"))
ArcAttributes == [a \in {"timing_sense", "timing_type"} |-> To("arc", "", One(a))]
VariableAttributes ==
  [a \in {"variable_1", "variable_2", "variable_3"} |-> To("template", "", One(a))]
ReferenceTimeAttribute == "reference_time" :> To("vector", "", One("ref_time"))
TypeAttributes ==
  [a \in {"base_type", "data_type", "bit_width", "bit_from", "bit_to"} |-> To("type", "", One(a))]
BusTypeAttribute == "bus_type" :> To("port_bus", "", One("bus_type"))

Attributes ==
  LibraryAttributes @@ DerateAttribute @@ UnitAttributes @@ DefaultAttributes @@ LoadDefaults
  @@ DirectionAttribute @@ ClockGatePinAttributes @@ FanoutLoadAttribute @@ CapacitanceAttribute
  @@ EdgeCapAttributes @@ CapLimitAttributes @@ SlewLimitAttributes @@ FunctionAttribute
  @@ AreaAttribute @@ CellAttributes @@ WireLoadAttributes
  @@ RelatedPinAttribute @@ RelatedPgAttribute @@ WhenAttribute @@ ValueAttribute
  @@ ArcAttributes @@ VariableAttributes @@ ReferenceTimeAttribute @@ TypeAttributes
  @@ BusTypeAttribute

-----------------------------------------------------------------------------
\* What no handler gets past, wherever it stands.  A value is a number, a numeral
\* (a text that is one), a pair (a text of two, with a comma) or another text.

Numeric == {"number", "numeral"}
ReadAsText ==
  {"pulling_resistance_unit", "time_unit", "direction", "clock_gate_clock_pin",
   "clock_gate_enable_pin", "default_wire_load", "is_macro_cell", "clock_gating_integrated_cell",
   "function", "related_pin", "related_pg_pin", "when", "timing_sense", "timing_type",
   "variable_1", "variable_2", "variable_3", "base_type", "data_type", "bus_type"}
\* What an axis of a template may be.
Variables ==
  {"total_output_net_capacitance", "input_net_transition", "related_pin_transition",
   "constrained_pin_transition", "input_transition_time", "time", "input_voltage",
   "output_voltage", "input_noise_height", "input_noise_width", "normalized_voltage",
   "equal_or_opposite_output_net_capacitance"}
Unreadable(s) ==
  \/ s.attr \in ReadAsText /\ s.form = "number"
  \/ s.attr \in DOMAIN Attributes \ (ReadAsText \cup {"value"}) /\ s.form \notin Numeric
  \/ s.attr = "function" /\ s.val \notin Expressions
  \/ s.attr \in DOMAIN VariableAttributes /\ s.val \notin Variables

\* A complex attribute has any number of values.
Ranges == [rise_capacitance_range |-> <<"min rise", "max rise">>,
           fall_capacitance_range |-> <<"min fall", "max fall">>]
Has(s, n, forms) == n \in DOMAIN s.forms /\ s.forms[n] \in forms
IsLength(s) == Len(s.forms) \in {1, 2}
Incomplete(s) ==
  \/ /\ s.attr = "capacitive_load_unit"
     /\ ~Has(s, 1, Numeric) \/ (s.key = "1" /\ ~Has(s, 2, {"numeral", "pair", "text"}))
  \/ s.attr \in DOMAIN Ranges /\ ~(Has(s, 1, Numeric) /\ Has(s, 2, Numeric))
  \/ /\ s.attr = "fanout_length" /\ IsLength(s)
     /\ IF Len(s.forms) = 1 THEN ~Has(s, 1, {"pair"})
        ELSE ~(Has(s, 1, Numeric) /\ Has(s, 2, Numeric))

\* The groups whose handlers ask for a name.
DelayTables == {"cell_rise", "cell_fall", "rise_transition", "fall_transition",
                "rise_constraint", "fall_constraint"}
PowerTables == {"rise_power", "fall_power"}
Named ==
  {"library", "wire_load", "lu_table_template", "power_lut_template", "output_current_template",
   "type", "cell", "bus", "bundle", "pin", "vector"} \cup DelayTables \cup PowerTables
Nameless(g) == Group(g).name \in Named /\ ~Group(g).named

Flawed(s) ==
  \/ s.kind = "simple" /\ Unreadable(s)
  \/ s.kind = "complex" /\ Incomplete(s)
  \/ s.kind = "group" /\ Nameless(s.group)

-----------------------------------------------------------------------------
\* What a handler makes of the value.

\* Some values change nothing.
TimingTypes ==
  {"setup_rising", "hold_rising", "recovery_rising", "removal_rising", "rising_edge", "preset",
   "clear", "three_state_enable", "three_state_enable_rise", "three_state_enable_fall",
   "three_state_disable", "three_state_disable_rise", "three_state_disable_fall",
   "setup_falling", "hold_falling", "recovery_falling", "removal_falling", "falling_edge",
   "min_pulse_width", "combinational", "combinational_rise", "combinational_fall",
   "non_seq_setup_rising", "non_seq_setup_falling", "non_seq_hold_rising",
   "non_seq_hold_falling", "skew_rising", "skew_falling", "minimum_period",
   "max_clock_tree_path", "min_clock_tree_path", "nochange_high_high", "nochange_high_low",
   "nochange_low_high", "nochange_low_low"}
OnlyFor == [timing_type |-> TimingTypes, time_unit |-> {"1fs", "1ps"},
            pulling_resistance_unit |-> {"1kohm"}, is_macro_cell |-> {"TRUE"}]
Takes(s) == s.attr \in DOMAIN OnlyFor => s.val \in OnlyFor[s.attr]

TypeNamed(name) ==
  \E n \in DOMAIN Held(Library, "types", "") : Name(Held(Library, "types", "")[n]) = name
Otherwise == [direction |-> <<{"input", "output"}, "inout">>,
              timing_sense |-> <<{"positive_unate", "negative_unate"}, "non_unate">>]
Meaning(s) ==
  IF s.attr \in DOMAIN Otherwise
  THEN IF s.val \in Otherwise[s.attr][1] THEN s.val ELSE Otherwise[s.attr][2]
  ELSE IF s.attr = "bus_type" /\ ~TypeNamed(s.val) THEN "unset"
  ELSE s.val

\* Without a unit statement a capacitance is in femtofarads; the resistance is
\* multiplied by a thousand whatever the file's unit.
Unit_AsWritten(s) == Attributes[s.attr].unit
Unit(s) == CASE Attributes[s.attr].unit = "cap" ->
                  IF Attr(Library, "cap_unit") = "pf" THEN "pf" ELSE "ff"
             [] OTHER -> Attributes[s.attr].unit
Stored(s) == [val |-> Meaning(s), unit |-> Unit(s)]

\* The pointers a handler may follow.  The two flags are not initialised: before
\* a group sets one, its value is any.
PortInUse == IF builder.port # None THEN builder.port ELSE builder.port_bus
Cast(classes) ==
  IF builder.obj # None /\ kinds[builder.obj] \in classes THEN builder.obj ELSE None
Templates == {"lut_template", "current_template"}
Tables == {"table", "vector"}
Read(flag, values) == IF flag = "unset" THEN values \cup {"neither"} ELSE {flag}
OwnArcs == {IF t = "neither" THEN Nobody ELSE builder[t] :
              t \in Read(builder.own_port_type, {"arc", "power_arc"})}
OwnPowers == {IF t = "neither" THEN Nobody ELSE builder[t] :
                t \in Read(builder.own_pg_or_when_type, {"leakage_power", "power_arc"})}
OwnPowersIfAny ==
  {IF t = "neither" \/ (t = "power_arc" /\ builder[t] = None) THEN Nobody ELSE builder[t] :
     t \in Read(builder.own_pg_or_when_type, {"leakage_power", "power_arc"})}

Receivers(s) ==
  IF s.attr \notin DOMAIN Attributes THEN {Nobody}
  ELSE LET of == Attributes[s.attr].of IN
       CASE of = "lib" -> {Library}
         [] of = "port" -> {PortInUse}
         [] of = "port_or_wire_load" ->
              {IF PortInUse # None THEN PortInUse ELSE Cast({"wire_load"})}
         [] of = "cell_if_any" -> {IF builder.cell = None THEN Nobody ELSE builder.cell}
         [] of = "wire_load" -> {Cast({"wire_load"})}
         [] of = "template" -> {Cast(Templates)}
         [] of = "vector" -> {Cast({"vector"})}
         [] of = "type" -> {Cast({"type"})}
         [] of = "own_arc" -> OwnArcs
         [] of = "own_power" -> OwnPowers
         [] of = "own_power_if_any" -> OwnPowersIfAny
         [] OTHER -> {builder[of]}

-----------------------------------------------------------------------------
\* The walk: of the statements of a group the simple ones first, then the others;
\* an internal_power group has its complex ones ignored.

Least(S) == CHOOSE i \in S : \A j \in S : i <= j
IsSimple(g, i) == Stmts(g)[i].kind = "simple"
Left(g) == {i \in DOMAIN Stmts(g) :
              Group(g).name = "internal_power" => Stmts(g)[i].kind # "complex"}
Current ==
  LET simple == {i \in Top.left : IsSimple(Top.g, i)}
  IN  Least(IF simple = {} THEN Top.left ELSE simple)
Statement == Stmts(Top.g)[Current]
Advanced == [stack EXCEPT ![Len(stack)].left = @ \ {Current}]
Popped == SubSeq(stack, 1, Len(stack) - 1)

Reaches == error = None /\ stack # << >> /\ Top.left # {}
At(kind) == Reaches /\ Statement.kind = kind /\ ~Flawed(Statement)
Visits(names) == At("group") /\ Group(Statement.group).name \in names
Leaves(names) ==
  /\ error = None /\ stack # << >> /\ Top.left = {} /\ Group(Top.g).name \in names
  /\ stack' = Popped

Enters(g) == stack' = Append(Advanced, [g |-> g, left |-> Left(g)])
Creates(o, kind) == kinds' = (o :> kind) @@ kinds
Adds(o, c, n, x) == <<o, c, n>> :> Append(Held(o, c, n), x)
Puts(o, c, n, x) == <<o, c, n>> :> <<x>>
Plain(v) == [val |-> v, unit |-> ""]

Stop(what) == error' = what /\ UNCHANGED <<file, stack, builder, kinds, attrs, members>>

cannot_read == Reaches /\ Flawed(Statement) /\ Stop("unreadable")

visitSimpleAttri ==
  /\ At("simple")
  /\ \E o \in Receivers(Statement) :
       \/ o = None /\ Stop("null pointer")
       \/ /\ o # None
          /\ attrs' = IF o = Nobody \/ ~Takes(Statement) THEN attrs
                      ELSE [k \in {<<o, at[1], at[2]>> : at \in Attributes[Statement.attr].at}
                              |-> Stored(Statement)] @@ attrs
          /\ stack' = Advanced
          /\ UNCHANGED <<file, builder, kinds, members, error>>

\* visitComplexAttri
Sets(writes) ==
  /\ attrs' = writes @@ attrs
  /\ stack' = Advanced
  /\ UNCHANGED <<file, builder, kinds, members, error>>

capacitive_load_unit ==
  /\ At("complex") /\ Statement.attr = "capacitive_load_unit"
  /\ Sets(IF Statement.key = "1" /\ Statement.val = "pf"
          THEN <<Library, "cap_unit", "">> :> Plain("pf") ELSE << >>)

\* Unlike the simple ones these look at the port alone, and convert no unit.
capacitance_range_PassesOver ==
  At("complex") /\ Statement.attr \in DOMAIN Ranges /\ Sets(<< >>)
capacitance_range ==
  /\ At("complex") /\ Statement.attr \in DOMAIN Ranges
  /\ LET p == builder.port  ends == Ranges[Statement.attr]
     IN  \/ p = None /\ Stop("null pointer")
         \/ /\ p # None
            /\ Sets(<<p, "port_caps", ends[1]>> :> Plain(Statement.key)
                    @@ <<p, "port_caps", ends[2]>> :> Plain(Statement.val))

fanout_length ==
  /\ At("complex") /\ Statement.attr = "fanout_length"
  /\ LET w == Cast({"wire_load"})
     IN  \/ w = None /\ IsLength(Statement) /\ Stop("null pointer")
         \/ /\ w # None \/ ~IsLength(Statement)
            /\ Sets(IF IsLength(Statement)
                    THEN <<w, "fanout_to_length", Statement.key>> :> Plain(Statement.val)
                    ELSE << >>)

\* The axes of a table are in the order of the file, whatever their names.
Indices == {"index_1", "index_2", "index_3"}
visitAxisOrValues ==
  /\ At("complex") /\ Statement.attr \in Indices \cup {"values"}
  /\ LET o == Cast(IF Statement.attr = "values" THEN Tables ELSE Tables \cup Templates)
     IN  \/ /\ builder.obj # None /\ o = None
            /\ Stop("fatal")
         \/ /\ builder.obj = None
            /\ Sets(<< >>)
         \/ /\ o # None /\ Statement.attr = "values"
            /\ Sets(<<o, "table_values", "">> :> Plain(Statement.val))
         \/ /\ o # None /\ Statement.attr # "values"
            /\ members' = Adds(o, "axes", "", <<Top.g, Current>>) @@ members
            /\ stack' = Advanced
            /\ UNCHANGED <<file, builder, kinds, attrs, error>>

other_complex ==
  /\ At("complex")
  /\ Statement.attr \notin {"capacitive_load_unit", "fanout_length", "values"}
                            \cup DOMAIN Ranges \cup Indices
  /\ Sets(<< >>)

-----------------------------------------------------------------------------
\* The groups of the library.

nameless_library == error = None /\ kinds = << >> /\ Nameless(1) /\ Stop("unreadable")
visitLibrary ==
  /\ error = None /\ kinds = << >> /\ ~Nameless(1)
  /\ stack' = <<[g |-> 1, left |-> Left(1)]>>
  /\ Creates(Library, "library")
  /\ UNCHANGED <<file, builder, attrs, members, error>>
leaveLibrary ==
  /\ Leaves({"library"})
  /\ UNCHANGED <<file, builder, kinds, attrs, members, error>>

Visited == Statement.group
Opens(kind, b) ==
  /\ Enters(Visited)
  /\ Creates(<<Visited, 1>>, kind)
  /\ builder' = b
Closes(o, container, b) ==
  /\ members' = Adds(o, container, "", <<Top.g, 1>>) @@ members
  /\ builder' = b
  /\ UNCHANGED <<file, kinds, attrs, error>>

visitWireLoad ==
  /\ Visits({"wire_load"})
  /\ Opens("wire_load", [builder EXCEPT !.obj = <<Visited, 1>>])
  /\ UNCHANGED <<file, attrs, members, error>>
leaveWireLoad ==
  /\ Leaves({"wire_load"})
  /\ Closes(Library, "wire_loads", [builder EXCEPT !.obj = None])

visitLuTableTemplate ==
  /\ Visits({"lu_table_template", "power_lut_template"})
  /\ Opens("lut_template", [builder EXCEPT !.port = None, !.obj = <<Visited, 1>>])
  /\ UNCHANGED <<file, attrs, members, error>>
visitOutputCurrentTemplate ==
  /\ Visits({"output_current_template"})
  /\ Opens("current_template", [builder EXCEPT !.obj = <<Visited, 1>>])
  /\ UNCHANGED <<file, attrs, members, error>>
leaveTemplate ==
  /\ Leaves({"lu_table_template", "power_lut_template", "output_current_template"})
  /\ Closes(Library, "lut_templates", [builder EXCEPT !.obj = None])

visitType ==
  /\ Visits({"type"})
  /\ Opens("type", [builder EXCEPT !.port = None, !.obj = <<Visited, 1>>])
  /\ UNCHANGED <<file, attrs, members, error>>
leaveType ==
  /\ Leaves({"type"})
  /\ Closes(Library, "types", [builder EXCEPT !.obj = None])

isNeedBuild(g) == file.needed = {} \/ Group(g).names[1] \in file.needed
visitCell ==
  /\ Visits({"cell"}) /\ isNeedBuild(Visited)
  /\ Opens("cell", [builder EXCEPT !.obj = <<Visited, 1>>, !.cell = <<Visited, 1>>])
  /\ UNCHANGED <<file, attrs, members, error>>
leaveCell ==
  /\ Leaves({"cell"})
  /\ Closes(Library, "cells", [builder EXCEPT !.obj = None])

visitLeakagePower ==
  /\ Visits({"leakage_power"})
  /\ Opens("leakage_power",
           [builder EXCEPT !.obj = <<Visited, 1>>, !.leakage_power = <<Visited, 1>>,
                           !.own_pg_or_when_type = "leakage_power"])
  /\ UNCHANGED <<file, attrs, members, error>>
leaveLeakagePower ==
  /\ Leaves({"leakage_power"})
  /\ Closes(builder.cell, "leakage_power_list", [builder EXCEPT !.obj = None])

-----------------------------------------------------------------------------
\* Ports and buses.  The pins of a bus belong to the bus and take its direction
\* as it is then; they do not become the current port.

visitBus ==
  /\ Visits({"bus", "bundle"})
  /\ LET b == <<Visited, 1>>
     IN  /\ Opens("bus", [builder EXCEPT !.obj = b, !.port = b, !.port_bus = b])
         /\ members' = Adds(builder.cell, "cell_port_buses", "", b) @@ members
  /\ UNCHANGED <<file, attrs, error>>
leaveBus_KeepsBus ==
  /\ Leaves({"bus", "bundle"})
  /\ builder' = [builder EXCEPT !.obj = None, !.port = None]
  /\ UNCHANGED <<file, kinds, attrs, members, error>>
leaveBus ==
  /\ Leaves({"bus", "bundle"})
  /\ builder' = [builder EXCEPT !.obj = None, !.port = None, !.port_bus = None]
  /\ UNCHANGED <<file, kinds, attrs, members, error>>

\* A name A[3:0] stands for one port each, the last of which becomes the current
\* port, and A[0:3] for none: then there is none.
Ports(g) == {<<g, n>> : n \in DOMAIN Group(g).names}
PortSeq(g) == [n \in DOMAIN Group(g).names |-> <<g, n>>]
visitPin ==
  /\ Visits({"pin"})
  /\ Enters(Visited)
  /\ kinds' = [o \in Ports(Visited) |-> "port"] @@ kinds
  /\ \/ /\ builder.port_bus = None
        /\ LET last == <<Visited, Len(Group(Visited).names)>>
           IN  builder' = IF Group(Visited).names = << >> THEN builder
                          ELSE [builder EXCEPT !.obj = last, !.port = last]
        /\ members' = (<<builder.cell, "cell_ports", "">> :>
                         (Held(builder.cell, "cell_ports", "") \o PortSeq(Visited))) @@ members
        /\ UNCHANGED attrs
     \/ /\ builder.port_bus # None
        /\ members' = (<<builder.port_bus, "ports", "">> :>
                         (Held(builder.port_bus, "ports", "") \o PortSeq(Visited))) @@ members
        /\ attrs' = [k \in {<<o, "port_type", "">> : o \in Ports(Visited)}
                       |-> Plain(Attr(builder.port_bus, "port_type"))] @@ attrs
        /\ UNCHANGED builder
  /\ UNCHANGED <<file, error>>
leavePin_KeepsPort ==
  /\ Leaves({"pin"})
  /\ UNCHANGED <<file, builder, kinds, attrs, members, error>>
leavePin ==
  /\ Leaves({"pin"})
  /\ builder' = [builder EXCEPT !.obj = None, !.port = None]
  /\ UNCHANGED <<file, kinds, attrs, members, error>>

-----------------------------------------------------------------------------
\* Arcs.  A cell keeps them in sets whose arcs agree on what is compared.

addTo(cell, c, a, compared) ==
  LET sets == Held(cell, c, "")
      same == {n \in DOMAIN sets : \A f \in compared :
                 Attr(Held(sets[n], "arcs", "")[1], f) = Attr(a, f)}
      new  == <<a[1], -1>>
  IN  IF same = {}
      THEN Puts(new, "arcs", "", a) @@ Adds(cell, c, "", new)
      ELSE Adds(sets[Least(same)], "arcs", "", a)
addLibertyArc_EndsOnly(cell, a) == addTo(cell, "cell_arcs", a, {"src_port", "snk_port"})
addLibertyArc(cell, a) == addTo(cell, "cell_arcs", a, {"src_port", "snk_port", "timing_type"})
addLibertyPowerArc(cell, a) == addTo(cell, "cell_power_arcs", a, {"src_port", "snk_port"})

visitTiming ==
  /\ Visits({"timing"})
  /\ LET a == <<Visited, 1>>
     IN  \/ PortInUse = None /\ Stop("null pointer")
         \/ /\ PortInUse # None
            /\ Opens("arc", [builder EXCEPT !.obj = None, !.arc = a, !.table_model = None,
                                            !.own_port_type = "arc"])
            /\ attrs' = (<<a, "snk_port", "">> :> Plain(Name(PortInUse))) @@ attrs
            /\ UNCHANGED <<file, members, error>>
leaveTiming ==
  /\ Leaves({"timing"})
  /\ members' = addLibertyArc(builder.cell, <<Top.g, 1>>) @@ members
  /\ UNCHANGED <<file, builder, kinds, attrs, error>>

visitInternalPower ==
  /\ Visits({"internal_power"})
  /\ LET a == <<Visited, 1>>
     IN  /\ Opens("power_arc",
                  [builder EXCEPT !.obj = None, !.power_arc = a, !.table_model = None,
                     !.own_port_type = "power_arc", !.own_pg_or_when_type = "power_arc"])
         /\ attrs' = IF PortInUse = None THEN attrs
                     ELSE (<<a, "snk_port", "">> :> Plain(Name(PortInUse))) @@ attrs
  /\ UNCHANGED <<file, members, error>>
\* Power that is not of an arc is handed over to the port, the arc is dropped.
IsPortPower(a) == Attr(a, "src_port") = "unset" /\ Attr(a, "snk_port") # "unset"
leaveInternalPower ==
  /\ Leaves({"internal_power"})
  /\ LET a == <<Top.g, 1>>
     IN  \/ /\ ~IsPortPower(a)
            /\ members' = addLibertyPowerArc(builder.cell, a) @@ members
            /\ UNCHANGED builder
         \/ /\ IsPortPower(a)
            /\ members' = Adds(PortInUse, "internal_powers", "", a) @@ members
            /\ builder' = [builder EXCEPT !.obj = None, !.power_arc = None]
  /\ UNCHANGED <<file, kinds, attrs, error>>

-----------------------------------------------------------------------------
\* Tables.  A model keeps a table at an index that is computed from its type: a
\* table of the same index is replaced, and a check model has two places only.

Place == [cell_rise |-> "0", cell_fall |-> "1", rise_transition |-> "2",
          fall_transition |-> "3", rise_constraint |-> "0", fall_constraint |-> "1",
          rise_power |-> "0", fall_power |-> "1"]
FitsCheckModel(name) == Place[name] \in {"0", "1"}

getLutTemplate(name) ==
  \E n \in DOMAIN Held(Library, "lut_templates", "") :
    Name(Held(Library, "lut_templates", "")[n]) = name
TemplateOf(g) == IF getLutTemplate(Group(g).names[1]) THEN Group(g).names[1] ELSE "null"

CheckTypes == {"setup_rising", "hold_rising", "recovery_rising", "removal_rising",
               "setup_falling", "hold_falling", "recovery_falling", "removal_falling"}
isCheckArc(a) == Attr(a, "timing_type") \in CheckTypes
ModelOf(a) == IF builder.table_model = None THEN <<a[1], 0>> ELSE builder.table_model
ModelKind(m, new) == IF builder.table_model = None THEN new ELSE kinds[m]

\* What visitTable and visitPowerTable share, once the model is known.
AddsTable(m, kind, owner, field) ==
  LET t == <<Visited, 1>>
      first == builder.table_model = None
  IN  /\ Enters(Visited)
      /\ kinds' = (t :> "table") @@ (IF first THEN m :> kind ELSE << >>) @@ kinds
      /\ attrs' = (<<t, "table_template", "">> :> Plain(TemplateOf(Visited))) @@ attrs
      /\ members' = Puts(m, "tables", Place[Group(Visited).name], t)
                    @@ (IF first THEN Puts(owner, field, "", m) ELSE << >>) @@ members
      /\ builder' = [builder EXCEPT !.obj = t, !.table_model = m]
      /\ UNCHANGED <<file, error>>

visitTable ==
  /\ Visits(DelayTables)
  /\ LET a == builder.arc
         m == ModelOf(a)
         kind == ModelKind(m, IF isCheckArc(a) THEN "check_model" ELSE "delay_model")
     IN  \/ /\ kind = "check_model" /\ ~FitsCheckModel(Group(Visited).name)
            /\ Stop("out of bounds")
         \/ /\ kind = "check_model" => FitsCheckModel(Group(Visited).name)
            /\ AddsTable(m, kind, a, "table_model")

visitPowerTable ==
  /\ Visits(PowerTables)
  /\ LET a == builder.power_arc
         m == ModelOf(a)
     IN  AddsTable(m, ModelKind(m, "power_model"), a, "power_table_model")

leaveTable ==
  /\ Leaves(DelayTables \cup PowerTables)
  /\ UNCHANGED <<file, builder, kinds, attrs, members, error>>

CurrentTables == {"output_current_rise", "output_current_fall"}
visitCurrentTable ==
  /\ Visits(CurrentTables)
  /\ Opens("current_table", [builder EXCEPT !.current_table = <<Visited, 1>>])
  /\ UNCHANGED <<file, attrs, members, error>>
\* The model was looked up, and cast to a delay model, before the vectors.
leaveCurrentTable ==
  LET m == builder.table_model
      good == m # None /\ kinds[m] = "delay_model"
  IN  \/ /\ ~good
         /\ error = None /\ stack # << >> /\ Top.left = {}
         /\ Group(Top.g).name \in CurrentTables
         /\ Stop("null pointer")
      \/ /\ Leaves(CurrentTables) /\ good
         /\ members' = Puts(m, "current_tables", Group(Top.g).name, <<Top.g, 1>>) @@ members
         /\ UNCHANGED <<file, builder, kinds, attrs, error>>

visitVector ==
  /\ Visits({"vector"})
  /\ \/ ~getLutTemplate(Group(Visited).names[1]) /\ Stop("fatal")
     \/ /\ getLutTemplate(Group(Visited).names[1])
        /\ LET v == <<Visited, 1>>
           IN  /\ Opens("vector", [builder EXCEPT !.obj = v])
               /\ attrs' = (<<v, "table_template", "">> :> Plain(TemplateOf(Visited))) @@ attrs
               /\ members' = Adds(builder.current_table, "vector_tables", "", v) @@ members
        /\ UNCHANGED <<file, error>>
leaveVector ==
  /\ Leaves({"vector"})
  /\ builder' = [builder EXCEPT !.obj = None]
  /\ UNCHANGED <<file, kinds, attrs, members, error>>

-----------------------------------------------------------------------------
Supported ==
  {"wire_load", "lu_table_template", "power_lut_template", "type", "output_current_template",
   "cell", "leakage_power", "bus", "bundle", "pin", "timing", "internal_power", "vector"}
  \cup DelayTables \cup PowerTables \cup CurrentTables
\* Groups with no handler are passed over, and so are cells nobody asked for.
pass_over ==
  /\ At("group")
  /\ \/ Group(Visited).name \notin Supported
     \/ Group(Visited).name = "cell" /\ ~isNeedBuild(Visited)
  /\ Sets(<< >>)

visitAttributes ==
  \/ visitSimpleAttri \/ capacitive_load_unit \/ capacitance_range
  \/ fanout_length \/ visitAxisOrValues \/ other_complex
visitGroup ==
  \/ visitLibrary \/ visitWireLoad \/ visitLuTableTemplate \/ visitOutputCurrentTemplate
  \/ visitType \/ visitCell \/ visitLeakagePower \/ visitBus \/ visitPin \/ visitTiming
  \/ visitInternalPower \/ visitTable \/ visitPowerTable \/ visitCurrentTable
  \/ visitVector \/ pass_over
leaveGroup ==
  \/ leaveLibrary \/ leaveWireLoad \/ leaveTemplate \/ leaveType \/ leaveCell
  \/ leaveLeakagePower \/ leaveBus \/ leavePin \/ leaveTiming \/ leaveInternalPower
  \/ leaveTable \/ leaveCurrentTable \/ leaveVector

Next == cannot_read \/ nameless_library \/ visitAttributes \/ visitGroup \/ leaveGroup
Spec == Init /\ [][Next]_vars /\ WF_vars(Next)

Done == kinds # << >> /\ stack = << >> /\ error = None

-----------------------------------------------------------------------------
\* What a Liberty file looks like: which groups stand in which, and which groups
\* an attribute may stand in, told by the pointer its handler follows.

Nesting ==
  ({"wire_load", "lu_table_template", "power_lut_template", "type", "output_current_template",
    "cell"} \X {"library"})
  \cup ({"leakage_power", "bus", "bundle", "pin", "internal_power"} \X {"cell"})
  \cup ({"pin", "timing", "internal_power"} \X {"bus", "bundle"})
  \cup ({"timing", "internal_power"} \X {"pin"})
  \cup ((DelayTables \cup CurrentTables) \X {"timing"})
  \cup (PowerTables \X {"internal_power"}) \cup ({"vector"} \X CurrentTables)

HomesOf ==
  ({"lib"} \X {"library"})
  \cup ({"port"} \X {"pin", "bus", "bundle"}) \cup ({"port_bus"} \X {"bus", "bundle"})
  \cup ({"port_or_wire_load"} \X {"pin", "bus", "bundle", "wire_load"})
  \cup ({"cell", "cell_if_any"} \X {"cell"}) \cup ({"wire_load"} \X {"wire_load"})
  \cup ({"arc"} \X {"timing"}) \cup ({"own_arc"} \X {"timing", "internal_power"})
  \cup ({"leakage_power"} \X {"leakage_power"})
  \cup ({"own_power"} \X {"leakage_power", "internal_power"})
  \cup ({"own_power_if_any"} \X {"leakage_power", "internal_power", "timing"})
  \cup ({"template"} \X {"lu_table_template", "power_lut_template", "output_current_template"})
  \cup ({"vector"} \X {"vector"}) \cup ({"type"} \X {"type"})
  \cup ({"table"} \X (DelayTables \cup PowerTables \cup {"vector"}))
  \cup ({"obj"} \X (DelayTables \cup PowerTables \cup
         {"vector", "lu_table_template", "power_lut_template", "output_current_template"}))

Of(s) ==
  CASE s.kind = "simple" /\ s.attr \in DOMAIN Attributes -> Attributes[s.attr].of
    [] s.kind = "complex" /\ s.attr = "capacitive_load_unit" -> "lib"
    [] s.kind = "complex" /\ s.attr \in DOMAIN Ranges -> "port"
    [] s.kind = "complex" /\ s.attr = "fanout_length" -> "wire_load"
    [] s.kind = "complex" /\ s.attr \in Indices -> "obj"
    [] s.kind = "complex" /\ s.attr = "values" -> "table"
    [] OTHER -> "nobody"

IsStatement(f, p, s) ==
  \/ f.groups[p].name \notin Supported \cup {"library"}
  \/ s.kind = "complex" /\ f.groups[p].name = "internal_power"
  \/ s.kind = "group" /\ s.group \in DOMAIN f.groups /\ f.groups[s.group].parent = p
       /\ (f.groups[s.group].name \in Supported =>
             <<f.groups[s.group].name, f.groups[p].name>> \in Nesting)
  \/ s.kind = "simple"
       /\ (s.attr \in DOMAIN Attributes => <<Of(s), f.groups[p].name>> \in HomesOf)
  \/ s.kind = "complex"
       /\ (Of(s) # "nobody" => <<Of(s), f.groups[p].name>> \in HomesOf)
\* Groups are numbered in the order they open: the groups between a group and
\* one of its own are all inside it.
IsNumbered(groups) ==
  /\ groups[1].parent = 0
  /\ \A g \in DOMAIN groups \ {1} :
       LET p == groups[g].parent IN
       /\ p \in DOMAIN groups /\ p < g
       /\ \E i \in DOMAIN groups[p].stmts :
            groups[p].stmts[i].kind = "group" /\ groups[p].stmts[i].group = g
       /\ \A h \in DOMAIN groups : p < h /\ h < g => p <= groups[h].parent
  /\ \A g \in DOMAIN groups : \A i, j \in DOMAIN groups[g].stmts :
       i < j /\ groups[g].stmts[i].kind = "group" /\ groups[g].stmts[j].kind = "group" =>
         groups[g].stmts[i].group < groups[g].stmts[j].group
\* A group has statements: an empty one is parsed as a complex attribute.  The name
\* of a group that was given none is any.
IsLibertyFile(f) ==
  /\ 1 \in DOMAIN f.groups /\ DOMAIN f.groups \subseteq Nat \ {0}
  /\ f.groups[1].name = "library"
  /\ IsNumbered(f.groups)
  /\ \A g \in DOMAIN f.groups :
       /\ DOMAIN f.groups[g].stmts \subseteq Nat
       /\ f.groups[g].names \in Seq(STRING)
       /\ f.groups[g].stmts # << >>
       /\ f.groups[g].name \in Named \ {"pin"} => f.groups[g].names # << >>
       /\ \A i \in DOMAIN f.groups[g].stmts : IsStatement(f, g, f.groups[g].stmts[i])
ASSUME FileAssumption == \A f \in LibFiles : IsLibertyFile(f)
ASSUME NoneAssumption ==
  None \notin Nat \X Nat /\ Nobody \notin Nat \X Nat /\ None # Nobody

=============================================================================
