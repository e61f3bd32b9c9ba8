---------------------------- MODULE LibertyCell ----------------------------
(* What a library cell answers once it is built (Lib.cc): its ports by name, *)
(* its arcs by their ends, the delays, slews and constraints of an arc or a  *)
(* set of arcs, and what kind of cell it is.                                 *)
(*                                                                           *)
(* A cell is a record [ports, buses, arc_sets, power_sets, is_icg,           *)
(* time_unit, cap_unit, slew_derate].  A port name is <<base>> or, for a bit *)
(* of a bus, <<base, index>>.  An arc is [src, snk, type, sense, model], a   *)
(* model [kind, tables, currents] with kind "delay", "check" or "power".     *)
EXTENDS OutputCurrent, SequencesExt

CONSTANT Kilo  \* picoseconds in a nanosecond

-----------------------------------------------------------------------------
(* Ports.  A mode is "max", "min" or "maxmin", an edge "rise" or "fall".     *)
Modes(mode) == IF mode = "maxmin" THEN {"max", "min"} ELSE {mode}
FirstMode(mode) == IF mode = "min" THEN "min" ELSE "max"

set_port_cap_OnlyFirst(port, mode, edge, cap) ==
  [port EXCEPT !.caps[<<FirstMode(mode), edge>>] = cap]
set_port_cap(port, mode, edge, cap) ==
  [port EXCEPT !.caps = [k \in DOMAIN port.caps |->
                           IF k \in Modes(mode) \X {edge} THEN cap ELSE port.caps[k]]]
get_port_cap(port, mode, edge) == port.caps[<<FirstMode(mode), edge>>]

set_port_slew_limit(port, mode, limit) ==
  [port EXCEPT !.slew_limits = [k \in DOMAIN port.slew_limits |->
                                  IF k \in Modes(mode) THEN limit ELSE port.slew_limits[k]]]
get_port_slew_limit(port, mode) == port.slew_limits[FirstMode(mode)]
set_port_cap_limit(port, mode, limit) ==
  [port EXCEPT !.cap_limits = [k \in DOMAIN port.cap_limits |->
                                 IF k \in Modes(mode) THEN limit ELSE port.cap_limits[k]]]
get_port_cap_limit(port, mode) == port.cap_limits[FirstMode(mode)]

(* The capacitance mySTA takes: of mode and edge if the file gave it, of the *)
(* whole pin otherwise.                                                      *)
PortCap(port, mode, edge) ==
  IF get_port_cap(port, mode, edge) = None THEN port.cap ELSE get_port_cap(port, mode, edge)

(* mySTA takes over input and output pins, and stops at any other; pins of   *)
(* buses are not among the ports of the cell.                                *)
build_ports(cell) ==
  IF \E k \in DOMAIN cell.ports : cell.ports[k].type \notin {"input", "output"} THEN Stops
  ELSE Value([k \in DOMAIN cell.ports |->
                [name |-> cell.ports[k].name, pin_type |-> cell.ports[k].type,
                 capacitance |-> [c \in {"max", "min"} \X {"rise", "fall"} |->
                                    PortCap(cell.ports[k], c[1], c[2])]]])

isInput(port) == port.type \in {"input", "inout"}
isOutput(port) == port.type \in {"output", "inout"}

(* A port of the name; else a bus of the base name, or the bit of it at the  *)
(* position of the index, in the order the pins were added.                  *)
Nowhere == [type |-> "beyond the bits"]
get_cell_port_or_port_bus(cell, name) ==
  LET named == {k \in DOMAIN cell.ports : cell.ports[k].name = name}
      based == {k \in DOMAIN cell.buses : cell.buses[k].name = <<name[1]>>}
      bus == cell.buses[Min(based)] IN
  CASE named # {} -> cell.ports[Min(named)]
    [] named = {} /\ based = {} -> None
    [] OTHER -> IF Len(name) = 1 \/ bus.bits = <<>> THEN bus
                ELSE IF name[2] + 1 \in DOMAIN bus.bits THEN bus.bits[name[2] + 1] ELSE Nowhere

-----------------------------------------------------------------------------
(* Arcs and their tables.                                                    *)
CheckTypes == {"setup_rising", "hold_rising", "recovery_rising", "removal_rising",
               "setup_falling", "hold_falling", "recovery_falling", "removal_falling"}
isCheckArc(arc) == arc.type \in CheckTypes
isDelayArc(arc) == arc.type \in {"rising_edge", "falling_edge", "combinational_rise",
                                 "combinational_fall", "combinational", "default"}
isClearPresetArc(arc) == arc.type \in {"clear", "preset"}
isPositiveArc(arc) == arc.sense \in {"positive_unate", "default"}
isNegativeArc(arc) == arc.sense = "negative_unate"
isUnateArc(arc) == isPositiveArc(arc) \/ isNegativeArc(arc)
isMatchTimingType(arc, edge) ==
  <<arc.type, edge>> \notin {<<"combinational_fall", "rise">>, <<"combinational_rise", "fall">>}

Missing == <<"missing">>
LookUp(table, slew, load) == IF table = None THEN Missing ELSE findValue(table, slew, load)

gateDelay(model, edge, slew, load) ==
  IF model.kind # "delay" THEN Stops
  ELSE LookUp(model.tables[IF edge = "rise" THEN "cell_rise" ELSE "cell_fall"], slew, load)
gateSlew(model, edge, slew, load) ==
  IF model.kind # "delay" THEN Stops
  ELSE LookUp(model.tables[IF edge = "rise" THEN "rise_transition" ELSE "fall_transition"], slew, load)
gateCheckConstrain(model, edge, slew, constrained) ==
  IF model.kind # "check" THEN Stops
  ELSE LookUp(model.tables[IF edge = "rise" THEN "rise_constraint" ELSE "fall_constraint"], slew, constrained)

(* A power table that is missing is looked up all the same.                  *)
gatePower(model, edge, slew, load) ==
  LET table == model.tables[IF edge = "rise" THEN "rise_power" ELSE "fall_power"]
  IN  IF model.kind # "power" THEN Stops
      ELSE IF table = None THEN Undefined
      ELSE findValue(table, slew, IF load = None THEN 0 ELSE load)

(* A sigma is looked up at the number of the edge (rise 1, fall 2) less two  *)
(* for the early and one for the late corner, in the four tables of a delay  *)
(* model: what is there is a delay table, or nothing.                        *)
SigmaTable(mode, edge) ==
  CASE mode = "max" /\ edge = "rise" -> "cell_rise"
    [] mode = "max" /\ edge = "fall" -> "cell_fall"
    [] mode # "max" /\ edge = "fall" -> "cell_rise"
    [] mode # "max" /\ edge = "rise" -> "before the first"
gateSigma(model, mode, edge, slew, load) ==
  CASE model.kind # "delay" -> Value(Whole(0))
    [] model.kind = "delay" /\ SigmaTable(mode, edge) = "before the first" -> Undefined
    [] OTHER -> LookUp(model.tables[SigmaTable(mode, edge)], slew, load)

Larger(rise, fall) ==
  CASE ~IsValue(rise) -> rise
    [] IsValue(rise) /\ ~IsValue(fall) -> fall
    [] OTHER -> IF Less(fall[2], rise[2]) THEN rise ELSE fall
TableDrive(table) == IF table = None THEN Value(Whole(0)) ELSE driveResistance(table)
ModelDrive(model) ==
  CASE model = None -> Undefined
    [] model # None /\ model.kind # "delay" -> Value(Whole(0))
    [] OTHER -> Larger(TableDrive(model.tables["rise_transition"]),
                       TableDrive(model.tables["fall_transition"]))

(* Answers are in nanoseconds whatever the unit of the library; a table that *)
(* is missing counts as 0.                                                   *)
PerNano(unit) == CASE unit = "ns" -> 1 [] unit = "ps" -> Kilo [] unit = "fs" -> Kilo * Kilo

InNanos_NotBack(cell, found, derate) ==
  CASE IsValue(found) -> Value(Times(found[2], Whole(derate)))
    [] found = Missing -> Value(Whole(0))
    [] OTHER -> found
InNanos(cell, found, derate) ==
  CASE IsValue(found) -> Value(Times(Over(found[2], Whole(PerNano(cell.time_unit))), Whole(derate)))
    [] found = Missing -> Value(Whole(0))
    [] OTHER -> found

getDelayOrConstrainCheckNs(cell, arc, edge, slew, other) ==
  LET inUnit == slew * PerNano(cell.time_unit) IN
  IF arc.model = None THEN Undefined
  ELSE InNanos(cell, IF isDelayArc(arc) THEN gateDelay(arc.model, edge, inUnit, other)
                                        ELSE gateCheckConstrain(arc.model, edge, inUnit, other), 1)

getSlewNs(cell, arc, edge, slew, load) ==
  CASE ~isDelayArc(arc) -> Stops
    [] isDelayArc(arc) /\ arc.model = None -> Undefined
    [] OTHER -> InNanos(cell, gateSlew(arc.model, edge, slew * PerNano(cell.time_unit), load),
                        cell.slew_derate)

getDelaySigma(cell, arc, mode, edge, slew, load) ==
  IF arc.model = None THEN Undefined
  ELSE InNanos(cell, gateSigma(arc.model, mode, edge, slew * PerNano(cell.time_unit), load), 1)
getSlewSigma(cell, arc, mode, edge, slew, load) ==
  CASE ~isDelayArc(arc) -> Stops
    [] isDelayArc(arc) /\ arc.model = None -> Undefined
    [] OTHER -> InNanos(cell, gateSigma(arc.model, mode, edge, slew * PerNano(cell.time_unit), load),
                        cell.slew_derate)

getArcCurrent(arc, edge, slew, load) ==
  CASE ~isDelayArc(arc) -> Stops
    [] isDelayArc(arc) /\ arc.model = None -> Undefined
    [] OTHER -> IF arc.model.currents[edge] = None THEN Missing
                ELSE gateOutputCurrent(arc.model.currents[edge], slew, load)

-----------------------------------------------------------------------------
(* Sets of arcs, which differ only in their condition.  The arcs of a delay  *)
(* set that cannot turn the input edge into the output edge are left out;    *)
(* the rest is sorted, worst first.                                          *)
Turns_UnateOnly(arc, input_edge, output_edge) ==
  IF input_edge = output_edge THEN isPositiveArc(arc) ELSE isNegativeArc(arc)
Turns(arc, input_edge, output_edge) ==
  IF input_edge = output_edge THEN ~isNegativeArc(arc) ELSE ~isPositiveArc(arc)

AllOrFirstFailure(found) ==
  LET failed == {k \in DOMAIN found : ~IsValue(found[k])}
  IN  IF failed # {} THEN found[Min(failed)] ELSE Value([k \in DOMAIN found |-> found[k][2]])

Answers(arcs, Takes(_), Answer(_)) ==
  LET taken == SelectSeq(arcs, Takes)
      found == AllOrFirstFailure([k \in DOMAIN taken |-> Answer(taken[k])]) IN
  CASE taken = <<>> -> Stops
    [] taken # <<>> /\ ~IsValue(found) -> found
    [] OTHER -> Value(SortSeq(found[2], LAMBDA a, b : Less(b, a)))

SetDelays(cell, arcs, input_edge, output_edge, slew, other) ==
  LET Takes(arc) == isCheckArc(arc) \/ Turns(arc, input_edge, output_edge)
      Answer(arc) == getDelayOrConstrainCheckNs(cell, arc, output_edge, slew, other)
  IN  Answers(arcs, Takes, Answer)
SetSlews(cell, arcs, input_edge, output_edge, slew, load) ==
  LET Takes(arc) == Turns(arc, input_edge, output_edge)
      Answer(arc) == getSlewNs(cell, arc, output_edge, slew, load)
  IN  Answers(arcs, Takes, Answer)

SetMatches(arcs, edge) == \E k \in DOMAIN arcs : isMatchTimingType(arcs[k], edge)
SetIsPositive(arcs) == \A k \in DOMAIN arcs : isPositiveArc(arcs[k])
SetIsNegative(arcs) == \A k \in DOMAIN arcs : isNegativeArc(arcs[k])
SetIsUnate(arcs) == \A k \in DOMAIN arcs : isUnateArc(arcs[k])
isTwoTypeSenseArcSet(arcs) ==
  /\ \E k \in DOMAIN arcs : isPositiveArc(arcs[k])
  /\ \E k \in DOMAIN arcs : isNegativeArc(arcs[k])

-----------------------------------------------------------------------------
(* The cell: an arc joins the set of its ends and timing type.               *)
Leads(arc, from, to) == arc.src = from /\ arc.snk = to
FirstSet(sets, Fits(_)) ==
  LET fitting == {k \in DOMAIN sets : Fits(Head(sets[k]))}
  IN  IF fitting = {} THEN 0 ELSE Min(fitting)

findTypedArcSet(cell, from, to, type) ==
  FirstSet(cell.arc_sets, LAMBDA arc : Leads(arc, from, to) /\ arc.type = type)
findLibertyArcSet(cell, from, to) == FirstSet(cell.arc_sets, LAMBDA arc : Leads(arc, from, to))
findArcSetsTo(cell, to) == SelectSeq(cell.arc_sets, LAMBDA arcs : Head(arcs).snk = to)
findLibertyPowerArcSet(cell, from, to) == FirstSet(cell.power_sets, LAMBDA arc : Leads(arc, from, to))

Joined(sets, k, arc) == IF k = 0 THEN Append(sets, <<arc>>) ELSE [sets EXCEPT ![k] = Append(@, arc)]
addLibertyArc(cell, arc) ==
  [cell EXCEPT !.arc_sets = Joined(@, findTypedArcSet(cell, arc.src, arc.snk, arc.type), arc)]
addLibertyPowerArc(cell, arc) ==
  [cell EXCEPT !.power_sets = Joined(@, findLibertyPowerArcSet(cell, arc.src, arc.snk), arc)]

(* The one input and the one output of a buffer or inverter; an inout pin    *)
(* counts as input.                                                          *)
bufferPorts(cell) ==
  LET inputs == SelectSeq(cell.ports, isInput)
      outputs == SelectSeq(cell.ports, LAMBDA p : isOutput(p) /\ ~isInput(p))
      One(s) == IF s = <<>> THEN None ELSE Head(s) IN
  IF Len(inputs) > 1 \/ Len(outputs) > 1 THEN [input |-> None, output |-> None]
  ELSE [input |-> One(inputs), output |-> One(outputs)]

HasFunction(cell, op) ==
  LET p == bufferPorts(cell)
  IN  p.input # None /\ p.output # None /\ p.output.func # None /\ p.output.func.op = op
isBuffer(cell) == HasFunction(cell, "buffer")
isInverter(cell) == HasFunction(cell, "not")

(* Questions about all arcs look at the first of each set.                   *)
isSequentialCell(cell) == \E k \in DOMAIN cell.arc_sets : isCheckArc(Head(cell.arc_sets[k]))

isClockGateCheckArc(cell, arc) ==
  LET src == get_cell_port_or_port_bus(cell, arc.src)
      snk == get_cell_port_or_port_bus(cell, arc.snk) IN
  CASE src = None \/ snk = None -> Stops
    [] src # None /\ snk # None /\ Nowhere \in {src, snk} -> Undefined
    [] OTHER -> Value(cell.is_icg /\ src.clock_pin /\ snk.enable_pin)

(* The arcs are asked in order until one says yes or the program stops.      *)
isICG(cell) ==
  LET answer(k) == isClockGateCheckArc(cell, Head(cell.arc_sets[k]))
      ends == {k \in DOMAIN cell.arc_sets : answer(k) # Value(FALSE)}
  IN  IF ends = {} THEN Value(FALSE) ELSE answer(Min(ends))

isSeqDataIn(cell, port) ==
  \A k \in DOMAIN cell.arc_sets :
     LET arc == Head(cell.arc_sets[k]) IN ~(isClearPresetArc(arc) /\ arc.src = port.name)

(* The drive of a port is the largest of all arcs to it.                     *)
Largest(drives) ==
  LET all == AllOrFirstFailure(drives)
  IN  IF ~IsValue(all) THEN all
      ELSE Value(FoldSeq(LAMBDA d, most : IF Less(most, d) THEN d ELSE most, Whole(0), all[2]))
PortDrive(cell, port) ==
  LET arcs == FlattenSeq(findArcSetsTo(cell, port.name))
  IN  Largest([k \in DOMAIN arcs |-> ModelDrive(arcs[k].model)])

convertTablePowerToMw(cell, power) == IF cell.cap_unit = "fF" THEN Over(power, Whole(Kilo)) ELSE power

-----------------------------------------------------------------------------
(* What mySTA takes over of a cell (build_arcs): the arcs that delay or      *)
(* check, each with a lookup table for every table of its model, converted   *)
(* in the order of the model.  A timing type mySTA has no name for, a model  *)
(* that is missing or of the other kind and a table that is not two-         *)
(* dimensional stop the program; the axes of a scalar table are read from a  *)
(* template it does not have.  What fails first decides.                     *)
EngineTypes == CheckTypes \cup {"clear", "combinational", "falling_edge", "min_pulse_width",
                               "non_seq_hold_rising", "non_seq_hold_falling", "non_seq_setup_rising",
                               "non_seq_setup_falling", "preset", "rising_edge",
                               "three_state_disable", "three_state_enable"}
TableNames(kind) ==
  IF kind = "delay" THEN <<"cell_rise", "cell_fall", "rise_transition", "fall_transition">>
                    ELSE <<"rise_constraint", "fall_constraint">>
EngineSense(sense) == IF sense = "default" THEN None ELSE sense

Taken(arc) == isDelayArc(arc) \/ isCheckArc(arc)

EngineArc(arc) ==
  LET kind == IF isDelayArc(arc) THEN "delay" ELSE "check"
      names == SelectSeq(TableNames(kind), LAMBDA name : arc.model.tables[name] # None)
      luts == AllOrFirstFailure([k \in DOMAIN names |-> create_lut_data(arc.model.tables[names[k]])]) IN
  CASE arc.type \notin EngineTypes \/ arc.model = None -> Stops
    [] arc.type \in EngineTypes /\ arc.model # None /\ arc.model.kind # kind -> Stops
    [] OTHER -> IF ~IsValue(luts) THEN luts
                ELSE Value([src |-> arc.src, snk |-> arc.snk, type |-> arc.type,
                            sense |-> EngineSense(arc.sense), is_delay_arc |-> isDelayArc(arc),
                            luts |-> [name \in ToSet(names) |-> luts[2][CHOOSE k \in DOMAIN names : names[k] = name]]])

build_arcs(cell) ==
  LET arcs == SelectSeq(FlattenSeq(cell.arc_sets), Taken)
  IN  AllOrFirstFailure([k \in DOMAIN arcs |-> EngineArc(arcs[k])])

=============================================================================
