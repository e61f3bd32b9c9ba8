-------------------------- MODULE LibraryQueries ---------------------------
(* A finished library as its readers see it.  Nothing changes it any more;   *)
(* a behaviour is one subject (a table, a set of current vectors or a cell)  *)
(* that is asked everything, or a call of the classifier on some libraries.  *)
EXTENDS ClassifyCells

CONSTANTS
  Tables,      \* the tables asked
  CCSTables,   \* the sets of current vectors asked
  CellParts,   \* the cells asked, each as [cell, arcs, powers] with the arcs in file order
  Points       \* the slews, loads and constrained slews they are asked for

VARIABLE subject

Subjects ==
  [kind : {"table"}, table : Tables] \cup [kind : {"currents"}, vectors : CCSTables]
  \cup [kind : {"cell"}, parts : CellParts]

QInit == Init /\ subject \in IF libs = <<>> THEN Subjects ELSE {[kind |-> "libraries"]}
QNext == Next /\ UNCHANGED subject
QSpec == QInit /\ [][QNext]_<<vars, subject>>

SameOutcome(o, p) == IF IsValue(o) /\ IsValue(p) THEN Same(o[2], p[2]) ELSE o = p

-----------------------------------------------------------------------------
(* Lut::get_value answers as LibTable::findValue does for every table mySTA  *)
(* takes over, with its first argument on the first axis whatever that axis  *)
(* is: a table whose first variable is the load is looked up with slew and   *)
(* load exchanged.  Both are undefined exactly on an axis with one           *)
(* breakpoint, and on the grid both give the number in the file.             *)
LookupsAgree ==
  LET t == subject.table
      lut == create_lut_data(t)[2]
      OnGrid(i, j) == t.values[Len(lut.index_2) * (i - 1) + j] IN
  (subject.kind = "table" /\ IsValue(create_lut_data(t)) /\ t.template # None /\ t.template.variable1 # None /\ FitsTemplate(t))
    => /\ \A x, y \in Points :
            LET found == IF SlewFirst(t) THEN findValue(t, x, y) ELSE findValue(t, y, x)
            IN  /\ SameOutcome(get_value(lut, x, y), found)
                /\ IsValue(found) \/ found = Undefined
                /\ found = Undefined <=> 1 \in {Len(lut.index_1), Len(lut.index_2)}
       /\ 1 \notin {Len(lut.index_1), Len(lut.index_2)} =>
            \A i \in DOMAIN lut.index_1, j \in DOMAIN lut.index_2 :
               SameOutcome(get_value(lut, lut.index_1[i], lut.index_2[j]), Value(Whole(OnGrid(i, j))))

(* The output current at a characterised slew and load is that of its own    *)
(* vector, without sign, at the times the sampling asks for.  There is an    *)
(* answer below the highest characterised slew and load only, and it stops   *)
(* the program exactly when a corner ends before the sampling does, which    *)
(* may depend on the corner the compiler samples first.                      *)
CurrentsAtGrid ==
  LET vectors == subject.vectors
      slews == {vectors[i].slew : i \in DOMAIN vectors}
      loads == {vectors[i].load : i \in DOMAIN vectors} IN
  subject.kind = "currents" =>
    \A slew, load \in Points :
      LET four == gateOutputCurrent(vectors, slew, load) IN
      /\ four = Undefined <=> slew >= Max(slews) \/ load >= Max(loads)
                              \/ Cardinality(slews) = 1 \/ Cardinality(loads) = 1
      /\ four # Undefined =>
           \A sampling \in Samplings(four, None) :
             LET currents == getOutputCurrent(four, sampling, slew, load)
                 own == four[<<1, 1>>] IN
             /\ currents = Stops <=> \E q \in DOMAIN four : LastTime(four[q]) - four[q].ref_time < sampling.end
             /\ (IsValue(currents) /\ own.slew = slew /\ own.load = load) =>
                  \A k \in 1..sampling.points, i \in DOMAIN own.times :
                     Same(Whole(own.times[i]), SampleTimes(own, sampling)[k])
                       => Same(currents[2][k], Whole(Magnitude(own.values[i])))

-----------------------------------------------------------------------------
(* Cells as the builder leaves them: arcs join their sets in file order.     *)
Cell ==
  FoldLeft(addLibertyPowerArc, FoldLeft(addLibertyArc, subject.parts.cell, subject.parts.arcs),
           subject.parts.powers)
Arcs == subject.parts.arcs
Edges == {"rise", "fall"}

(* The same library written in picoseconds: slews and delays a thousand      *)
(* times as large, loads as they are.                                        *)
Scaled(axis) == [k \in DOMAIN axis |-> axis[k] * Kilo]
TimeAxes(t) == {i \in DOMAIN t.axes : (i = 1) <=> SlewFirst(t)}
InPicos(t) ==
  IF t = None THEN None
  ELSE [t EXCEPT !.values = Scaled(@),
                 !.axes = [i \in DOMAIN @ |-> IF i \in TimeAxes(t)
                                              THEN [@[i] EXCEPT !.values = Scaled(@)] ELSE @[i]]]
ArcInPicos(arc) ==
  IF arc.model = None THEN arc
  ELSE [arc EXCEPT !.model.tables = [name \in DOMAIN @ |-> InPicos(@[name])]]

(* The delay and the slew of an arc, and what is answered for their sigma,   *)
(* do not depend on the time unit of its library.  Constraints do: their     *)
(* second axis is a slew as well, and is looked up in nanoseconds whatever   *)
(* the unit.                                                                 *)
UnitsCancel ==
  LET picos == [Cell EXCEPT !.time_unit = "ps"] IN
  (subject.kind = "cell" /\ Cell.time_unit = "ns") =>
    \A k \in DOMAIN Arcs, mode \in {"max", "min"}, edge \in Edges, slew, load \in Points :
       LET arc == Arcs[k]
           inPicos == ArcInPicos(arc) IN
       isDelayArc(arc) =>
         /\ SameOutcome(getDelayOrConstrainCheckNs(Cell, arc, edge, slew, load),
                        getDelayOrConstrainCheckNs(picos, inPicos, edge, slew, load))
         /\ SameOutcome(getSlewNs(Cell, arc, edge, slew, load), getSlewNs(picos, inPicos, edge, slew, load))
         /\ SameOutcome(getDelaySigma(Cell, arc, mode, edge, slew, load),
                        getDelaySigma(picos, inPicos, mode, edge, slew, load))
         /\ SameOutcome(getSlewSigma(Cell, arc, mode, edge, slew, load),
                        getSlewSigma(picos, inPicos, mode, edge, slew, load))

IsLargest(drive, drives) ==
  /\ IsValue(drive) <=> \A k \in DOMAIN drives : IsValue(drives[k])
  /\ IsValue(drive) =>
       /\ \A k \in DOMAIN drives : AtMost(drives[k][2], drive[2])
       /\ DOMAIN drives # {} => \E k \in DOMAIN drives : Same(drives[k][2], drive[2])

(* The sets of a cell answer for all its arcs, of which most questions look  *)
(* at the first of each set only.  A set gives one delay for each arc that   *)
(* can turn the input edge into the output edge, worst first, and stops the  *)
(* program when there is none; the cell is sequential exactly when some arc  *)
(* checks, a clock gate when some arc joins the gate's clock and enable pins,  *)
(* a data input exactly when no clear or preset starts at it, and never a    *)
(* buffer and an inverter.  The drive of a port is the largest of all arcs   *)
(* to it, in whichever set they are.                                         *)
ArcSetsAnswer ==
  subject.kind = "cell" =>
    /\ isSequentialCell(Cell) <=> \E k \in DOMAIN Arcs : isCheckArc(Arcs[k])
    /\ ~(isBuffer(Cell) /\ isInverter(Cell))
    /\ isICG(Cell) = Value(FALSE) <=> \A k \in DOMAIN Arcs : Value(FALSE) = isClockGateCheckArc(Cell, Arcs[k])
    /\ \A p \in DOMAIN Cell.ports :
         isSeqDataIn(Cell, Cell.ports[p])
           <=> \A k \in DOMAIN Arcs : isClearPresetArc(Arcs[k]) => Arcs[k].src # Cell.ports[p].name
    /\ \A p \in DOMAIN Cell.ports :
         LET to == {k \in DOMAIN Arcs : Arcs[k].snk = Cell.ports[p].name}
         IN  IsLargest(PortDrive(Cell, Cell.ports[p]), [k \in to |-> ModelDrive(Arcs[k].model)])
    /\ \A k \in DOMAIN subject.parts.powers :
         LET power == subject.parts.powers[k]
         IN  Contains(Cell.power_sets[findLibertyPowerArcSet(Cell, power.src, power.snk)], power)
    /\ \A k \in DOMAIN Arcs :
         LET arcs == Cell.arc_sets[findTypedArcSet(Cell, Arcs[k].src, Arcs[k].snk, Arcs[k].type)] IN
         /\ findLibertyArcSet(Cell, Arcs[k].src, Arcs[k].snk) # 0
         /\ Contains(arcs, Arcs[k])
         /\ Contains(findArcSetsTo(Cell, Arcs[k].snk), arcs)
         /\ isTwoTypeSenseArcSet(arcs) => ~SetIsPositive(arcs) /\ ~SetIsNegative(arcs)
         /\ SetIsPositive(arcs) \/ SetIsNegative(arcs) => SetIsUnate(arcs)
         /\ \A edge \in Edges : SetMatches(arcs, edge) <=> isMatchTimingType(Arcs[k], edge)
         /\ \A ins, outs \in Edges, slew, load \in Points :
              LET delays == SetDelays(Cell, arcs, ins, outs, slew, load)
                  slews == SetSlews(Cell, arcs, ins, outs, slew, load)
                  turning == SelectSeq(arcs, LAMBDA arc : IF ins = outs THEN ~isNegativeArc(arc)
                                                          ELSE ~isPositiveArc(arc)) IN
              /\ IsValue(slews) => IsValue(delays) /\ Len(delays[2]) = Len(slews[2])
              /\ (isDelayArc(Arcs[k]) /\ IsValue(delays)) => Len(delays[2]) = Len(turning) /\ turning # <<>>
              /\ IsValue(delays) => \A i, j \in DOMAIN delays[2] : i < j => AtMost(delays[2][j], delays[2][i])

(* What mySTA takes over of a cell answers as the library object does: each  *)
(* arc that delays or checks, each of its tables whose first axis is the     *)
(* slew, and each capacitance, whether given for the pin or for one mode and *)
(* edge.  One arc it cannot use spoils the cell, and the first one decides   *)
(* how: it stops at a timing type without a name in mySTA (none at all, or   *)
(* combinational for one edge only), at a missing model and at a table of    *)
(* another shape, and is undefined at a scalar table, for which the library  *)
(* object answers.                                                           *)
EngineTakesOver ==
  LET arcs == build_arcs(Cell)
      ports == build_ports(Cell)
      taken == SelectSeq(FlattenSeq(Cell.arc_sets), Taken)
      IsScalar(t) == t.template = None /\ t.axes = <<>>
      Unknown(arc) == arc.type \in {"default", "combinational_rise", "combinational_fall"} \/ arc.model = None
      TablesOf(arc) ==
        LET names == TableNames(arc.model.kind)
        IN  SelectSeq([k \in DOMAIN names |-> arc.model.tables[names[k]]], LAMBDA t : t # None)
      Bad(arc) == SelectSeq(TablesOf(arc), LAMBDA t : IsScalar(t) \/ ~Converts(t))
      spoilt == SelectSeq(taken, LAMBDA arc : Unknown(arc) \/ Bad(arc) # <<>>) IN
  subject.kind = "cell" =>
    /\ IsValue(arcs) <=> spoilt = <<>>
    /\ spoilt # <<>> => (arcs = Undefined <=> ~Unknown(Head(spoilt)) /\ IsScalar(Head(Bad(Head(spoilt)))))
    /\ arcs = Undefined => \A slew, other \in Points : IsValue(findValue(Head(Bad(Head(spoilt))), slew, other))
    /\ IsValue(arcs) =>
         \A k \in DOMAIN taken, slew, other \in Points :
           \A name \in DOMAIN arcs[2][k].luts :
             LET table == taken[k].model.tables[name]
             IN  SlewFirst(table) => SameOutcome(get_value(arcs[2][k].luts[name], slew, other), findValue(table, slew, other))
    /\ IsValue(arcs) => \A k \in DOMAIN taken : Len(TablesOf(taken[k])) = Cardinality(DOMAIN arcs[2][k].luts)
    /\ IsValue(ports) =>
         \A p \in DOMAIN Cell.ports, mode \in {"max", "min", "maxmin"}, edge \in Edges,
           other \in {"max", "min"} \X Edges :
           LET port == Cell.ports[p] IN
           /\ PortCap(set_port_cap(port, mode, edge, 7), other[1], other[2])
                = IF other \in Modes(mode) \X {edge} THEN 7 ELSE ports[2][p].capacitance[other]
           /\ get_port_slew_limit(set_port_slew_limit(set_port_cap_limit(port, mode, 7), mode, 8), other[1])
                = IF other[1] \in Modes(mode) THEN 8 ELSE get_port_slew_limit(port, other[1])

=============================================================================
