------------------------ MODULE CircuitBuildProperties ------------------------
(***************************************************************************)
(* What build_circuit and deduce_clock promise.                            *)
(***************************************************************************)
EXTENDS Connectivity

\* The state of the builder is of its types: nets and pins that are pointed
\* to exist, and no map holds what was not created.
TypeOK ==
  /\ design \in VerilogModule
  /\ nets \subseteq Names
  /\ source \in [Names -> PinIds \cup {None}]
  /\ sinks \in [Names -> Seq(PinIds)]
  /\ pin_type \in [PinIds -> PinTypes \cup {None}]
  /\ cells \in Seq(CellInst)
  /\ arcs \in Seq(Arc)
  /\ clock \in PinIds \cup {None}

\* The graph is the one the netlist describes: each net has its driver,
\* through any chain of assignments, each load one wire arc from it, each
\* cell its arcs - in whatever order the hash tables are walked
\* (CircuitBuilder::build_circuit).
BuildsNetlist == Built /\ builds = 1 => SourcesRight /\ WiresRight /\ CellArcsRight

\* build_circuit refuses a netlist with an undeclared net, an unknown cell,
\* two drivers of a net, or an assignment before its right side is driven,
\* and no other; which assertion fires may depend on the hash order, whether
\* one does may not.
RefusesIllFormed ==
  builds = 1 => /\ Built => WellFormed
                /\ error # None /\ phase # "clock" => ~ WellFormed

\* Timing starts at what drives a net: no arc leads into a primary input, a
\* wire arc joins a driver to a load, and both ends exist.  Timer rests on this
\* (Circuit!DriverAssumption): a pass would overwrite the values set there.
ArcsLeadToLoads ==
  \A k \in 1 .. Len(arcs) :
    /\ Exists(arcs[k].from) /\ Exists(arcs[k].to)
    /\ pin_type[arcs[k].to] # "PRIMARY_INPUT"
    /\ arcs[k].kind = "WIRE" => /\ pin_type[arcs[k].from] \in SourceTypes
                                /\ pin_type[arcs[k].to] \in SinkTypes

\* A pin that exists keeps its type, a net that has a driver keeps it
\* (CircuitBuilder::create_pin, Net::set_source), also in a second build.
DriversStay ==
  [][/\ \A p \in PinIds : pin_type[p] # None => pin_type'[p] = pin_type[p]
     /\ \A n \in Names : source[n] # None => source'[n] = source[n]]_vars

\* What deduce_clock looks up is a pin: find_pin asserts it
\* (CircuitBuilder.cc, find_pin).
ClockLookupFindsPin == phase = "clock" => error = None

\* A second build_circuit on one CircuitBuilder (link_design of pySTA, called
\* twice) never doubles the wires of a circuit: it stops at the first driver it
\* meets again, and passes only where no net has a driver.
RebuildStops == Built /\ builds = 2 => \A n \in nets : source[n] = None

\* A build ends, with a circuit or with an assertion, and so does deduce_clock.
CallsEnd == phase \notin Resting ~> phase \in Resting \/ error # None

-----------------------------------------------------------------------------
\* What the loops keep, from which ArcsLeadToLoads follows: primary pins are
\* of primary types and the pins of instances of the others, sources drive
\* and sinks load.
PinTypesFit ==
  \A p \in PinIds :
    pin_type[p] \in IF p[1] = None THEN {None, "PRIMARY_INPUT", "PRIMARY_OUTPUT"}
                                   ELSE {None, "INPUT", "OUTPUT"}
SourcesDrive == \A n \in Names : source[n] # None => pin_type[source[n]] \in SourceTypes
SinksLoad ==
  \A n \in Names : \A k \in 1 .. Len(sinks[n]) : pin_type[sinks[n][k]] \in SinkTypes
GraphInv == TypeOK /\ PinTypesFit /\ SourcesDrive /\ SinksLoad /\ ArcsLeadToLoads

-----------------------------------------------------------------------------
(***************************************************************************)
(* What the loops have passed, and what the state says of it.  Of all that *)
(* a former build has passed: nets, pins, sources and arcs stay.           *)
(***************************************************************************)
LoopNo == [nets |-> 1, inputs |-> 2, outputs |-> 3, cells |-> 4, pins |-> 5, connect |-> 6,
           cell_arcs |-> 7, assigns |-> 8, wires |-> 9, built |-> 10, clock |-> 10, idle |-> 10]
Behind(loop, k) == LoopNo[phase] > LoopNo[loop] \/ (phase = loop /\ k < i)
Passed(loop, k) == builds > 1 \/ Behind(loop, k)

ControlOK ==
  /\ phase \in Phases /\ i \in Nat \ {0} /\ j \in Nat \ {0} /\ builds \in Nat \ {0}
  /\ phase \notin {"connect", "wires"} => done = {}
  /\ phase = "wires" => done \subseteq nets

\* The cells of this build are the instances it has passed.
CellsRight ==
  /\ \A k \in 1 .. Len(design.instances) :
       Passed("cells", k) => Instance(k).module \in DOMAIN Library
  /\ LoopNo[phase] >= LoopNo["cells"] =>
       /\ Len(cells) <= Len(design.instances)
       /\ Len(cells) = IF phase = "cells" THEN i - 1 ELSE Len(design.instances)
       /\ \A k \in 1 .. Len(cells) :
            /\ cells[k].name = Instance(k).name /\ cells[k].module = Instance(k).module
            /\ cells[k].port_mapping = port_mapping(Instance(k).port_list)

NetsRight ==
  \A n \in Names : n \in nets <=> \E k \in 1 .. Len(design.wires) : Passed("nets", k) /\ design.wires[k] = n

InputMet(n) == \E k \in 1 .. Len(design.inputs) : Passed("inputs", k) /\ design.inputs[k] = n
OutputMet(n) == \E k \in 1 .. Len(design.outputs) : Passed("outputs", k) /\ design.outputs[k] = n
PinsRight ==
  /\ \A p \in PinIds : p[1] = None =>
       pin_type[p] = IF InputMet(p[2]) THEN "PRIMARY_INPUT"
                     ELSE IF OutputMet(p[2]) THEN "PRIMARY_OUTPUT" ELSE None
  /\ \A p \in PinIds : p[1] # None =>
       /\ pin_type[p] # None => \E k \in 1 .. Len(design.instances) : Passed("pins", k) /\ HasPin(k, p)
       /\ \A k \in 1 .. Len(design.instances) :
            Passed("pins", k) /\ MakesPin(k, p) => pin_type[p] = Cell(k).ports[p[2]]

\* The places where a pin met its net, in this build and in any.
MetNow(x) == CASE x[1] = "input"  -> Behind("inputs", x[2])
               [] x[1] = "output" -> Behind("outputs", x[2])
               [] OTHER           -> \/ Behind("connect", x[2])
                                     \/ phase = "connect" /\ x[2] = i /\ x[3] \in done
Met(x) == builds > 1 \/ MetNow(x)

\* A met driver is the source of its net and the only one; another source came
\* from one by assignments; a build that is not the first meets no driver.
DriversMet ==
  /\ \A x \in Places : Met(x) => NetAt(x) \in nets
  /\ \A x \in Places : Met(x) /\ Drives(x) => source[NetAt(x)] = PinAt(x)
  /\ \A x, y \in Places : Met(x) /\ Met(y) /\ Drives(x) /\ Drives(y) /\ NetAt(x) = NetAt(y) => x = y
  /\ builds > 1 => \A x \in Places : MetNow(x) => ~ Drives(x)
SourcesMet ==
  \A n \in Names : source[n] # None =>
    \E x \in Places : /\ Met(x) /\ Drives(x)
                      /\ \/ NetAt(x) = n
                         \/ \E k \in 1 .. Len(design.assignments) :
                              Passed("assigns", k) /\ design.assignments[k].lhs = n
AssignsMet ==
  \A k \in 1 .. Len(design.assignments) : Passed("assigns", k) =>
    LET lhs == design.assignments[k].lhs
        rhs == design.assignments[k].rhs
    IN /\ {lhs, rhs} \subseteq nets
       /\ DrivenBefore(rhs, k) /\ ~ DrivenBefore(lhs, k)
       /\ source[lhs] # None /\ source[lhs] = source[rhs]
ArcsMet(k) == IF Passed("cell_arcs", k) THEN 1 .. Len(Cell(k).arcs)
              ELSE IF phase = "cell_arcs" /\ k = i THEN 1 .. j - 1 ELSE {}
PortsMet ==
  \A k \in 1 .. Len(design.instances) : \A a \in ArcsMet(k) :
    \A port \in {Cell(k).arcs[a].src_port, Cell(k).arcs[a].snk_port} :
      \E l \in 1 .. Len(design.instances) : HasPin(l, <<Instance(k).name, port>>)
ErrorsRight == builds = 1 /\ phase # "clock" /\ error # None => ~ WellFormed

BuildInv ==
  /\ ControlOK /\ CellsRight /\ NetsRight /\ PinsRight /\ DriversMet /\ SourcesMet
  /\ AssignsMet /\ PortsMet /\ ErrorsRight

-----------------------------------------------------------------------------
(***************************************************************************)
(* How often each connection and each arc is there, in the first build.    *)
(***************************************************************************)
ArcsBefore ==
  /\ LoopNo[phase] < LoopNo["cell_arcs"] => arcs = << >>
  /\ LoopNo[phase] < LoopNo["wires"] => \A k \in 1 .. Len(arcs) : arcs[k].kind # "WIRE"
  /\ \A k \in 1 .. Len(design.instances) : \A a \in ArcsMet(k) : a <= Len(Cell(k).arcs)
SinksMet ==
  LET loads == {x \in Places : MetNow(x) /\ ~ Drives(x)}
  IN \A n \in Names, q \in PinIds :
       Times(q, sinks[n]) = Cardinality({x \in loads : PinAt(x) = q /\ NetAt(x) = n})
CellArcsMet ==
  LoopNo[phase] >= LoopNo["cell_arcs"] =>
    LET met == {x \in CellArcs : x[2] \in ArcsMet(x[1])}
    IN \A p \in ThePins, q \in ThePins, kind \in {"DELAY", "CONSTRAINT"} :
         Times(ArcOf(p, q, kind), arcs) = Cardinality({x \in met : ArcAt(x) = ArcOf(p, q, kind)})
WiresMet ==
  LoopNo[phase] >= LoopNo["wires"] =>
    LET loads == {x \in Places : ~ Drives(x) /\ (phase = "wires" => NetAt(x) \in done)}
    IN \A p \in ThePins, q \in ThePins :
         Times(ArcOf(p, q, "WIRE"), arcs) =
         Cardinality({x \in loads : PinAt(x) = q /\ source[NetAt(x)] = p})
CountInv == builds = 1 => ArcsBefore /\ SinksMet /\ CellArcsMet /\ WiresMet

\* The inductive invariant of the proofs.
IInv == GraphInv /\ BuildInv /\ CountInv
=============================================================================
