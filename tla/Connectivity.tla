----------------------------- MODULE Connectivity -----------------------------
(***************************************************************************)
(* What a netlist says of its circuit, read off the text without building  *)
(* anything: which pin drives or loads which net, and which arcs there     *)
(* must be.  CircuitBuild is held against it.                              *)
(***************************************************************************)
EXTENDS CircuitBuild, FiniteSets

IsIn(x, list) == \E k \in 1 .. Len(list) : list[k] = x
Instance(k) == design.instances[k]
Cell(k) == Library[Instance(k).module]
PortsOf(k) == IF Instance(k).module \in DOMAIN Library THEN DOMAIN Cell(k).ports ELSE {}

\* The places of the netlist where a pin meets a net: an entry of the input
\* or output list, or a port of an instance whose cell has that port.
PrimaryPlaces ==
  {<<"input", k, None>> : k \in 1 .. Len(design.inputs)}
    \cup {<<"output", k, None>> : k \in 1 .. Len(design.outputs)}
InstancePlaces ==
  {<<"instance", k, p>> : k \in 1 .. Len(design.instances), p \in Ports}
Entries(x) ==
  {Instance(x[2]).port_list[k].net : k \in first_entry(Instance(x[2]).port_list, x[3])}
Places ==
  PrimaryPlaces \cup
  {x \in InstancePlaces : x[3] \in PortsOf(x[2]) /\ Entries(x) # {}}

NetAt(x) == CASE x[1] = "input"  -> design.inputs[x[2]]
              [] x[1] = "output" -> design.outputs[x[2]]
              [] OTHER           -> CHOOSE n \in Entries(x) : TRUE
PinAt(x) == IF x[1] = "instance" THEN <<Instance(x[2]).name, x[3]>> ELSE <<None, NetAt(x)>>

\* Of instances of one name, the first whose cell has a port makes the pin.
HasPin(k, q) == Instance(k).name = q[1] /\ q[2] \in PortsOf(k)
MakesPin(k, q) == HasPin(k, q) /\ \A l \in 1 .. k - 1 : ~ HasPin(l, q)

\* A name in both lists is an input.
Drives(x) == CASE x[1] = "input"  -> TRUE
               [] x[1] = "output" -> IsIn(NetAt(x), design.inputs)
               [] OTHER           -> \E k \in 1 .. Len(design.instances) :
                                       MakesPin(k, PinAt(x)) /\ Cell(k).ports[x[3]] = "OUTPUT"
Drivers(n) == {x \in Places : Drives(x) /\ NetAt(x) = n}
Loads(n) == {x \in Places : ~ Drives(x) /\ NetAt(x) = n}

Assigned(n, before) == \E k \in 1 .. before - 1 : design.assignments[k].lhs = n
DrivenBefore(n, k) == Drivers(n) # {} \/ Assigned(n, k)

\* The netlists build_circuit accepts: what is used is declared, a net has
\* one driver, and an assignment comes after the one that drives its right
\* side.
ModulesKnown == \A k \in 1 .. Len(design.instances) : Instance(k).module \in DOMAIN Library
PortsExist ==
  \A k \in 1 .. Len(design.instances) : \A a \in 1 .. Len(Cell(k).arcs) :
    \A port \in {Cell(k).arcs[a].src_port, Cell(k).arcs[a].snk_port} :
      \E l \in 1 .. Len(design.instances) : HasPin(l, <<Instance(k).name, port>>)
NetsDeclared ==
  /\ \A x \in Places : IsIn(NetAt(x), design.wires)
  /\ \A k \in 1 .. Len(design.assignments) :
       /\ IsIn(design.assignments[k].lhs, design.wires)
       /\ IsIn(design.assignments[k].rhs, design.wires)
OneDriver == \A x, y \in {z \in Places : Drives(z)} : NetAt(x) = NetAt(y) => x = y
AssignmentsInOrder ==
  \A k \in 1 .. Len(design.assignments) :
    /\ DrivenBefore(design.assignments[k].rhs, k)
    /\ ~ DrivenBefore(design.assignments[k].lhs, k)
WellFormed ==
  ModulesKnown /\ PortsExist /\ NetsDeclared /\ OneDriver /\ AssignmentsInOrder

-----------------------------------------------------------------------------
Built == phase \in {"built", "clock", "idle"}
ThePins == {p \in PinIds : Exists(p)}
Times(e, s) == Cardinality({k \in 1 .. Len(s) : s[k] = e})
ArcOf(p, q, kind) == [from |-> p, to |-> q, kind |-> kind]

\* Who drives a net, whatever the order of the assignments.
SourcesRight ==
  /\ \A n \in nets : \A x \in Drivers(n) : source[n] = PinAt(x)
  /\ \A k \in 1 .. Len(design.assignments) :
       source[design.assignments[k].lhs] = source[design.assignments[k].rhs]
  /\ \A n \in nets :
       Drivers(n) = {} /\ ~ Assigned(n, Len(design.assignments) + 1) => source[n] = None

\* Between two pins there are as many wire arcs as places where the second
\* loads a net the first drives.
WiresRight ==
  LET loads == {x \in Places : ~ Drives(x)}
  IN \A p \in ThePins, q \in ThePins :
       Times(ArcOf(p, q, "WIRE"), arcs) = Cardinality({x \in loads : PinAt(x) = q /\ source[NetAt(x)] = p})

\* Each instance has the arcs of its cell, between its own pins.
CellArcs == UNION {{k} \X (1 .. Len(Cell(k).arcs)) : k \in 1 .. Len(design.instances)}
ArcAt(x) ==
  LET a == Cell(x[1]).arcs[x[2]]
  IN ArcOf(<<Instance(x[1]).name, a.src_port>>, <<Instance(x[1]).name, a.snk_port>>, a.kind)
CellArcsRight ==
  \A p \in ThePins, q \in ThePins, kind \in {"DELAY", "CONSTRAINT"} :
    Times(ArcOf(p, q, kind), arcs) = Cardinality({x \in CellArcs : ArcAt(x) = ArcOf(p, q, kind)})
=============================================================================
