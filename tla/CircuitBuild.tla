----------------------------- MODULE CircuitBuild -----------------------------
(***************************************************************************)
(* CircuitBuilder: how build_circuit turns the top module of a netlist and *)
(* the cells of a library into pins, nets and arcs, and how deduce_clock   *)
(* searches the result.                                                    *)
(*                                                                         *)
(* One step is one turn of a loop.  Sequences are walked in the order of   *)
(* the netlist; the maps of nets and of a cell's pins are hash tables and  *)
(* are walked in any order.  LOG_ASSERT ends the program: `error' then     *)
(* names the assertion and nothing moves any more.                         *)
(*                                                                         *)
(* A pin is a pair: <<instance, port>> stands for the name                 *)
(* "instance/port", <<None, net>> for a primary input or output, which has *)
(* the name of its net.                                                    *)
(***************************************************************************)
EXTENDS Integers, Sequences

CONSTANTS
  Names,       \* names of nets
  Instances,   \* names of instances
  Ports,       \* names of the ports of library cells
  Modules,     \* names of library cells a netlist may ask for
  Library,     \* what LibertyParser::select_cell finds
  Designs,     \* the top modules a netlist file may have
  None,        \* nullptr, std::nullopt
  MaxBuilds    \* bound: calls of build_circuit on one CircuitBuilder

PinIds == (Instances \cup {None}) \X (Names \cup Ports)
SinkTypes == {"INPUT", "PRIMARY_OUTPUT"}
SourceTypes == {"OUTPUT", "PRIMARY_INPUT"}
PinTypes == SinkTypes \cup SourceTypes

port_list_t == [port : Ports, net : Names]
instance_t == [name : Instances, module : Modules, port_list : Seq(port_list_t)]
assign_t == [lhs : Names, rhs : Names]
VerilogModule ==
  [wires : Seq(Names), inputs : Seq(Names), outputs : Seq(Names),
   instances : Seq(instance_t), assignments : Seq(assign_t)]

\* A port of a library cell drives or loads its net; an arc joins two ports
\* of the cell, for a delay or for a constraint.
ArcData == [src_port : Ports, snk_port : Ports, kind : {"DELAY", "CONSTRAINT"}]
CellLib == [ports : UNION {[P -> {"INPUT", "OUTPUT"}] : P \in SUBSET Ports},
            arcs : Seq(ArcData)]

ASSUME NameAssumption == None \notin Instances \cup Names \cup PinTypes \cup PinIds
ASSUME PortAssumption == "CK" \in Ports
ASSUME DesignAssumption == Designs \subseteq VerilogModule
ASSUME LibraryAssumption ==
  /\ DOMAIN Library \subseteq Modules
  /\ \A m \in DOMAIN Library : Library[m] \in CellLib

VARIABLES
  design,    \* VerilogParser::get_top_module
  nets,      \* the keys of CircuitBuilder::nets
  source,    \* Net::_source
  sinks,     \* Net::_sinks
  pin_type,  \* the keys of CircuitBuilder::pins and their Pin::_type
  cells,     \* CircuitBuilder::cells
  arcs,      \* all arcs in the order of creation, of which delay_arcs,
             \* constraint_arcs and every Pin::_fanout are subsequences
  clock,     \* the result of deduce_clock
  phase,     \* the loop that runs
  i, j,      \* its position, and that of a loop inside it
  done,      \* what a walk over a hash table has passed
  builds,    \* calls of build_circuit so far
  error      \* the LOG_ASSERT that failed

graph == <<nets, source, sinks, pin_type, cells, arcs>>
control == <<phase, i, j, done>>
vars == <<design, graph, clock, control, builds, error>>

Arc == [from : PinIds, to : PinIds, kind : {"DELAY", "CONSTRAINT", "WIRE"}]
CellInst == [name : Instances, module : DOMAIN Library, port_mapping : [Ports -> Names \cup {None}]]

Phases == {"nets", "inputs", "outputs", "cells", "pins", "connect", "cell_arcs",
           "assigns", "wires", "built", "clock", "idle"}
Resting == {"built", "idle"}

Init ==
  /\ design \in Designs
  /\ nets = {}
  /\ source = [n \in Names |-> None]
  /\ sinks = [n \in Names |-> << >>]
  /\ pin_type = [p \in PinIds |-> None]
  /\ cells = << >>
  /\ arcs = << >>
  /\ clock = None
  /\ phase = "nets" /\ i = 1 /\ j = 1 /\ done = {}
  /\ builds = 1
  /\ error = None

Exists(p) == pin_type[p] # None

Stop(assertion) ==
  /\ error' = assertion
  /\ UNCHANGED <<design, graph, clock, control, builds>>

AtItem(name, list) == phase = name /\ i \in 1 .. Len(list)
NextItem_Stuck == i' = i /\ j' = 1 /\ done' = {} /\ UNCHANGED phase
NextItem == i' = i + 1 /\ j' = 1 /\ done' = {} /\ UNCHANGED phase

-----------------------------------------------------------------------------
\* create_pin keeps the pin, and its type, if the name is taken.
create_pin_Replace(p, type) == type
create_pin(p, type) == IF pin_type[p] = None THEN type ELSE pin_type[p]

\* Net::set_source asserts that the net has none yet.
has_source_Never(type, n) == FALSE
has_source(type, n) == type \in SourceTypes /\ source[n] # None

\* Pin::connect_to: a pin that drives becomes the net's source, the others
\* are appended to its sinks.
connect_to_Sink(p, type, n) ==
  /\ sinks' = [sinks EXCEPT ![n] = Append(@, p)]
  /\ source' = IF type \in SourceTypes THEN [source EXCEPT ![n] = p] ELSE source
connect_to(p, type, n) ==
  /\ sinks' = IF type \in SinkTypes THEN [sinks EXCEPT ![n] = Append(@, p)] ELSE sinks
  /\ source' = IF type \in SourceTypes THEN [source EXCEPT ![n] = p] ELSE source

create_nets ==
  /\ AtItem("nets", design.wires)
  /\ nets' = nets \cup {design.wires[i]}
  /\ NextItem
  /\ UNCHANGED <<design, source, sinks, pin_type, cells, arcs, clock, builds, error>>

\* One turn of a loop of create_primary_io.
create_primary(name, list, type) ==
  /\ AtItem(name, list)
  /\ LET n == list[i]
         p == <<None, n>>
         t == create_pin(p, type)
     IN \/ n \notin nets /\ Stop("net does not exist")
        \/ n \in nets /\ has_source(t, n) /\ Stop("net already has source")
        \/ /\ n \in nets /\ ~ has_source(t, n)
           /\ pin_type' = [pin_type EXCEPT ![p] = t]
           /\ connect_to(p, t, n)
           /\ NextItem
           /\ UNCHANGED <<design, nets, cells, arcs, clock, builds, error>>
create_primary_inputs == create_primary("inputs", design.inputs, "PRIMARY_INPUT")
create_primary_outputs == create_primary("outputs", design.outputs, "PRIMARY_OUTPUT")

\* The port list becomes a hash table: of two entries for a port the first stays.
first_entry(list, port) ==
  {k \in 1 .. Len(list) : /\ list[k].port = port
                          /\ \A l \in 1 .. k - 1 : list[l].port # port}
port_mapping(list) ==
  [port \in Ports |->
     IF first_entry(list, port) = {} THEN None
     ELSE list[CHOOSE k \in first_entry(list, port) : TRUE].net]

create_cells ==
  /\ AtItem("cells", design.instances)
  /\ LET inst == design.instances[i]
     IN \/ inst.module \notin DOMAIN Library /\ Stop("module not in library")
        \/ /\ inst.module \in DOMAIN Library
           /\ cells' = Append(cells, [name |-> inst.name, module |-> inst.module,
                                      port_mapping |-> port_mapping(inst.port_list)])
           /\ NextItem
           /\ UNCHANGED <<design, nets, source, sinks, pin_type, arcs, clock, builds, error>>

-----------------------------------------------------------------------------
\* process_all_cells: pins of all cells, connections of all, arcs of all.
get_ports(c) == DOMAIN Library[c.module].ports
get_arcs(c) == Library[c.module].arcs
pin_name(c, port) == <<c.name, port>>

create_pins ==
  /\ AtItem("pins", cells)
  /\ LET c == cells[i]
     IN pin_type' = [p \in PinIds |->
          IF p[1] = c.name /\ p[2] \in get_ports(c)
          THEN create_pin(p, Library[c.module].ports[p[2]])
          ELSE pin_type[p]]
  /\ NextItem
  /\ UNCHANGED <<design, nets, source, sinks, cells, arcs, clock, builds, error>>

\* One turn of the loop of connect_pins_to_nets, over the pins of a cell.
connect_pin ==
  /\ AtItem("connect", cells)
  /\ \E port \in get_ports(cells[i]) \ done :
       LET c == cells[i]
           p == pin_name(c, port)
           t == pin_type[p]
           n == c.port_mapping[port]
           connected == n # None
       IN \/ connected /\ n \notin nets /\ Stop("net does not exist")
          \/ connected /\ n \in nets /\ has_source(t, n) /\ Stop("net already has source")
          \/ /\ \/ connected /\ n \in nets /\ ~ has_source(t, n) /\ connect_to(p, t, n)
                \/ ~ connected /\ UNCHANGED <<source, sinks>>
             /\ done' = done \cup {port}
             /\ UNCHANGED <<design, nets, pin_type, cells, arcs, clock, phase, i, j, builds, error>>

connected_cell ==
  /\ AtItem("connect", cells)
  /\ done = get_ports(cells[i])
  /\ NextItem
  /\ UNCHANGED <<design, graph, clock, builds, error>>

\* One turn of the loop of create_arcs, over the arcs of a cell.
create_cell_arc ==
  /\ AtItem("cell_arcs", cells)
  /\ j \in 1 .. Len(get_arcs(cells[i]))
  /\ LET a == get_arcs(cells[i])[j]
         from == pin_name(cells[i], a.src_port)
         to == pin_name(cells[i], a.snk_port)
     IN \/ (~ Exists(from) \/ ~ Exists(to)) /\ Stop("pin does not exist")
        \/ /\ Exists(from) /\ Exists(to)
           /\ arcs' = Append(arcs, [from |-> from, to |-> to, kind |-> a.kind])
           /\ j' = j + 1
           /\ UNCHANGED <<design, nets, source, sinks, pin_type, cells, clock, phase, i, done,
                          builds, error>>

created_arcs ==
  /\ AtItem("cell_arcs", cells)
  /\ j > Len(get_arcs(cells[i]))
  /\ NextItem
  /\ UNCHANGED <<design, graph, clock, builds, error>>

-----------------------------------------------------------------------------
\* process_all_assignments: in the order of the netlist the left net takes
\* over the driver the right one has by then.
process_assignment ==
  /\ AtItem("assigns", design.assignments)
  /\ LET lhs == design.assignments[i].lhs
         rhs == design.assignments[i].rhs
     IN \/ ~ {lhs, rhs} \subseteq nets /\ Stop("net does not exist")
        \/ {lhs, rhs} \subseteq nets /\ source[rhs] = None /\ Stop("right-hand side has no source")
        \/ /\ {lhs, rhs} \subseteq nets /\ source[rhs] # None /\ source[lhs] # None
           /\ Stop("left-hand side already has a source")
        \/ /\ {lhs, rhs} \subseteq nets /\ source[rhs] # None /\ source[lhs] = None
           /\ source' = [source EXCEPT ![lhs] = source[rhs]]
           /\ NextItem
           /\ UNCHANGED <<design, nets, sinks, pin_type, cells, arcs, clock, builds, error>>

\* One net of the last loop of build_circuit: an arc from its source to each sink.
WireArcs(n) == [k \in 1 .. Len(sinks[n]) |->
                  [from |-> source[n], to |-> sinks[n][k], kind |-> "WIRE"]]
create_wires ==
  /\ phase = "wires"
  /\ \E n \in nets \ done :
       /\ arcs' = IF source[n] = None THEN arcs ELSE arcs \o WireArcs(n)
       /\ done' = done \cup {n}
  /\ UNCHANGED <<design, nets, source, sinks, pin_type, cells, clock, phase, i, j, builds, error>>

-----------------------------------------------------------------------------
\* deduce_clock, one cell a step: the name of the net at CK is looked up
\* among the pins, and find_pin asserts that it is there.
deduce_clock ==
  /\ AtItem("clock", cells)
  /\ LET c == cells[i]
         p == <<None, c.port_mapping["CK"]>>
         clocked == c.port_mapping["CK"] # None
     IN \/ clocked /\ ~ Exists(p) /\ Stop("pin does not exist")
        \/ /\ clocked /\ pin_type[p] = "PRIMARY_INPUT"
           /\ clock' = p
           /\ phase' = "idle" /\ i' = 1 /\ j' = 1 /\ done' = {}
           /\ UNCHANGED <<design, graph, builds, error>>
        \/ /\ clocked => Exists(p) /\ pin_type[p] # "PRIMARY_INPUT"
           /\ NextItem
           /\ UNCHANGED <<design, graph, clock, builds, error>>

-----------------------------------------------------------------------------
\* The end of a loop starts the next.
LoopEnds ==
  [nets      |-> i > Len(design.wires),
   inputs    |-> i > Len(design.inputs),
   outputs   |-> i > Len(design.outputs),
   cells     |-> i > Len(design.instances),
   pins      |-> i > Len(cells),
   connect   |-> i > Len(cells),
   cell_arcs |-> i > Len(cells),
   assigns   |-> i > Len(design.assignments),
   wires     |-> done = nets,
   clock     |-> i > Len(cells)]
NextLoop ==
  [nets |-> "inputs", inputs |-> "outputs", outputs |-> "cells", cells |-> "pins",
   pins |-> "connect", connect |-> "cell_arcs", cell_arcs |-> "assigns",
   assigns |-> "wires", wires |-> "built", clock |-> "idle"]
next_loop ==
  /\ phase \notin Resting
  /\ LoopEnds[phase]
  /\ phase' = NextLoop[phase]
  /\ i' = 1 /\ j' = 1 /\ done' = {}
  /\ cells' = IF phase' = "cells" THEN << >> ELSE cells
  /\ UNCHANGED <<design, nets, source, sinks, pin_type, arcs, clock, builds, error>>

\* A report asks for the clock (Timer::build_report_cache).
call_deduce_clock ==
  /\ phase = "built"
  /\ phase' = "clock"
  /\ i' = 1 /\ j' = 1 /\ done' = {}
  /\ UNCHANGED <<design, graph, clock, builds, error>>

\* link_design of pySTA calls build_circuit on the CircuitBuilder it has:
\* nets, pins and arcs stay, only the cells are collected anew (create_cells clears them).
build_again ==
  /\ phase \in Resting /\ builds < MaxBuilds
  /\ builds' = builds + 1
  /\ phase' = "nets"
  /\ i' = 1 /\ j' = 1 /\ done' = {}
  /\ UNCHANGED <<design, graph, clock, error>>

Step ==
  \/ create_nets \/ create_primary_inputs \/ create_primary_outputs \/ create_cells
  \/ create_pins \/ connect_pin \/ connected_cell \/ create_cell_arc \/ created_arcs
  \/ process_assignment \/ create_wires \/ deduce_clock \/ next_loop
Next == error = None /\ (Step \/ call_deduce_clock \/ build_again)

\* A call that runs goes on; that a call is made is up to the user.
Spec == Init /\ [][Next]_vars /\ WF_vars(error = None /\ Step)
=============================================================================
