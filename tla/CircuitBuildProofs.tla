-------------------------- MODULE CircuitBuildProofs --------------------------
(***************************************************************************)
(* For every netlist and library: types, drivers that stay, and arcs that  *)
(* never lead into a primary input; then that build_circuit makes the      *)
(* circuit of a netlist that is well formed and refuses the others, and    *)
(* never builds over a circuit with drivers.                               *)
(***************************************************************************)
EXTENDS CircuitBuildProperties, SequenceTheorems, FiniteSetTheorems, FunctionTheorems, TLAPS

\* What connect_to asserts and writes, gathered: an allowed connection leaves
\* all nets with drivers as sources and loads as sinks.
LEMMA Connected ==
  ASSUME TypeOK, SourcesDrive, SinksLoad,
         NEW p \in PinIds, NEW n \in Names, NEW t,
         t = pin_type'[p], ~ has_source(t, n), connect_to(p, t, n),
         pin_type' \in [PinIds -> PinTypes \cup {None}],
         \A q \in PinIds : pin_type[q] # None => pin_type'[q] = pin_type[q]
  PROVE  /\ source' \in [Names -> PinIds \cup {None}]
         /\ sinks' \in [Names -> Seq(PinIds)]
         /\ SourcesDrive'
         /\ SinksLoad'
         /\ \A m \in Names : source[m] # None => source'[m] = source[m]
<1> USE DEF TypeOK
<1>1. source' \in [Names -> PinIds \cup {None}]
  BY DEF connect_to
<1>2. sinks' \in [Names -> Seq(PinIds)]
  <2>1. Append(sinks[n], p) \in Seq(PinIds)
    BY AppendProperties
  <2> QED BY <2>1 DEF connect_to
<1>3. \A m \in Names : source[m] # None => source'[m] = source[m]
  BY DEF connect_to, has_source
<1>4. SourcesDrive'
  <2> SUFFICES ASSUME NEW m \in Names, source'[m] # None
               PROVE  pin_type'[source'[m]] \in SourceTypes
    BY DEF SourcesDrive
  <2>1. CASE source'[m] = source[m]
    BY <2>1, NameAssumption DEF SourcesDrive, SourceTypes, SinkTypes, PinTypes
  <2>2. CASE source'[m] # source[m]
    BY <2>2 DEF connect_to
  <2> QED BY <2>1, <2>2
<1>5. SinksLoad'
  <2> SUFFICES ASSUME NEW m \in Names, NEW k \in 1 .. Len(sinks'[m])
               PROVE  pin_type'[sinks'[m][k]] \in SinkTypes
    BY DEF SinksLoad
  <2> DEFINE s == sinks[m]
  <2>0. s \in Seq(PinIds)
    OBVIOUS
  <2>1. CASE sinks'[m] = s
    <3>1. k \in 1 .. Len(s) /\ s[k] \in PinIds
      BY <2>0, <2>1, ElementOfSeq
    <3>2. pin_type[s[k]] \in SinkTypes
      BY <3>1 DEF SinksLoad
    <3> QED BY <2>1, <3>1, <3>2, NameAssumption DEF SinkTypes, PinTypes
  <2>2. CASE sinks'[m] # s
    <3>1. m = n /\ t \in SinkTypes /\ sinks'[m] = Append(s, p)
      BY <2>2 DEF connect_to
    <3>2. Len(Append(s, p)) = Len(s) + 1 /\ Append(s, p)[Len(s) + 1] = p
          /\ \A l \in 1 .. Len(s) : Append(s, p)[l] = s[l]
      BY <2>0, AppendProperties
    <3>3. CASE k = Len(s) + 1
      <4>1. sinks'[m][k] = p
        BY <3>1, <3>2, <3>3
      <4> QED BY <4>1, <3>1
    <3>4. CASE k \in 1 .. Len(s)
      <4>1. sinks'[m][k] = s[k] /\ s[k] \in PinIds
        BY <3>1, <3>2, <3>4, <2>0, ElementOfSeq
      <4>2. pin_type[s[k]] \in SinkTypes
        BY <3>4 DEF SinksLoad
      <4> QED BY <4>1, <4>2, NameAssumption DEF SinkTypes, PinTypes
    <3> QED
      <4>1. Len(s) \in Nat
        BY <2>0
      <4>2. k \in 1 .. Len(s) + 1
        BY <3>1, <3>2
      <4> HIDE DEF s
      <4>3. k = Len(s) + 1 \/ k \in 1 .. Len(s)
        BY <4>1, <4>2
      <4> QED BY <4>3, <3>3, <3>4
  <2> QED BY <2>1, <2>2
<1> QED BY <1>1, <1>2, <1>3, <1>4, <1>5

\* Types of pins that exist do not change, so arcs stay what they are.
LEMMA ArcsStay ==
  ASSUME TypeOK, ArcsLeadToLoads, arcs' = arcs,
         \A q \in PinIds : pin_type[q] # None => pin_type'[q] = pin_type[q]
  PROVE  ArcsLeadToLoads'
<1> SUFFICES ASSUME NEW k \in 1 .. Len(arcs)
             PROVE  /\ pin_type'[arcs[k].from] # None /\ pin_type'[arcs[k].to] # None
                    /\ pin_type'[arcs[k].to] # "PRIMARY_INPUT"
                    /\ arcs[k].kind = "WIRE" => /\ pin_type'[arcs[k].from] \in SourceTypes
                                                /\ pin_type'[arcs[k].to] \in SinkTypes
  BY DEF ArcsLeadToLoads, Exists
<1>0. arcs \in Seq(Arc)
  BY DEF TypeOK
<1>1. arcs[k] \in Arc
  BY <1>0, ElementOfSeq
<1>4. arcs[k].from \in PinIds /\ arcs[k].to \in PinIds
  BY <1>1 DEF Arc
<1>2. pin_type[arcs[k].from] # None /\ pin_type[arcs[k].to] # None
  BY DEF ArcsLeadToLoads, Exists
<1>3. /\ pin_type'[arcs[k].from] = pin_type[arcs[k].from]
      /\ pin_type'[arcs[k].to] = pin_type[arcs[k].to]
  BY <1>4, <1>2
<1> QED BY <1>2, <1>3 DEF ArcsLeadToLoads

\* A new arc that is as it should be leaves all arcs so.
LEMMA ArcAdded ==
  ASSUME TypeOK, ArcsLeadToLoads, pin_type' = pin_type,
         NEW new \in Seq(Arc), arcs' = arcs \o new,
         \A k \in 1 .. Len(new) :
            /\ Exists(new[k].from) /\ Exists(new[k].to)
            /\ pin_type[new[k].to] # "PRIMARY_INPUT"
            /\ new[k].kind = "WIRE" => /\ pin_type[new[k].from] \in SourceTypes
                                       /\ pin_type[new[k].to] \in SinkTypes
  PROVE  arcs' \in Seq(Arc) /\ ArcsLeadToLoads'
<1>0. arcs \in Seq(Arc)
  BY DEF TypeOK
<1>1. /\ arcs' \in Seq(Arc)
      /\ Len(arcs') = Len(arcs) + Len(new)
      /\ \A k \in 1 .. Len(arcs) + Len(new) :
           arcs'[k] = IF k <= Len(arcs) THEN arcs[k] ELSE new[k - Len(arcs)]
  BY <1>0, ConcatProperties
<1>2. Len(arcs) \in Nat /\ Len(new) \in Nat
  BY <1>0
<1>3. ASSUME NEW k \in 1 .. Len(arcs')
      PROVE  \/ k \in 1 .. Len(arcs) /\ arcs'[k] = arcs[k]
             \/ k - Len(arcs) \in 1 .. Len(new) /\ arcs'[k] = new[k - Len(arcs)]
  BY <1>1, <1>2
<1>4. ArcsLeadToLoads'
  <2> SUFFICES ASSUME NEW k \in 1 .. Len(arcs')
               PROVE  /\ Exists(arcs'[k].from) /\ Exists(arcs'[k].to)
                      /\ pin_type[arcs'[k].to] # "PRIMARY_INPUT"
                      /\ arcs'[k].kind = "WIRE" => /\ pin_type[arcs'[k].from] \in SourceTypes
                                                   /\ pin_type[arcs'[k].to] \in SinkTypes
    BY DEF ArcsLeadToLoads, Exists
  <2> QED BY <1>3 DEF ArcsLeadToLoads
<1> QED BY <1>1, <1>4

-----------------------------------------------------------------------------
\* The port list of an instance gives every port a net or none.
LEMMA MappingType ==
  ASSUME NEW list \in Seq(port_list_t)
  PROVE  port_mapping(list) \in [Ports -> Names \cup {None}]
<1> SUFFICES ASSUME NEW port \in Ports, first_entry(list, port) # {}
             PROVE  list[CHOOSE k \in first_entry(list, port) : TRUE].net \in Names
  BY DEF port_mapping
<1>1. (CHOOSE k \in first_entry(list, port) : TRUE) \in 1 .. Len(list)
  BY DEF first_entry
<1>2. list[CHOOSE k \in first_entry(list, port) : TRUE] \in port_list_t
  BY <1>1, ElementOfSeq
<1> QED BY <1>2 DEF port_list_t

-----------------------------------------------------------------------------
\* What every step keeps besides the invariant: pins keep their types, nets
\* their drivers.
Kept ==
  /\ \A p \in PinIds : pin_type[p] # None => pin_type'[p] = pin_type[p]
  /\ \A n \in Names : source[n] # None => source'[n] = source[n]

\* A step that leaves the graph and the design alone changes nothing here.
LEMMA GraphSame ==
  ASSUME GraphInv, UNCHANGED <<design, source, sinks, pin_type, arcs>>,
         nets' \subseteq Names, cells' \in Seq(CellInst), clock' \in PinIds \cup {None}
  PROVE  GraphInv' /\ Kept
<1>1. TypeOK'
  BY DEF GraphInv, TypeOK
<1>2. PinTypesFit' /\ SourcesDrive' /\ SinksLoad' /\ ArcsLeadToLoads'
  BY DEF GraphInv, PinTypesFit, SourcesDrive, SinksLoad, ArcsLeadToLoads, Exists
<1> QED BY <1>1, <1>2 DEF GraphInv, Kept

LEMMA CreateNets == ASSUME GraphInv, create_nets PROVE GraphInv' /\ Kept
<1>1. nets' \subseteq Names
  BY ElementOfSeq DEF create_nets, AtItem, GraphInv, TypeOK, VerilogModule
<1>2. cells' \in Seq(CellInst) /\ clock' \in PinIds \cup {None}
  BY DEF create_nets, GraphInv, TypeOK
<1> QED BY <1>1, <1>2, GraphSame DEF create_nets

LEMMA Stopped == ASSUME GraphInv, NEW e, Stop(e) PROVE GraphInv' /\ Kept
<1>1. /\ nets' \subseteq Names /\ cells' \in Seq(CellInst) /\ clock' \in PinIds \cup {None}
      /\ UNCHANGED <<design, source, sinks, pin_type, arcs>>
  BY DEF Stop, graph, GraphInv, TypeOK
<1> QED BY <1>1, GraphSame

\* The control of the loops: nothing of the graph moves.
LEMMA ControlSteps ==
  ASSUME GraphInv,
         \/ connected_cell \/ created_arcs \/ next_loop \/ call_deduce_clock \/ build_again
         \/ UNCHANGED vars
  PROVE  GraphInv' /\ Kept
<1>0. << >> \in Seq(CellInst)
  BY EmptySeq
<1>1. cells' \in Seq(CellInst)
  BY <1>0 DEF connected_cell, created_arcs, next_loop, call_deduce_clock, build_again, vars, graph,
              GraphInv, TypeOK
<1>2. /\ nets' \subseteq Names /\ clock' \in PinIds \cup {None}
      /\ UNCHANGED <<design, source, sinks, pin_type, arcs>>
  BY DEF connected_cell, created_arcs, next_loop, call_deduce_clock, build_again, vars, graph,
         GraphInv, TypeOK
<1> QED BY <1>1, <1>2, GraphSame

\* A name has the type it is first given; a primary pin has no instance.
LEMMA CreatePrimary ==
  ASSUME GraphInv, NEW name, NEW list \in Seq(Names), NEW type \in {"PRIMARY_INPUT", "PRIMARY_OUTPUT"},
         create_primary(name, list, type)
  PROVE  GraphInv' /\ Kept
<1> DEFINE n == list[i]
           p == <<None, n>>
           t == create_pin(p, type)
<1>1. n \in Names /\ p \in PinIds /\ p[1] = None
  BY ElementOfSeq DEF create_primary, AtItem, PinIds
<1>2. CASE Stop("net does not exist") \/ Stop("net already has source")
  BY <1>2, Stopped
<1>3. CASE /\ ~ has_source(t, n)
           /\ pin_type' = [pin_type EXCEPT ![p] = t]
           /\ connect_to(p, t, n)
           /\ UNCHANGED <<design, nets, cells, arcs, clock>>
  <2>0. TypeOK /\ PinTypesFit /\ SourcesDrive /\ SinksLoad /\ ArcsLeadToLoads
    BY DEF GraphInv
  <2>1. t \in {"PRIMARY_INPUT", "PRIMARY_OUTPUT"}
    BY <1>1, <2>0 DEF create_pin, PinTypesFit
  <2> HIDE DEF n, p
  <2>2. pin_type \in [PinIds -> PinTypes \cup {None}]
    BY <2>0 DEF TypeOK
  <2>3. /\ pin_type' \in [PinIds -> PinTypes \cup {None}]
        /\ t = pin_type'[p]
        /\ \A q \in PinIds : pin_type[q] # None => pin_type'[q] = pin_type[q]
    BY <1>1, <1>3, <2>1, <2>2 DEF create_pin, PinTypes, SinkTypes, SourceTypes
  <2>4. PinTypesFit'
    BY <1>1, <1>3, <2>0, <2>1, <2>2 DEF PinTypesFit
  <2> HIDE DEF t
  <2>5. /\ source' \in [Names -> PinIds \cup {None}] /\ sinks' \in [Names -> Seq(PinIds)]
        /\ SourcesDrive' /\ SinksLoad'
        /\ \A m \in Names : source[m] # None => source'[m] = source[m]
    BY <1>1, <1>3, <2>0, <2>3, Connected
  <2>6. ArcsLeadToLoads'
    BY <1>3, <2>0, <2>3, ArcsStay
  <2>7. TypeOK'
    BY <1>3, <2>0, <2>3, <2>5 DEF TypeOK
  <2> QED BY <2>3, <2>4, <2>5, <2>6, <2>7 DEF GraphInv, Kept
<1> QED BY <1>2, <1>3 DEF create_primary

LEMMA CreateCells == ASSUME GraphInv, create_cells PROVE GraphInv' /\ Kept
<1> DEFINE inst == design.instances[i]
           c == [name |-> inst.name, module |-> inst.module,
                 port_mapping |-> port_mapping(inst.port_list)]
<1>1. CASE Stop("module not in library")
  BY <1>1, Stopped
<1>2. CASE /\ inst.module \in DOMAIN Library
           /\ cells' = Append(cells, c)
           /\ UNCHANGED <<design, nets, source, sinks, pin_type, arcs, clock>>
  <2>1. design.instances \in Seq(instance_t) /\ i \in 1 .. Len(design.instances)
    BY DEF create_cells, AtItem, GraphInv, TypeOK, VerilogModule
  <2>2. inst \in instance_t
    BY <2>1, ElementOfSeq
  <2>3. inst.name \in Instances /\ inst.port_list \in Seq(port_list_t)
    BY <2>2 DEF instance_t
  <2>4. c \in CellInst
    BY <1>2, <2>3, MappingType DEF CellInst
  <2> HIDE DEF c
  <2>5. cells' \in Seq(CellInst)
    BY <1>2, <2>4, AppendProperties DEF GraphInv, TypeOK
  <2> QED BY <1>2, <2>5, GraphSame DEF GraphInv, TypeOK
<1> QED BY <1>1, <1>2 DEF create_cells

\* The cell the loops are at, and its part of the library.
LEMMA ThisCell ==
  ASSUME GraphInv, i \in 1 .. Len(cells)
  PROVE  /\ cells[i] \in CellInst
         /\ cells[i].name \in Instances
         /\ cells[i].port_mapping \in [Ports -> Names \cup {None}]
         /\ Library[cells[i].module] \in CellLib
         /\ get_ports(cells[i]) \subseteq Ports
         /\ Library[cells[i].module].ports \in [get_ports(cells[i]) -> {"INPUT", "OUTPUT"}]
         /\ get_arcs(cells[i]) \in Seq(ArcData)
<1>1. cells \in Seq(CellInst)
  BY DEF GraphInv, TypeOK
<1>2. cells[i] \in CellInst
  BY <1>1, ElementOfSeq
<1>3. /\ cells[i].name \in Instances
      /\ cells[i].port_mapping \in [Ports -> Names \cup {None}]
      /\ cells[i].module \in DOMAIN Library
  BY <1>2 DEF CellInst
<1>4. Library[cells[i].module] \in CellLib
  BY <1>3, LibraryAssumption
<1>5. PICK P \in SUBSET Ports : Library[cells[i].module].ports \in [P -> {"INPUT", "OUTPUT"}]
  BY <1>4 DEF CellLib
<1>6. Library[cells[i].module].arcs \in Seq(ArcData)
  BY <1>4 DEF CellLib
<1>7. P = get_ports(cells[i])
  BY <1>5 DEF get_ports
<1> QED BY <1>2, <1>3, <1>4, <1>5, <1>6, <1>7 DEF get_arcs

LEMMA CreatePins == ASSUME GraphInv, create_pins PROVE GraphInv' /\ Kept
<1> DEFINE c == cells[i]
<1>0. TypeOK /\ PinTypesFit /\ SourcesDrive /\ SinksLoad /\ ArcsLeadToLoads
  BY DEF GraphInv
<1>1. /\ c.name \in Instances
      /\ Library[c.module].ports \in [get_ports(c) -> {"INPUT", "OUTPUT"}]
  BY ThisCell DEF create_pins, AtItem
<1>2. /\ pin_type' = [p \in PinIds |-> IF p[1] = c.name /\ p[2] \in get_ports(c)
                                       THEN create_pin(p, Library[c.module].ports[p[2]])
                                       ELSE pin_type[p]]
      /\ UNCHANGED <<design, nets, source, sinks, cells, arcs, clock>>
  BY DEF create_pins
<1> HIDE DEF c
<1>3. \A p \in PinIds : pin_type[p] # None => pin_type'[p] = pin_type[p]
  BY <1>2 DEF create_pin
<1>4. ASSUME NEW p \in PinIds, pin_type[p] = None, pin_type'[p] # None
      PROVE  p[1] # None /\ pin_type'[p] \in {"INPUT", "OUTPUT"}
  <2>1. p[1] = c.name /\ p[2] \in get_ports(c)
        /\ pin_type'[p] = Library[c.module].ports[p[2]]
    BY <1>2, <1>4 DEF create_pin
  <2> QED BY <1>1, <2>1, NameAssumption
<1>5. PinTypesFit'
  BY <1>0, <1>3, <1>4 DEF PinTypesFit
<1>6. pin_type' \in [PinIds -> PinTypes \cup {None}]
  <2>1. pin_type \in [PinIds -> PinTypes \cup {None}]
    BY <1>0 DEF TypeOK
  <2>2. \A p \in PinIds : pin_type'[p] \in PinTypes \cup {None}
    BY <1>3, <1>4, <2>1 DEF PinTypes, SourceTypes, SinkTypes
  <2>3. pin_type' = [p \in PinIds |-> pin_type'[p]]
    BY <1>2
  <2> QED BY <2>2, <2>3
<1>7. SourcesDrive'
  <2> SUFFICES ASSUME NEW n \in Names, source[n] # None
               PROVE  pin_type'[source[n]] \in SourceTypes
    BY <1>2 DEF SourcesDrive
  <2>1. source[n] \in PinIds /\ pin_type[source[n]] \in SourceTypes
    BY <1>0 DEF TypeOK, SourcesDrive
  <2> QED BY <1>3, <2>1, NameAssumption DEF PinTypes
<1>8. SinksLoad'
  <2> SUFFICES ASSUME NEW n \in Names, NEW k \in 1 .. Len(sinks[n])
               PROVE  pin_type'[sinks[n][k]] \in SinkTypes
    BY <1>2 DEF SinksLoad
  <2>1. sinks[n] \in Seq(PinIds)
    BY <1>0 DEF TypeOK
  <2>2. sinks[n][k] \in PinIds
    BY <2>1, ElementOfSeq
  <2>3. pin_type[sinks[n][k]] \in SinkTypes
    BY <1>0 DEF SinksLoad
  <2> QED BY <1>3, <2>2, <2>3, NameAssumption DEF PinTypes
<1>9. ArcsLeadToLoads'
  BY <1>0, <1>2, <1>3, ArcsStay
<1>10. TypeOK'
  BY <1>0, <1>2, <1>6 DEF TypeOK
<1> QED BY <1>2, <1>3, <1>5, <1>7, <1>8, <1>9, <1>10 DEF GraphInv, Kept

LEMMA ConnectPin == ASSUME GraphInv, connect_pin PROVE GraphInv' /\ Kept
<1>0. PICK port \in get_ports(cells[i]) \ done :
        LET c == cells[i]
            p == pin_name(c, port)
            t == pin_type[p]
            n == c.port_mapping[port]
        IN \/ Stop("net does not exist") \/ Stop("net already has source")
           \/ /\ \/ n # None /\ n \in nets /\ ~ has_source(t, n) /\ connect_to(p, t, n)
                 \/ UNCHANGED <<source, sinks>>
              /\ UNCHANGED <<design, nets, pin_type, cells, arcs, clock>>
  BY DEF connect_pin
<1> DEFINE c == cells[i]
           p == pin_name(c, port)
           t == pin_type[p]
           n == c.port_mapping[port]
<1>1. CASE Stop("net does not exist") \/ Stop("net already has source")
  BY <1>1, Stopped
<1>2. CASE UNCHANGED <<design, nets, source, sinks, pin_type, cells, arcs, clock>>
  BY <1>2, GraphSame DEF GraphInv, TypeOK
<1>3. CASE /\ n # None /\ ~ has_source(t, n) /\ connect_to(p, t, n)
           /\ UNCHANGED <<design, nets, pin_type, cells, arcs, clock>>
  <2>0. TypeOK /\ PinTypesFit /\ SourcesDrive /\ SinksLoad /\ ArcsLeadToLoads
    BY DEF GraphInv
  <2>1. c.name \in Instances /\ c.port_mapping \in [Ports -> Names \cup {None}] /\ port \in Ports
    BY ThisCell DEF connect_pin, AtItem
  <2>2. p \in PinIds /\ n \in Names
    BY <1>3, <2>1 DEF pin_name, PinIds
  <2> HIDE DEF p, n
  <2>3. pin_type' \in [PinIds -> PinTypes \cup {None}] /\ t = pin_type'[p]
    BY <1>3, <2>0 DEF TypeOK
  <2>4. \A q \in PinIds : pin_type[q] # None => pin_type'[q] = pin_type[q]
    BY <1>3
  <2> HIDE DEF t
  <2>5. /\ source' \in [Names -> PinIds \cup {None}] /\ sinks' \in [Names -> Seq(PinIds)]
        /\ SourcesDrive' /\ SinksLoad'
        /\ \A m \in Names : source[m] # None => source'[m] = source[m]
    BY <1>3, <2>0, <2>2, <2>3, <2>4, Connected
  <2>6. ArcsLeadToLoads'
    BY <1>3, <2>0, <2>4, ArcsStay
  <2>7. TypeOK' /\ PinTypesFit'
    BY <1>3, <2>0, <2>5 DEF TypeOK, PinTypesFit
  <2> QED BY <2>4, <2>5, <2>6, <2>7 DEF GraphInv, Kept
<1> QED BY <1>0, <1>1, <1>2, <1>3

\* Both ends of an arc of a cell are pins of its instance, hence not primary.
LEMMA CreateCellArc == ASSUME GraphInv, create_cell_arc PROVE GraphInv' /\ Kept
<1> DEFINE c == cells[i]
           a == get_arcs(c)[j]
           from == pin_name(c, a.src_port)
           to == pin_name(c, a.snk_port)
           new == [from |-> from, to |-> to, kind |-> a.kind]
<1>1. CASE Stop("pin does not exist")
  BY <1>1, Stopped
<1>2. CASE /\ Exists(from) /\ Exists(to)
           /\ arcs' = Append(arcs, new)
           /\ UNCHANGED <<design, nets, source, sinks, pin_type, cells, clock>>
  <2>0. TypeOK /\ PinTypesFit /\ SourcesDrive /\ SinksLoad /\ ArcsLeadToLoads
    BY DEF GraphInv
  <2>1. c.name \in Instances /\ get_arcs(c) \in Seq(ArcData) /\ j \in 1 .. Len(get_arcs(c))
    BY ThisCell DEF create_cell_arc, AtItem
  <2>2. a \in ArcData
    BY <2>1, ElementOfSeq
  <2> HIDE DEF a
  <2>3. from \in PinIds /\ to \in PinIds /\ to[1] # None
    BY <2>1, <2>2, NameAssumption DEF pin_name, PinIds, ArcData
  <2>4. pin_type[to] # "PRIMARY_INPUT"
    <3>1. pin_type[to] \in {None, "INPUT", "OUTPUT"}
      BY <2>0, <2>3 DEF PinTypesFit
    <3> QED BY <3>1, NameAssumption DEF PinTypes, SourceTypes
  <2> HIDE DEF from, to
  <2>5. new \in Arc /\ new.from = from /\ new.to = to /\ new.kind # "WIRE"
    BY <2>2, <2>3 DEF ArcData, Arc
  <2> HIDE DEF new
  <2>6. arcs' \in Seq(Arc) /\ arcs' = arcs \o <<new>> /\ <<new>> \in Seq(Arc)
    BY <1>2, <2>0, <2>5, AppendProperties, AppendIsConcat DEF TypeOK
  <2>7. \A k \in 1 .. Len(<<new>>) : <<new>>[k] = new
    OBVIOUS
  <2>8. ArcsLeadToLoads'
    BY <1>2, <2>0, <2>4, <2>5, <2>6, <2>7, ArcAdded
  <2>9. TypeOK' /\ PinTypesFit' /\ SourcesDrive' /\ SinksLoad'
    BY <1>2, <2>0, <2>6 DEF TypeOK, PinTypesFit, SourcesDrive, SinksLoad
  <2> QED BY <1>2, <2>8, <2>9 DEF GraphInv, Kept
<1> QED BY <1>1, <1>2 DEF create_cell_arc

\* An assignment gives its left net the driver of its right one.
LEMMA ProcessAssignment == ASSUME GraphInv, process_assignment PROVE GraphInv' /\ Kept
<1> DEFINE lhs == design.assignments[i].lhs
           rhs == design.assignments[i].rhs
<1>1. ASSUME NEW e, Stop(e) PROVE GraphInv' /\ Kept
  BY <1>1, Stopped
<1>2. CASE /\ source[rhs] # None /\ source[lhs] = None
           /\ source' = [source EXCEPT ![lhs] = source[rhs]]
           /\ UNCHANGED <<design, nets, sinks, pin_type, cells, arcs, clock>>
  <2>0. TypeOK /\ PinTypesFit /\ SourcesDrive /\ SinksLoad /\ ArcsLeadToLoads
    BY DEF GraphInv
  <2>1. design.assignments \in Seq(assign_t) /\ i \in 1 .. Len(design.assignments)
    BY <2>0 DEF process_assignment, AtItem, TypeOK, VerilogModule
  <2>2. design.assignments[i] \in assign_t
    BY <2>1, ElementOfSeq
  <2>3. lhs \in Names /\ rhs \in Names
    BY <2>2 DEF assign_t
  <2> HIDE DEF lhs, rhs
  <2>4. /\ source' \in [Names -> PinIds \cup {None}]
        /\ \A m \in Names : source[m] # None => source'[m] = source[m]
        /\ \A m \in Names : source'[m] \in {source[m], source[rhs]}
    BY <1>2, <2>0, <2>3 DEF TypeOK
  <2>5. SourcesDrive'
    BY <1>2, <2>0, <2>3, <2>4 DEF SourcesDrive
  <2>6. TypeOK' /\ PinTypesFit' /\ SinksLoad' /\ ArcsLeadToLoads'
    BY <1>2, <2>0, <2>4 DEF TypeOK, PinTypesFit, SinksLoad, ArcsLeadToLoads, Exists
  <2> QED BY <1>2, <2>4, <2>5, <2>6 DEF GraphInv, Kept
<1> QED BY <1>1, <1>2 DEF process_assignment

LEMMA CreateWires == ASSUME GraphInv, create_wires PROVE GraphInv' /\ Kept
<1>0. TypeOK /\ PinTypesFit /\ SourcesDrive /\ SinksLoad /\ ArcsLeadToLoads
  BY DEF GraphInv
<1>1. PICK n \in nets : arcs' = IF source[n] = None THEN arcs ELSE arcs \o WireArcs(n)
  BY DEF create_wires
<1>2. UNCHANGED <<design, nets, source, sinks, pin_type, cells, clock>>
  BY DEF create_wires
<1>3. CASE source[n] = None
  BY <1>0, <1>1, <1>2, <1>3, GraphSame DEF TypeOK
<1>4. CASE source[n] # None
  <2> DEFINE new == WireArcs(n)
  <2>1. n \in Names /\ source[n] \in PinIds /\ sinks[n] \in Seq(PinIds)
    BY <1>0, <1>4 DEF TypeOK
  <2>2. \A k \in 1 .. Len(sinks[n]) : sinks[n][k] \in PinIds
    BY <2>1, ElementOfSeq
  <2>3. Len(sinks[n]) \in Nat
    BY <2>1
  <2>4. /\ new \in [1 .. Len(sinks[n]) -> Arc]
        /\ \A k \in 1 .. Len(sinks[n]) : /\ new[k].from = source[n]
                                         /\ new[k].to = sinks[n][k]
    BY <2>1, <2>2 DEF WireArcs, Arc
  <2> HIDE DEF new
  <2>5. new \in Seq(Arc) /\ Len(new) = Len(sinks[n])
    BY <2>3, <2>4, SeqDef, LenProperties
  <2>6. ASSUME NEW k \in 1 .. Len(new)
        PROVE  /\ Exists(new[k].from) /\ Exists(new[k].to)
               /\ pin_type[new[k].to] # "PRIMARY_INPUT"
               /\ pin_type[new[k].from] \in SourceTypes /\ pin_type[new[k].to] \in SinkTypes
    <3>1. pin_type[new[k].from] \in SourceTypes /\ pin_type[new[k].to] \in SinkTypes
      BY <1>0, <1>4, <2>1, <2>4, <2>5 DEF SourcesDrive, SinksLoad
    <3> QED BY <3>1, NameAssumption DEF Exists, SourceTypes, SinkTypes, PinTypes
  <2>7. arcs' \in Seq(Arc) /\ ArcsLeadToLoads'
    <3>1. arcs' = arcs \o new /\ pin_type' = pin_type
      BY <1>1, <1>2, <1>4 DEF new
    <3> QED BY <1>0, <2>5, <2>6, <3>1, ArcAdded
  <2>8. TypeOK' /\ PinTypesFit' /\ SourcesDrive' /\ SinksLoad'
    BY <1>0, <1>2, <2>7 DEF TypeOK, PinTypesFit, SourcesDrive, SinksLoad
  <2> QED BY <1>2, <2>7, <2>8 DEF GraphInv, Kept
<1> QED BY <1>3, <1>4

\* The answer of deduce_clock is the primary pin it looked up.
LEMMA DeduceClock == ASSUME GraphInv, deduce_clock PROVE GraphInv' /\ Kept
<1>1. CASE Stop("pin does not exist")
  BY <1>1, Stopped
<1>2. CASE /\ cells[i].port_mapping["CK"] # None
           /\ clock' = <<None, cells[i].port_mapping["CK"]>>
           /\ UNCHANGED <<design, graph>>
  <2>1. cells[i].port_mapping["CK"] \in Names
    BY <1>2, ThisCell, PortAssumption DEF deduce_clock, AtItem
  <2>2. clock' \in PinIds
    BY <1>2, <2>1 DEF PinIds
  <2> QED BY <1>2, <2>2, GraphSame DEF GraphInv, TypeOK, graph
<1>3. CASE UNCHANGED <<design, graph, clock>>
  BY <1>3, GraphSame DEF GraphInv, TypeOK, graph
<1> QED BY <1>1, <1>2, <1>3 DEF deduce_clock

-----------------------------------------------------------------------------
LEMMA InitGraph == ASSUME Init PROVE GraphInv
<1>1. << >> \in Seq(PinIds) /\ << >> \in Seq(CellInst) /\ << >> \in Seq(Arc)
  BY EmptySeq
<1>2. TypeOK
  BY <1>1, DesignAssumption DEF Init, TypeOK
<1>3. Len(<< >>) = 0
  OBVIOUS
<1>4. PinTypesFit /\ SourcesDrive
  BY DEF Init, PinTypesFit, SourcesDrive
<1>5. SinksLoad /\ ArcsLeadToLoads
  BY <1>3 DEF Init, SinksLoad, ArcsLeadToLoads
<1> QED BY <1>2, <1>4, <1>5 DEF GraphInv

LEMMA StepGraph == ASSUME GraphInv, [Next]_vars PROVE GraphInv' /\ Kept
<1>1. /\ design.inputs \in Seq(Names) /\ design.outputs \in Seq(Names)
  BY DEF GraphInv, TypeOK, VerilogModule
<1>2. CASE create_primary_inputs
  BY <1>1, <1>2, CreatePrimary DEF create_primary_inputs
<1>3. CASE create_primary_outputs
  BY <1>1, <1>3, CreatePrimary DEF create_primary_outputs
<1>4. CASE \/ connected_cell \/ created_arcs \/ next_loop \/ call_deduce_clock \/ build_again
           \/ UNCHANGED vars
  BY <1>4, ControlSteps
<1> QED BY <1>2, <1>3, <1>4, CreateNets, CreateCells, CreatePins, ConnectPin, CreateCellArc,
           ProcessAssignment, CreateWires, DeduceClock DEF Next, Step

\* The invariant that carries the results below holds in every state of every
\* build (CircuitBuilder::build_circuit, deduce_clock).
THEOREM GraphInductive == Spec => []GraphInv
<1>1. Init => GraphInv
  BY InitGraph
<1>2. GraphInv /\ [Next]_vars => GraphInv'
  BY StepGraph
<1> QED BY <1>1, <1>2, PTL DEF Spec

\* Nothing a build creates or points to leaves its type.
THEOREM TypeCorrect == Spec => []TypeOK
<1>1. GraphInv => TypeOK
  BY DEF GraphInv
<1> QED BY <1>1, GraphInductive, PTL

\* For every netlist and library, refused or not: no arc leads into a primary
\* input, and a wire arc joins a driver to a load.
THEOREM LoadsOnly == Spec => []ArcsLeadToLoads
<1>1. GraphInv => ArcsLeadToLoads
  BY DEF GraphInv
<1> QED BY <1>1, GraphInductive, PTL

\* A pin keeps its type and a net its driver through every step of every
\* build (create_pin, set_source, process_all_assignments).
THEOREM DriversKept == Spec => DriversStay
<1>1. GraphInv /\ [Next]_vars =>
        [/\ \A p \in PinIds : pin_type[p] # None => pin_type'[p] = pin_type[p]
         /\ \A n \in Names : source[n] # None => source'[n] = source[n]]_vars
  BY StepGraph DEF Kept
<1> QED BY <1>1, GraphInductive, PTL DEF Spec, DriversStay

-----------------------------------------------------------------------------
\* What a netlist is made of.
LEMMA DesignType ==
  ASSUME TypeOK
  PROVE  /\ design.wires \in Seq(Names) /\ Len(design.wires) \in Nat
         /\ design.inputs \in Seq(Names) /\ Len(design.inputs) \in Nat
         /\ design.outputs \in Seq(Names) /\ Len(design.outputs) \in Nat
         /\ design.instances \in Seq(instance_t) /\ Len(design.instances) \in Nat
         /\ design.assignments \in Seq(assign_t) /\ Len(design.assignments) \in Nat
         /\ cells \in Seq(CellInst) /\ Len(cells) \in Nat
BY DEF TypeOK, VerilogModule

LEMMA ItemTypes ==
  ASSUME TypeOK
  PROVE  /\ \A k \in 1 .. Len(design.wires) : design.wires[k] \in Names
         /\ \A k \in 1 .. Len(design.inputs) : design.inputs[k] \in Names
         /\ \A k \in 1 .. Len(design.outputs) : design.outputs[k] \in Names
         /\ \A k \in 1 .. Len(design.assignments) :
              design.assignments[k].lhs \in Names /\ design.assignments[k].rhs \in Names
         /\ \A k \in 1 .. Len(design.instances) :
              /\ Instance(k).name \in Instances /\ Instance(k).module \in Modules
              /\ Instance(k).port_list \in Seq(port_list_t)
<1>1. /\ \A k \in 1 .. Len(design.wires) : design.wires[k] \in Names
      /\ \A k \in 1 .. Len(design.inputs) : design.inputs[k] \in Names
      /\ \A k \in 1 .. Len(design.outputs) : design.outputs[k] \in Names
  BY DesignType, ElementOfSeq
<1>2. \A k \in 1 .. Len(design.assignments) : design.assignments[k] \in assign_t
  BY DesignType, ElementOfSeq
<1>3. \A k \in 1 .. Len(design.instances) : Instance(k) \in instance_t
  BY DesignType, ElementOfSeq DEF Instance
<1> QED BY <1>1, <1>2, <1>3 DEF assign_t, instance_t

\* The ports of a cell of the library are ports, and drive or load.
LEMMA CellType ==
  ASSUME NEW k, Instance(k).module \in DOMAIN Library
  PROVE  /\ PortsOf(k) = DOMAIN Cell(k).ports /\ PortsOf(k) \subseteq Ports
         /\ Cell(k).ports \in [PortsOf(k) -> {"INPUT", "OUTPUT"}]
         /\ Cell(k).arcs \in Seq(ArcData) /\ Len(Cell(k).arcs) \in Nat
         /\ \A a \in 1 .. Len(Cell(k).arcs) : /\ Cell(k).arcs[a].src_port \in Ports
                                              /\ Cell(k).arcs[a].snk_port \in Ports
<1>1. Cell(k) \in CellLib
  BY LibraryAssumption DEF Cell
<1>2. PICK P \in SUBSET Ports : Cell(k).ports \in [P -> {"INPUT", "OUTPUT"}]
  BY <1>1 DEF CellLib
<1>3. Cell(k).arcs \in Seq(ArcData)
  BY <1>1 DEF CellLib
<1>4. \A a \in 1 .. Len(Cell(k).arcs) : Cell(k).arcs[a] \in ArcData
  BY <1>3, ElementOfSeq
<1>5. PortsOf(k) = DOMAIN Cell(k).ports /\ DOMAIN Cell(k).ports = P
  BY <1>2 DEF PortsOf
<1> QED BY <1>2, <1>3, <1>4, <1>5 DEF ArcData

\* The hash table of a port list has for a port the net the netlist means.
NetsOf(list, port) == {list[k].net : k \in first_entry(list, port)}
LEMMA MappingAt ==
  ASSUME NEW list \in Seq(port_list_t), NEW port \in Ports
  PROVE  /\ port_mapping(list)[port] # None <=> NetsOf(list, port) # {}
         /\ NetsOf(list, port) # {} =>
              /\ (CHOOSE n \in NetsOf(list, port) : TRUE) = port_mapping(list)[port]
              /\ port_mapping(list)[port] \in Names
<1> DEFINE F == first_entry(list, port)
           nets_at == NetsOf(list, port)
           m == port_mapping(list)[port]
<1>0. Len(list) \in Nat
  OBVIOUS
<1>1. ASSUME NEW k \in F, NEW l \in F PROVE k = l
  <2>1. /\ k \in 1 .. Len(list) /\ list[k].port = port
        /\ \A h \in 1 .. k - 1 : list[h].port # port
        /\ l \in 1 .. Len(list) /\ list[l].port = port
        /\ \A h \in 1 .. l - 1 : list[h].port # port
    BY <1>1 DEF first_entry
  <2>2. ~ (l \in 1 .. k - 1) /\ ~ (k \in 1 .. l - 1)
    BY <2>1
  <2> QED BY <1>0, <2>1, <2>2
<1>2. m = IF F = {} THEN None ELSE list[CHOOSE k \in F : TRUE].net
  BY DEF port_mapping
<1>3. m \in Names \cup {None}
  BY MappingType
<1>4. CASE F = {}
  BY <1>2, <1>4 DEF NetsOf
<1>5. CASE F # {}
  <2>1. PICK k \in F : k = CHOOSE h \in F : TRUE
    BY <1>5
  <2>2. m = list[k].net /\ nets_at = {m}
    BY <1>1, <1>2, <1>5, <2>1 DEF NetsOf
  <2>3. k \in 1 .. Len(list)
    BY <2>1 DEF first_entry
  <2>4. list[k] \in port_list_t
    BY <2>3, ElementOfSeq
  <2>5. m \in Names
    BY <2>2, <2>4 DEF port_list_t
  <2> HIDE DEF m
  <2>6. (CHOOSE n \in {m} : TRUE) = m
    OBVIOUS
  <2> QED BY <2>2, <2>5, <2>6, NameAssumption DEF m
<1> QED BY <1>4, <1>5

\* The places of the netlist, one by one.
LEMMA PlaceShape ==
  ASSUME TypeOK, NEW x \in Places
  PROVE  /\ NetAt(x) \in Names /\ PinAt(x) \in PinIds /\ PinAt(x) # None
         /\ \/ /\ x[1] = "input" /\ x = <<"input", x[2], None>> /\ x[2] \in 1 .. Len(design.inputs)
               /\ NetAt(x) = design.inputs[x[2]] /\ PinAt(x) = <<None, NetAt(x)>> /\ Drives(x)
            \/ /\ x[1] = "output" /\ x = <<"output", x[2], None>> /\ x[2] \in 1 .. Len(design.outputs)
               /\ NetAt(x) = design.outputs[x[2]] /\ PinAt(x) = <<None, NetAt(x)>>
               /\ (Drives(x) <=> \E k \in 1 .. Len(design.inputs) : design.inputs[k] = NetAt(x))
            \/ /\ x[1] = "instance" /\ x = <<"instance", x[2], x[3]>>
               /\ x[2] \in 1 .. Len(design.instances) /\ x[3] \in Ports /\ x[3] \in PortsOf(x[2])
               /\ PinAt(x) = <<Instance(x[2]).name, x[3]>>
               /\ NetAt(x) = port_mapping(Instance(x[2]).port_list)[x[3]]
               /\ (Drives(x) <=> \E k \in 1 .. Len(design.instances) :
                                   MakesPin(k, PinAt(x)) /\ Cell(k).ports[x[3]] = "OUTPUT")
<1>1. CASE x \in PrimaryPlaces
  <2>1. ASSUME NEW k \in 1 .. Len(design.inputs), x = <<"input", k, None>>
        PROVE  /\ x[1] = "input" /\ x[2] = k /\ x = <<"input", x[2], None>>
               /\ NetAt(x) = design.inputs[x[2]] /\ NetAt(x) \in Names
               /\ PinAt(x) = <<None, NetAt(x)>> /\ Drives(x)
    BY <2>1, ItemTypes DEF NetAt, PinAt, Drives
  <2>2. ASSUME NEW k \in 1 .. Len(design.outputs), x = <<"output", k, None>>
        PROVE  /\ x[1] = "output" /\ x[2] = k /\ x = <<"output", x[2], None>>
               /\ NetAt(x) = design.outputs[x[2]] /\ NetAt(x) \in Names
               /\ PinAt(x) = <<None, NetAt(x)>>
               /\ (Drives(x) <=> \E l \in 1 .. Len(design.inputs) : design.inputs[l] = NetAt(x))
    BY <2>2, ItemTypes DEF NetAt, PinAt, Drives, IsIn
  <2>3. \A n \in Names : <<None, n>> \in PinIds
    BY DEF PinIds
  <2> QED BY <1>1, <2>1, <2>2, <2>3, NameAssumption DEF PrimaryPlaces
<1>2. CASE x \notin PrimaryPlaces
  <2>1. PICK k \in 1 .. Len(design.instances), p \in Ports : x = <<"instance", k, p>>
    BY <1>2 DEF Places, InstancePlaces
  <2>2. /\ x[1] = "instance" /\ x[2] = k /\ x[3] = p /\ x[3] \in PortsOf(k) /\ Entries(x) # {}
    BY <1>2, <2>1 DEF Places
  <2>3. /\ NetAt(x) = port_mapping(Instance(k).port_list)[p] /\ NetAt(x) \in Names
    <3>1. Instance(k).port_list \in Seq(port_list_t)
      BY ItemTypes
    <3>2. Entries(x) = NetsOf(Instance(k).port_list, p)
      BY <2>2 DEF Entries, NetsOf
    <3>3. NetAt(x) = CHOOSE n \in Entries(x) : TRUE
      BY <2>2 DEF NetAt
    <3>4. Entries(x) # {}
      BY <2>2
    <3> QED BY <3>1, <3>2, <3>3, <3>4, MappingAt
  <2>4. PinAt(x) = <<Instance(k).name, p>> /\ PinAt(x) \in PinIds
    BY <2>2, ItemTypes DEF PinAt, PinIds
  <2>5. Drives(x) <=> \E l \in 1 .. Len(design.instances) :
                        MakesPin(l, PinAt(x)) /\ Cell(l).ports[x[3]] = "OUTPUT"
    BY <2>2 DEF Drives
  <2> QED BY <2>1, <2>2, <2>3, <2>4, <2>5, NameAssumption
<1> QED BY <1>1, <1>2

LEMMA PlacesThere ==
  ASSUME TypeOK
  PROVE  /\ \A k \in 1 .. Len(design.inputs) : <<"input", k, None>> \in Places
         /\ \A k \in 1 .. Len(design.outputs) : <<"output", k, None>> \in Places
         /\ \A k \in 1 .. Len(design.instances) : \A p \in PortsOf(k) \cap Ports :
              <<"instance", k, p>> \in Places <=> port_mapping(Instance(k).port_list)[p] # None
<1>1. ASSUME NEW k \in 1 .. Len(design.instances), NEW p \in PortsOf(k) \cap Ports
      PROVE  <<"instance", k, p>> \in Places <=> port_mapping(Instance(k).port_list)[p] # None
  <2> DEFINE x == <<"instance", k, p>>
  <2>1. Instance(k).port_list \in Seq(port_list_t)
    BY ItemTypes
  <2>2. Entries(x) = NetsOf(Instance(k).port_list, p)
    BY DEF Entries, NetsOf
  <2>3. x \in InstancePlaces /\ x[3] \in PortsOf(x[2])
    BY DEF InstancePlaces
  <2>4. x \notin PrimaryPlaces
    BY DEF PrimaryPlaces
  <2>5. x \in Places <=> Entries(x) # {}
    BY <2>3, <2>4 DEF Places
  <2> QED BY <2>1, <2>2, <2>5, MappingAt
<1> QED BY <1>1 DEF Places, PrimaryPlaces

-----------------------------------------------------------------------------
\* The netlist is read once: what it says stays.
LEMMA DesignStays == ASSUME [Next]_vars PROVE design' = design
<1>1. CASE \/ create_nets \/ create_primary_inputs \/ create_primary_outputs \/ create_cells
           \/ create_pins \/ connected_cell \/ created_arcs \/ UNCHANGED vars
  BY <1>1 DEF create_nets, create_primary_inputs, create_primary_outputs, create_primary, create_cells,
              create_pins, connected_cell, created_arcs, vars, Stop
<1>2. CASE \/ connect_pin \/ create_cell_arc \/ process_assignment \/ create_wires \/ deduce_clock
           \/ next_loop \/ call_deduce_clock \/ build_again
  BY <1>2 DEF connect_pin, create_cell_arc, process_assignment, create_wires, deduce_clock,
              next_loop, call_deduce_clock, build_again, Stop
<1> QED BY <1>1, <1>2 DEF Next, Step

LEMMA Static ==
  ASSUME design' = design
  PROVE  /\ Places' = Places
         /\ \A k : PortsOf(k)' = PortsOf(k) /\ Instance(k)' = Instance(k) /\ Cell(k)' = Cell(k)
         /\ \A x : NetAt(x)' = NetAt(x) /\ PinAt(x)' = PinAt(x) /\ Drives(x)' = Drives(x)
         /\ \A k, q : HasPin(k, q)' = HasPin(k, q) /\ MakesPin(k, q)' = MakesPin(k, q)
         /\ \A n : Drivers(n)' = Drivers(n)
         /\ \A n, k : DrivenBefore(n, k)' = DrivenBefore(n, k)
         /\ WellFormed' = WellFormed
<1>1. \A k : PortsOf(k)' = PortsOf(k) /\ Instance(k)' = Instance(k) /\ Cell(k)' = Cell(k)
  BY DEF PortsOf, Instance, Cell
<1>2. \A x : Entries(x)' = Entries(x)
  BY DEF Entries, Instance
<1>3. Places' = Places
  BY <1>1, <1>2 DEF Places, PrimaryPlaces, InstancePlaces
<1>4. \A x : NetAt(x)' = NetAt(x)
  BY <1>2 DEF NetAt
<1>5. \A x : PinAt(x)' = PinAt(x)
  BY <1>1, <1>4 DEF PinAt
<1>6. \A k, q : HasPin(k, q)' = HasPin(k, q) /\ MakesPin(k, q)' = MakesPin(k, q)
  BY <1>1 DEF HasPin, MakesPin
<1>7. \A x : Drives(x)' = Drives(x)
  BY <1>1, <1>4, <1>5, <1>6 DEF Drives, IsIn
<1>8. \A n : Drivers(n)' = Drivers(n)
  BY <1>3, <1>4, <1>7 DEF Drivers
<1>9. \A n, k : DrivenBefore(n, k)' = DrivenBefore(n, k)
  BY <1>8 DEF DrivenBefore, Assigned
<1>10. WellFormed' = WellFormed
  BY <1>1, <1>3, <1>4, <1>6, <1>7, <1>9
     DEF WellFormed, ModulesKnown, PortsExist, NetsDeclared, OneDriver, AssignmentsInOrder, IsIn
<1> QED BY <1>1, <1>3, <1>4, <1>5, <1>6, <1>7, <1>8, <1>9, <1>10

-----------------------------------------------------------------------------
\* Where the loops are.
LEMMA Numbers ==
  /\ LoopNo["nets"] = 1 /\ LoopNo["inputs"] = 2 /\ LoopNo["outputs"] = 3 /\ LoopNo["cells"] = 4
  /\ LoopNo["pins"] = 5 /\ LoopNo["connect"] = 6 /\ LoopNo["cell_arcs"] = 7
  /\ LoopNo["assigns"] = 8 /\ LoopNo["wires"] = 9
  /\ LoopNo["built"] = 10 /\ LoopNo["clock"] = 10 /\ LoopNo["idle"] = 10
BY DEF LoopNo

\* The loops over sequences and the length of each.
Loops == {"nets", "inputs", "outputs", "cells", "pins", "connect", "cell_arcs", "assigns"}
Items(loop) == CASE loop = "nets"    -> Len(design.wires)
                 [] loop = "inputs"  -> Len(design.inputs)
                 [] loop = "outputs" -> Len(design.outputs)
                 [] loop = "assigns" -> Len(design.assignments)
                 [] OTHER            -> Len(design.instances)

\* The loop passes its item k.
Turn(loop, k) == phase = loop /\ k = i /\ phase' = loop /\ i' = i + 1

\* A loop hands on to the one with the next number, and only from its end.
LEMMA HandsOn ==
  ASSUME IInv, next_loop
  PROVE  /\ LoopNo[phase] \in 1 .. 10 /\ LoopNo[phase'] \in 1 .. 10
         /\ phase # "clock" => LoopNo[phase'] = LoopNo[phase] + 1
         /\ phase = "clock" => phase' = "idle"
         /\ phase \in Loops => i > Items(phase)
<1>1. phase \in Phases \ Resting /\ phase' = NextLoop[phase] /\ LoopEnds[phase]
  BY DEF next_loop, IInv, BuildInv, ControlOK
<1>2. /\ LoopNo[phase] \in 1 .. 10 /\ LoopNo[phase'] \in 1 .. 10
      /\ phase # "clock" => LoopNo[phase'] = LoopNo[phase] + 1
      /\ phase = "clock" => phase' = "idle"
  <2>1. /\ NextLoop["nets"] = "inputs" /\ NextLoop["inputs"] = "outputs" /\ NextLoop["outputs"] = "cells"
        /\ NextLoop["cells"] = "pins" /\ NextLoop["pins"] = "connect" /\ NextLoop["connect"] = "cell_arcs"
        /\ NextLoop["cell_arcs"] = "assigns" /\ NextLoop["assigns"] = "wires"
        /\ NextLoop["wires"] = "built" /\ NextLoop["clock"] = "idle"
    BY DEF NextLoop
  <2>2. phase \in {"nets", "inputs", "outputs", "cells", "pins"} =>
          LoopNo[phase] \in 1 .. 5 /\ LoopNo[phase'] = LoopNo[phase] + 1
    BY <1>1, <2>1, Numbers
  <2>3. phase \in {"connect", "cell_arcs", "assigns", "wires"} =>
          LoopNo[phase] \in 6 .. 9 /\ LoopNo[phase'] = LoopNo[phase] + 1
    BY <1>1, <2>1, Numbers
  <2>4. phase = "clock" => phase' = "idle" /\ LoopNo[phase] = 10 /\ LoopNo[phase'] = 10
    BY <1>1, <2>1, Numbers
  <2>5. \/ phase \in {"nets", "inputs", "outputs", "cells", "pins"}
        \/ phase \in {"connect", "cell_arcs", "assigns", "wires"} \/ phase = "clock"
    BY <1>1 DEF Phases, Resting
  <2> QED BY <2>2, <2>3, <2>4, <2>5
<1>3. phase \in {"pins", "connect", "cell_arcs"} => Len(cells) = Len(design.instances)
  BY Numbers DEF IInv, BuildInv, CellsRight
<1>4. phase \in Loops => i > Items(phase)
  <2>1. /\ LoopEnds["nets"] => i > Items("nets")
        /\ LoopEnds["inputs"] => i > Items("inputs")
        /\ LoopEnds["outputs"] => i > Items("outputs")
        /\ LoopEnds["cells"] => i > Items("cells")
        /\ LoopEnds["pins"] /\ Len(cells) = Len(design.instances) => i > Items("pins")
        /\ LoopEnds["connect"] /\ Len(cells) = Len(design.instances) => i > Items("connect")
        /\ LoopEnds["cell_arcs"] /\ Len(cells) = Len(design.instances) => i > Items("cell_arcs")
        /\ LoopEnds["assigns"] => i > Items("assigns")
    BY DEF LoopEnds, Items
  <2> QED BY <1>1, <1>3, <2>1 DEF Loops
<1> QED BY <1>2, <1>4

LEMMA BehindNext ==
  ASSUME IInv, [Next]_vars, NEW loop \in Loops, NEW k \in 1 .. Items(loop)
  PROVE  \/ builds' = builds /\ (Behind(loop, k)' <=> Behind(loop, k) \/ Turn(loop, k))
         \/ /\ builds' = builds + 1 /\ ~ Behind(loop, k)' /\ ~ Turn(loop, k)
            /\ phase \in Resting /\ \A l : Behind(loop, l)
<1>0. /\ LoopNo[loop] \in 1 .. 8 /\ i \in Nat \ {0} /\ k \in Int /\ phase \in Phases
      /\ builds \in Nat
  <2>1. Items(loop) \in Nat
    BY DesignType DEF IInv, GraphInv, Items
  <2> QED BY <2>1, Numbers DEF Loops, IInv, BuildInv, ControlOK
<1>1. CASE phase' = phase /\ i' = i /\ builds' = builds
  BY <1>0, <1>1 DEF Behind, Turn
<1>2. CASE phase' = phase /\ i' = i + 1 /\ builds' = builds
  BY <1>0, <1>2 DEF Behind, Turn
<1>3. CASE next_loop
  <2>1. phase' # phase /\ i' = 1 /\ builds' = builds
    BY <1>3, HandsOn, Numbers, <1>0 DEF next_loop
  <2>2. CASE phase = "clock"
    BY <1>0, <1>3, <2>1, <2>2, HandsOn, Numbers DEF Behind, Turn, Loops
  <2>3. CASE phase # "clock"
    <3>1. LoopNo[phase] \in 1 .. 10 /\ LoopNo[phase'] = LoopNo[phase] + 1
      BY <1>3, <2>3, HandsOn
    <3>2. LoopNo[phase] = LoopNo[loop] => phase = loop
      BY <1>0, Numbers DEF Loops, Phases
    <3>3. phase = loop => k < i
      <4>1. phase = loop => i > Items(loop)
        BY <1>3, HandsOn
      <4>2. Items(loop) \in Nat
        BY DesignType DEF IInv, GraphInv, Items
      <4> QED BY <1>0, <4>1, <4>2
    <3>4. Behind(loop, k)' <=> LoopNo[phase'] > LoopNo[loop]
      BY <1>0, <2>1 DEF Behind
    <3>5. ~ Turn(loop, k)
      BY <2>1 DEF Turn
    <3>6. LoopNo[phase'] > LoopNo[loop] <=> LoopNo[phase] > LoopNo[loop] \/ LoopNo[phase] = LoopNo[loop]
      BY <1>0, <3>1
    <3>7. Behind(loop, k) <=> LoopNo[phase] > LoopNo[loop] \/ LoopNo[phase] = LoopNo[loop]
      BY <1>0, <3>2, <3>3 DEF Behind
    <3> QED BY <2>1, <3>4, <3>5, <3>6, <3>7
  <2> QED BY <2>2, <2>3
<1>4. CASE phase \in {"built", "clock"} /\ phase' \in {"clock", "idle"} /\ builds' = builds
  BY <1>0, <1>4, Numbers DEF Behind, Turn, Loops
<1>5. CASE build_again
  <2>1. /\ phase \in Resting /\ phase' = "nets" /\ i' = 1 /\ builds' = builds + 1
    BY <1>5 DEF build_again
  <2>2. ~ Behind(loop, k)'
    BY <1>0, <2>1, Numbers DEF Behind
  <2> QED BY <1>0, <2>1, <2>2, Numbers DEF Behind, Turn, Resting, Loops
<1>6. CASE \/ create_nets \/ create_primary_inputs \/ create_primary_outputs \/ create_cells
           \/ create_pins \/ connected_cell \/ created_arcs
  BY <1>1, <1>2, <1>6 DEF create_nets, create_primary_inputs, create_primary_outputs, create_primary,
     create_cells, create_pins, connected_cell, created_arcs, Stop, control, NextItem
<1>7. CASE connect_pin \/ create_cell_arc \/ process_assignment \/ create_wires \/ UNCHANGED vars
  BY <1>1, <1>2, <1>7 DEF connect_pin, create_cell_arc, process_assignment, create_wires, vars,
     Stop, control, NextItem
<1>8. CASE deduce_clock \/ call_deduce_clock
  BY <1>1, <1>2, <1>4, <1>8 DEF deduce_clock, call_deduce_clock, AtItem, Stop, control, NextItem
<1> QED BY <1>3, <1>5, <1>6, <1>7, <1>8 DEF Next, Step

LEMMA PassedNext ==
  ASSUME IInv, [Next]_vars, NEW loop \in Loops, NEW k \in 1 .. Items(loop)
  PROVE  Passed(loop, k)' <=> Passed(loop, k) \/ Turn(loop, k)
<1>1. builds \in Nat \ {0}
  BY DEF IInv, BuildInv, ControlOK
<1> QED BY <1>1, BehindNext DEF Passed

\* What a step may change, and which step passes an item of a loop.
LEMMA Effects ==
  ASSUME IInv, [Next]_vars
  PROVE  /\ nets' = nets \/ create_nets
         /\ pin_type' = pin_type \/ create_primary_inputs \/ create_primary_outputs \/ create_pins
         /\ \/ UNCHANGED <<source, sinks>>
            \/ create_primary_inputs \/ create_primary_outputs \/ connect_pin \/ process_assignment
         /\ cells' = cells \/ create_cells \/ next_loop
         /\ arcs' = arcs \/ create_cell_arc \/ create_wires
<1>1. CASE \/ create_nets \/ create_primary_inputs \/ create_primary_outputs \/ create_cells
           \/ create_pins \/ connected_cell \/ created_arcs
  BY <1>1 DEF create_nets, create_primary_inputs, create_primary_outputs, create_primary,
     create_cells, create_pins, connected_cell, created_arcs, Stop, graph
<1>2. CASE connect_pin \/ create_cell_arc \/ process_assignment \/ create_wires \/ UNCHANGED vars
  BY <1>2 DEF connect_pin, create_cell_arc, process_assignment, create_wires, vars, Stop, graph
<1>3. CASE deduce_clock \/ next_loop \/ call_deduce_clock \/ build_again
  BY <1>3 DEF deduce_clock, next_loop, call_deduce_clock, build_again, Stop, graph
<1> QED BY <1>1, <1>2, <1>3 DEF Next, Step

LEMMA Turns ==
  ASSUME IInv, [Next]_vars, NEW k
  PROVE  /\ Turn("nets", k) => create_nets
         /\ Turn("inputs", k) => create_primary_inputs
         /\ Turn("outputs", k) => create_primary_outputs
         /\ Turn("cells", k) => create_cells
         /\ Turn("pins", k) => create_pins
         /\ Turn("connect", k) => connected_cell
         /\ Turn("cell_arcs", k) => created_arcs
         /\ Turn("assigns", k) => process_assignment
<1>0. i \in Nat \ {0}
  BY DEF IInv, BuildInv, ControlOK
<1>1. CASE create_nets \/ create_cells \/ create_pins \/ connected_cell \/ created_arcs
  BY <1>1 DEF Turn, create_nets, create_cells, create_pins, connected_cell, created_arcs, AtItem
<1>2. CASE create_primary_inputs \/ create_primary_outputs \/ process_assignment
  BY <1>2 DEF Turn, create_primary_inputs, create_primary_outputs, create_primary,
     process_assignment, AtItem
<1>3. CASE connect_pin \/ create_cell_arc \/ create_wires \/ UNCHANGED vars
  <2>1. i' = i
    BY <1>3 DEF connect_pin, create_cell_arc, create_wires, vars, Stop, control
  <2> QED BY <1>0, <2>1 DEF Turn
<1>4. CASE deduce_clock \/ call_deduce_clock \/ build_again
  <2>1. phase \in {"clock", "built", "idle"}
    BY <1>4 DEF deduce_clock, call_deduce_clock, build_again, AtItem, Resting
  <2> QED BY <2>1 DEF Turn
<1>5. CASE next_loop
  <2>1. phase' # phase
    BY <1>5, HandsOn, Numbers
  <2> QED BY <2>1 DEF Turn
<1> QED BY <1>1, <1>2, <1>3, <1>4, <1>5 DEF Next, Step

LEMMA NextControl ==
  ASSUME IInv, [Next]_vars
  PROVE  ControlOK'
<1>0. ControlOK
  BY DEF IInv, BuildInv
<1>1. CASE UNCHANGED <<control, nets, builds>>
  BY <1>0, <1>1 DEF control, ControlOK
<1>2. CASE /\ phase' = phase /\ i' = i + 1 /\ j' = 1 /\ done' = {} /\ builds' = builds
  BY <1>0, <1>2 DEF ControlOK
<1>3. CASE \/ create_nets \/ create_primary_inputs \/ create_primary_outputs \/ create_cells
           \/ create_pins \/ connected_cell
  BY <1>1, <1>2, <1>3 DEF create_nets, create_primary_inputs, create_primary_outputs, create_primary,
     create_cells, create_pins, connected_cell, Stop, graph, NextItem
<1>4. CASE created_arcs \/ process_assignment \/ UNCHANGED vars
  BY <1>1, <1>2, <1>4 DEF created_arcs, process_assignment, vars, Stop, graph, NextItem
<1>5. CASE connect_pin
  <2>1. \/ UNCHANGED <<control, nets, builds>>
        \/ UNCHANGED <<phase, i, j, builds>>
    BY <1>5 DEF connect_pin, Stop, graph
  <2>2. phase = "connect"
    BY <1>5 DEF connect_pin, AtItem
  <2> QED BY <1>0, <1>1, <2>1, <2>2 DEF ControlOK
<1>6. CASE create_cell_arc
  <2>1. \/ UNCHANGED <<control, nets, builds>>
        \/ j' = j + 1 /\ UNCHANGED <<phase, i, done, nets, builds>>
    BY <1>6 DEF create_cell_arc, Stop, graph
  <2> QED BY <1>0, <1>1, <2>1 DEF ControlOK
<1>7. CASE create_wires
  BY <1>0, <1>7 DEF create_wires, ControlOK
<1>8. CASE deduce_clock
  <2>1. \/ UNCHANGED <<control, nets, builds>>
        \/ phase' = "idle" /\ i' = 1 /\ j' = 1 /\ done' = {} /\ builds' = builds
        \/ /\ phase' = phase /\ i' = i + 1 /\ j' = 1 /\ done' = {} /\ builds' = builds
    BY <1>8 DEF deduce_clock, Stop, graph, NextItem
  <2> QED BY <1>0, <1>1, <1>2, <2>1 DEF ControlOK, Phases
<1>9. CASE call_deduce_clock \/ build_again
  BY <1>0, <1>9 DEF call_deduce_clock, build_again, ControlOK, Phases
<1>10. CASE next_loop
  <2>1. phase' \in Phases
    BY <1>0, <1>10 DEF next_loop, NextLoop, Phases, Resting, ControlOK
  <2> QED BY <1>0, <1>10, <2>1 DEF next_loop, ControlOK
<1> QED BY <1>3, <1>4, <1>5, <1>6, <1>7, <1>8, <1>9, <1>10 DEF Next, Step

\* Phases change at the end of a loop or between calls.
LEMMA PhaseNext ==
  ASSUME IInv, [Next]_vars
  PROVE  \/ next_loop \/ build_again
         \/ phase \in {"built", "clock"} /\ phase' \in {"clock", "idle"}
         \/ phase' = phase /\ (i' = i \/ i' = i + 1)
<1>1. CASE \/ create_nets \/ create_primary_inputs \/ create_primary_outputs \/ create_cells
           \/ create_pins \/ connected_cell \/ created_arcs
  BY <1>1 DEF create_nets, create_primary_inputs, create_primary_outputs, create_primary,
     create_cells, create_pins, connected_cell, created_arcs, Stop, control, NextItem
<1>2. CASE connect_pin \/ create_cell_arc \/ process_assignment \/ create_wires \/ UNCHANGED vars
  BY <1>2 DEF connect_pin, create_cell_arc, process_assignment, create_wires, vars, Stop, control, NextItem
<1>3. CASE deduce_clock \/ call_deduce_clock
  BY <1>3 DEF deduce_clock, call_deduce_clock, AtItem, Stop, control, NextItem
<1> QED BY <1>1, <1>2, <1>3 DEF Next, Step

\* An assertion that fails leaves everything but the error.
LEMMA Halts ==
  ASSUME NEW e, Stop(e)
  PROVE  error' = e /\ UNCHANGED <<design, nets, source, sinks, pin_type, cells, arcs, clock,
                                   phase, i, j, done, builds>>
BY DEF Stop, graph, control

-----------------------------------------------------------------------------
\* The cells of a build are the instances, each with its mapping of ports.
CellOf(inst) == [name |-> inst.name, module |-> inst.module,
                 port_mapping |-> port_mapping(inst.port_list)]
LEMMA CellCreated ==
  ASSUME create_cells
  PROVE  /\ phase = "cells" /\ i \in 1 .. Len(design.instances)
         /\ \/ Instance(i).module \notin DOMAIN Library /\ \E e : Stop(e)
            \/ /\ Instance(i).module \in DOMAIN Library
               /\ cells' = Append(cells, CellOf(Instance(i)))
               /\ phase' = phase /\ i' = i + 1 /\ builds' = builds /\ error' = error
BY Zenon DEF create_cells, AtItem, NextItem, Instance, CellOf

LEMMA NextCells == ASSUME IInv, [Next]_vars PROVE CellsRight'
<1>0. /\ design' = design /\ cells \in Seq(CellInst) /\ Len(cells) \in Nat
      /\ i \in Nat \ {0} /\ phase \in Phases /\ phase' \in Phases
  BY DesignStays, DesignType, NextControl DEF IInv, GraphInv, BuildInv, ControlOK, TypeOK
<1>1. ASSUME NEW k \in 1 .. Len(design.instances), Passed("cells", k)'
      PROVE  Instance(k).module \in DOMAIN Library
  <2>1. CASE Passed("cells", k)
    BY <2>1 DEF IInv, BuildInv, CellsRight
  <2>2. CASE Turn("cells", k)
    <3>1. create_cells /\ k = i /\ i' = i + 1
      BY <2>2, Turns DEF Turn
    <3> QED BY <1>0, <3>1, CellCreated, Halts
  <2> QED BY <1>1, <2>1, <2>2, PassedNext DEF Loops, Items
<1> DEFINE Right(cs, ph, ii) ==
      /\ Len(cs) <= Len(design.instances)
      /\ Len(cs) = IF ph = "cells" THEN ii - 1 ELSE Len(design.instances)
      /\ \A k \in 1 .. Len(cs) :
           /\ cs[k].name = Instance(k).name /\ cs[k].module = Instance(k).module
           /\ cs[k].port_mapping = port_mapping(Instance(k).port_list)
<1>2. LoopNo[phase] >= 4 => Right(cells, phase, i)
  BY Numbers DEF IInv, BuildInv, CellsRight
<1>3. ASSUME LoopNo[phase'] >= 4 PROVE Right(cells', phase', i')
  <2>1. CASE create_cells /\ i' = i + 1
    <3> DEFINE c == CellOf(Instance(i))
    <3>1. /\ phase = "cells" /\ phase' = "cells" /\ i \in 1 .. Len(design.instances)
          /\ cells' = Append(cells, c)
      BY <1>0, <2>1, CellCreated, Halts
    <3>2. Right(cells, phase, i) /\ Len(cells) = i - 1
      BY <1>2, <3>1, Numbers
    <3>3. /\ c.name = Instance(i).name /\ c.module = Instance(i).module
          /\ c.port_mapping = port_mapping(Instance(i).port_list)
      BY DEF CellOf
    <3> HIDE DEF c
    <3>4. /\ Len(cells') = i /\ cells'[i] = c
          /\ \A k \in 1 .. Len(cells) : cells'[k] = cells[k]
      <4>1. Len(cells') = Len(cells) + 1 /\ cells'[Len(cells) + 1] = c
            /\ \A k \in 1 .. Len(cells) : cells'[k] = cells[k]
        BY <1>0, <3>1, AppendProperties
      <4>2. Len(cells) + 1 = i
        BY <1>0, <3>2
      <4> QED BY <4>1, <4>2
    <3>5. \A k \in 1 .. i : k \in 1 .. Len(cells) \/ k = i
      BY <1>0, <3>2
    <3>6. \A k \in 1 .. Len(cells') :
            /\ cells'[k].name = Instance(k).name /\ cells'[k].module = Instance(k).module
            /\ cells'[k].port_mapping = port_mapping(Instance(k).port_list)
      BY <3>2, <3>3, <3>4, <3>5
    <3>7. Len(cells') <= Len(design.instances) /\ Len(cells') = i' - 1
      BY <1>0, <2>1, <3>1, <3>4
    <3> QED BY <3>1, <3>6, <3>7
  <2>2. CASE next_loop
    <3>1. /\ LoopNo[phase] \in 1 .. 10 /\ LoopNo[phase'] \in 1 .. 10
          /\ phase # "clock" => LoopNo[phase'] = LoopNo[phase] + 1
          /\ phase = "clock" => phase' = "idle"
          /\ phase = "cells" => i > Len(design.instances)
      BY <2>2, HandsOn DEF Loops, Items
    <3>2. CASE phase' = "cells"
      <4>1. cells' = << >> /\ i' = 1
        BY <2>2, <3>2 DEF next_loop
      <4>2. Len(cells') = 0 /\ Len(design.instances) \in Nat
        BY <4>1, DesignType DEF IInv, GraphInv
      <4>3. ~ \E k \in Int : k \in 1 .. 0
        OBVIOUS
      <4> QED BY <3>2, <4>1, <4>2, <4>3
    <3>3. CASE phase' # "cells"
      <4>1. cells' = cells
        BY <2>2, <3>3 DEF next_loop
      <4>2. LoopNo[phase'] # 4
        BY <1>0, <3>3, Numbers DEF Phases
      <4>3. LoopNo[phase] >= 4
        BY <1>3, <3>1, <4>2, Numbers
      <4>4. Right(cells, phase, i)
        BY <1>2, <4>3
      <4>5. phase = "cells" => Len(cells) = Len(design.instances)
        <5>1. Len(design.instances) \in Nat
          BY DesignType DEF IInv, GraphInv
        <5> QED BY <1>0, <3>1, <4>4, <5>1
      <4> QED BY <3>3, <4>1, <4>4, <4>5
    <3> QED BY <3>2, <3>3
  <2>3. CASE build_again
    BY <1>3, <2>3, Numbers DEF build_again
  <2>4. CASE ~ next_loop /\ ~ build_again /\ ~ (create_cells /\ i' = i + 1)
    <3>1. \/ phase \in {"built", "clock"} /\ phase' \in {"clock", "idle"}
          \/ phase' = phase /\ (phase = "cells" => i' = i)
      <4>1. phase = "cells" /\ i' = i + 1 /\ phase' = phase => create_cells
        BY Turns DEF Turn
      <4> QED BY <2>4, <4>1, PhaseNext
    <3>2. cells' = cells
      <4>1. CASE create_cells
        BY <2>4, <4>1 DEF create_cells, Stop, graph, NextItem
      <4> QED BY <2>4, <4>1, Effects
    <3>3. LoopNo[phase] >= 4
      BY <1>3, <3>1, Numbers
    <3> QED BY <1>2, <3>1, <3>2, <3>3
  <2> QED BY <2>1, <2>2, <2>3, <2>4
<1>4. \A k : Instance(k)' = Instance(k)
  BY <1>0, Static
<1> QED BY <1>0, <1>1, <1>3, <1>4, Numbers DEF CellsRight

\* One turn of the loops over the inputs and outputs: refused or done.
LEMMA PrimaryCreated ==
  ASSUME NEW name, NEW list, NEW type, create_primary(name, list, type)
  PROVE  LET n == list[i]
             p == <<None, n>>
             t == create_pin(p, type)
         IN /\ phase = name /\ i \in 1 .. Len(list)
            /\ \/ (n \notin nets \/ has_source(t, n)) /\ \E e : Stop(e)
               \/ /\ n \in nets /\ ~ has_source(t, n)
                  /\ pin_type' = [pin_type EXCEPT ![p] = t]
                  /\ connect_to(p, t, n)
                  /\ phase' = phase /\ i' = i + 1 /\ builds' = builds /\ nets' = nets /\ error' = error
BY Zenon DEF create_primary, AtItem, NextItem

LEMMA NextNets == ASSUME IInv, [Next]_vars PROVE NetsRight'
<1>0. /\ design' = design /\ NetsRight /\ i \in Nat \ {0}
  BY DesignStays DEF IInv, BuildInv, ControlOK
<1>1. \A k \in 1 .. Len(design.wires) : Passed("nets", k)' <=> Passed("nets", k) \/ Turn("nets", k)
  BY PassedNext DEF Loops, Items
<1>2. CASE create_nets
  <2>1. /\ i \in 1 .. Len(design.wires) /\ nets' = nets \cup {design.wires[i]}
        /\ \A k : Turn("nets", k) <=> k = i
    BY <1>2 DEF create_nets, AtItem, NextItem, Turn
  <2> QED BY <1>0, <1>1, <2>1 DEF NetsRight
<1>3. CASE ~ create_nets
  <2>1. nets' = nets /\ \A k : ~ Turn("nets", k)
    BY <1>3, Effects, Turns
  <2> QED BY <1>0, <1>1, <2>1 DEF NetsRight
<1> QED BY <1>2, <1>3

\* A pin is made by the first instance that has it.
LEMMA MadeOnce ==
  ASSUME NEW k \in Nat \ {0}, NEW q, HasPin(k, q)
  PROVE  \E l \in 1 .. k : MakesPin(l, q) /\ \A h \in Nat \ {0} : MakesPin(h, q) => h = l
<1> DEFINE S == {h \in 1 .. k : HasPin(h, q)}
<1>1. S \subseteq Nat /\ S # {}
  OBVIOUS
<1>2. PICK x \in S : \A y \in S : ~ (<<y, x>> \in OpToRel(<, Nat))
  BY <1>1, NatLessThanWellFounded, WFMin
<1>3. ASSUME NEW y \in S, y < x PROVE <<y, x>> \in OpToRel(<, Nat)
  <2>1. <<y, x>> \in Nat \X Nat
    OBVIOUS
  <2>2. <<y, x>>[1] < <<y, x>>[2]
    BY <1>3
  <2> QED BY <2>1, <2>2, Zenon DEF OpToRel
<1>4. \A y \in S : ~ (y < x)
  BY <1>2, <1>3
<1>5. x \in 1 .. k /\ HasPin(x, q)
  OBVIOUS
<1>6. ASSUME NEW h \in 1 .. x - 1 PROVE ~ HasPin(h, q)
  BY <1>4, <1>5
<1>7. MakesPin(x, q)
  BY <1>5, <1>6 DEF MakesPin
<1>8. ASSUME NEW h \in Nat \ {0}, MakesPin(h, q) PROVE h = x
  <2>1. HasPin(h, q) /\ \A l \in 1 .. h - 1 : ~ HasPin(l, q)
    BY <1>8 DEF MakesPin
  <2>2. ~ (x \in 1 .. h - 1) /\ ~ (h \in 1 .. x - 1)
    BY <1>5, <1>6, <2>1
  <2> QED BY <1>5, <2>2
<1> QED BY <1>5, <1>7, <1>8

\* The cell the loops are at is that of the instance they are at.
LEMMA ThisInstance ==
  ASSUME IInv, phase \in {"pins", "connect", "cell_arcs"}, i \in 1 .. Len(cells)
  PROVE  /\ i \in 1 .. Len(design.instances)
         /\ cells[i].name = Instance(i).name /\ Instance(i).name \in Instances
         /\ Instance(i).module \in DOMAIN Library
         /\ Library[cells[i].module] = Cell(i)
         /\ get_ports(cells[i]) = PortsOf(i) /\ PortsOf(i) \subseteq Ports
         /\ Cell(i).ports \in [PortsOf(i) -> {"INPUT", "OUTPUT"}]
         /\ get_arcs(cells[i]) = Cell(i).arcs
         /\ cells[i].port_mapping = port_mapping(Instance(i).port_list)
<1>1. LoopNo[phase] > 4
  BY Numbers
<1>2. /\ Len(cells) = Len(design.instances)
      /\ cells[i].name = Instance(i).name /\ cells[i].module = Instance(i).module
      /\ cells[i].port_mapping = port_mapping(Instance(i).port_list)
  BY <1>1, Numbers DEF IInv, BuildInv, CellsRight
<1>3. Instance(i).module \in DOMAIN Library
  BY <1>1, <1>2, Numbers DEF IInv, BuildInv, CellsRight, Passed, Behind
<1>4. Instance(i).name \in Instances
  BY <1>2, ItemTypes DEF IInv, GraphInv
<1> QED BY <1>2, <1>3, <1>4, CellType DEF get_ports, get_arcs, Cell

LEMMA PinCreated ==
  ASSUME IInv, create_pins
  PROVE  /\ phase = "pins" /\ i \in 1 .. Len(design.instances) /\ phase' = "pins" /\ i' = i + 1
         /\ builds' = builds
         /\ pin_type' = [p \in PinIds |-> IF HasPin(i, p) THEN create_pin(p, Cell(i).ports[p[2]])
                                          ELSE pin_type[p]]
         /\ Instance(i).name # None
         /\ Cell(i).ports \in [PortsOf(i) -> {"INPUT", "OUTPUT"}]
<1>1. phase = "pins" /\ i \in 1 .. Len(cells)
  BY DEF create_pins, AtItem
<1>2. /\ i \in 1 .. Len(design.instances)
      /\ cells[i].name = Instance(i).name /\ Instance(i).name \in Instances
      /\ Library[cells[i].module] = Cell(i) /\ get_ports(cells[i]) = PortsOf(i)
      /\ Cell(i).ports \in [PortsOf(i) -> {"INPUT", "OUTPUT"}]
  BY <1>1, ThisInstance
<1>3. phase' = "pins" /\ i' = i + 1 /\ builds' = builds
  BY <1>1 DEF create_pins, NextItem
<1>4. pin_type' = [p \in PinIds |-> IF p[1] = cells[i].name /\ p[2] \in get_ports(cells[i])
                                    THEN create_pin(p, Library[cells[i].module].ports[p[2]])
                                    ELSE pin_type[p]]
  BY DEF create_pins
<1>5. pin_type' = [p \in PinIds |-> IF HasPin(i, p) THEN create_pin(p, Cell(i).ports[p[2]])
                                    ELSE pin_type[p]]
  BY <1>2, <1>4 DEF HasPin
<1> QED BY <1>1, <1>2, <1>3, <1>5, NameAssumption

\* Inputs come before outputs: a name in both is an input.
TypeOf(n) == IF InputMet(n) THEN "PRIMARY_INPUT" ELSE IF OutputMet(n) THEN "PRIMARY_OUTPUT" ELSE None
LEMMA MetNames ==
  ASSUME IInv, [Next]_vars, NEW n
  PROVE  /\ InputMet(n)' <=> InputMet(n) \/ \E k \in 1 .. Len(design.inputs) :
                                              Turn("inputs", k) /\ design.inputs[k] = n
         /\ OutputMet(n)' <=> OutputMet(n) \/ \E k \in 1 .. Len(design.outputs) :
                                                Turn("outputs", k) /\ design.outputs[k] = n
<1>0. design' = design
  BY DesignStays
<1>1. \A k \in 1 .. Len(design.inputs) : Passed("inputs", k)' <=> Passed("inputs", k) \/ Turn("inputs", k)
  BY PassedNext DEF Loops, Items
<1>2. \A k \in 1 .. Len(design.outputs) : Passed("outputs", k)' <=> Passed("outputs", k) \/ Turn("outputs", k)
  BY PassedNext DEF Loops, Items
<1> QED BY <1>0, <1>1, <1>2 DEF InputMet, OutputMet

LEMMA PinsStay ==
  ASSUME IInv, [Next]_vars, pin_type' = pin_type,
         \A k : ~ Turn("inputs", k) /\ ~ Turn("outputs", k) /\ ~ Turn("pins", k)
  PROVE  PinsRight'
<1>0. /\ design' = design /\ PinsRight
  BY DesignStays DEF IInv, BuildInv
<1>1. \A n : (InputMet(n)' <=> InputMet(n)) /\ (OutputMet(n)' <=> OutputMet(n))
  BY MetNames
<1>2. \A k \in 1 .. Len(design.instances) : Passed("pins", k)' <=> Passed("pins", k)
  BY PassedNext DEF Loops, Items
<1>3. \A p \in PinIds : p[1] = None => pin_type[p] = TypeOf(p[2])
  BY <1>0 DEF PinsRight, TypeOf
<1>4. \A p \in PinIds : p[1] = None => pin_type[p] = TypeOf(p[2])'
  BY <1>1, <1>3 DEF TypeOf
<1>5. \A p \in PinIds : p[1] # None =>
       /\ pin_type[p] # None => \E k \in 1 .. Len(design.instances) : Passed("pins", k)' /\ HasPin(k, p)
       /\ \A k \in 1 .. Len(design.instances) :
            Passed("pins", k)' /\ MakesPin(k, p) => pin_type[p] = Cell(k).ports[p[2]]
  BY <1>0, <1>2 DEF PinsRight
<1>6. \A k, q : HasPin(k, q)' = HasPin(k, q) /\ MakesPin(k, q)' = MakesPin(k, q) /\ Cell(k)' = Cell(k)
  BY <1>0, Static
<1> QED BY <1>0, <1>4, <1>5, <1>6 DEF PinsRight, TypeOf

LEMMA PrimaryPins ==
  ASSUME IInv, [Next]_vars, NEW n \in Names, NEW type \in {"PRIMARY_INPUT", "PRIMARY_OUTPUT"},
         pin_type' = [pin_type EXCEPT ![<<None, n>>] = create_pin(<<None, n>>, type)],
         \/ /\ type = "PRIMARY_INPUT" /\ phase = "inputs" /\ i \in 1 .. Len(design.inputs)
            /\ n = design.inputs[i]
         \/ /\ type = "PRIMARY_OUTPUT" /\ phase = "outputs" /\ i \in 1 .. Len(design.outputs)
            /\ n = design.outputs[i]
         ,
         phase' = phase, i' = i + 1, builds' = builds
  PROVE  PinsRight'
<1> DEFINE p0 == <<None, n>>
           t == create_pin(p0, type)
<1>0. /\ design' = design /\ PinsRight /\ i \in Nat \ {0} /\ builds \in Nat \ {0}
      /\ pin_type \in [PinIds -> PinTypes \cup {None}] /\ p0 \in PinIds
  BY DesignStays DEF IInv, BuildInv, ControlOK, GraphInv, TypeOK, PinIds
<1>1. \A q \in PinIds : pin_type'[q] = IF q = p0 THEN t ELSE pin_type[q]
  BY <1>0
<1>2. \A q \in PinIds : q[1] = None => pin_type[q] = TypeOf(q[2])
  BY <1>0 DEF PinsRight, TypeOf
<1>3. t = TypeOf(n)'
  <2>1. pin_type[p0] = TypeOf(n)
    BY <1>0, <1>2
  <2>2. CASE type = "PRIMARY_INPUT"
    <3>1. Turn("inputs", i) /\ ~ \E k : Turn("outputs", k)
      BY <2>2 DEF Turn
    <3>2. InputMet(n)' /\ (OutputMet(n)' <=> OutputMet(n))
      BY <2>2, <3>1, MetNames
    <3>3. OutputMet(n) => InputMet(n)
      <4>1. CASE builds > 1
        BY <2>2, <4>1 DEF InputMet, Passed
      <4>2. CASE ~ (builds > 1)
        BY <2>2, <4>2, Numbers DEF OutputMet, Passed, Behind
      <4> QED BY <4>1, <4>2
    <3>4. t = "PRIMARY_INPUT"
      BY <2>1, <2>2, <3>3, NameAssumption DEF TypeOf, create_pin, PinTypes, SourceTypes
    <3> QED BY <3>2, <3>4 DEF TypeOf
  <2>3. CASE type = "PRIMARY_OUTPUT"
    <3>1. Turn("outputs", i) /\ ~ \E k : Turn("inputs", k)
      BY <2>3 DEF Turn
    <3>2. OutputMet(n)' /\ (InputMet(n)' <=> InputMet(n))
      BY <2>3, <3>1, MetNames
    <3>3. t = IF InputMet(n) THEN "PRIMARY_INPUT" ELSE "PRIMARY_OUTPUT"
      BY <2>1, <2>3, NameAssumption DEF TypeOf, create_pin, PinTypes, SourceTypes, SinkTypes
    <3> QED BY <3>2, <3>3 DEF TypeOf
  <2> QED BY <2>2, <2>3
<1>4. ASSUME NEW q \in PinIds, q[1] = None, q # p0
      PROVE  TypeOf(q[2])' = TypeOf(q[2])
  <2>1. q[2] # n
    BY <1>4 DEF PinIds
  <2>2. (InputMet(q[2])' <=> InputMet(q[2])) /\ (OutputMet(q[2])' <=> OutputMet(q[2]))
    BY <2>1, MetNames DEF Turn
  <2> QED BY <2>2 DEF TypeOf
<1>5. \A q \in PinIds : q[1] = None => pin_type'[q] = TypeOf(q[2])'
  <2>1. p0[2] = n
    OBVIOUS
  <2> QED BY <1>1, <1>2, <1>3, <1>4, <2>1
<1>6. \A k \in 1 .. Len(design.instances) : Passed("pins", k)' <=> Passed("pins", k)
  <2>1. \A k : ~ Turn("pins", k)
    BY DEF Turn
  <2> QED BY <2>1, PassedNext DEF Loops, Items
<1>7. \A q \in PinIds : q[1] # None =>
       /\ pin_type'[q] # None => \E k \in 1 .. Len(design.instances) : Passed("pins", k)' /\ HasPin(k, q)
       /\ \A k \in 1 .. Len(design.instances) :
            Passed("pins", k)' /\ MakesPin(k, q) => pin_type'[q] = Cell(k).ports[q[2]]
  <2>1. \A q \in PinIds : q[1] # None => pin_type'[q] = pin_type[q]
    BY <1>1
  <2> QED BY <1>0, <1>6, <2>1 DEF PinsRight
<1>8. \A k, q : HasPin(k, q)' = HasPin(k, q) /\ MakesPin(k, q)' = MakesPin(k, q) /\ Cell(k)' = Cell(k)
  BY <1>0, Static
<1> QED BY <1>0, <1>5, <1>7, <1>8 DEF PinsRight, TypeOf

LEMMA InstancePins ==
  ASSUME IInv, [Next]_vars, create_pins
  PROVE  PinsRight'
<1>0. /\ design' = design /\ PinsRight /\ i \in Nat \ {0} /\ builds \in Nat \ {0}
      /\ pin_type \in [PinIds -> PinTypes \cup {None}]
  BY DesignStays DEF IInv, BuildInv, ControlOK, GraphInv, TypeOK
<1>1. /\ phase = "pins" /\ i \in 1 .. Len(design.instances) /\ phase' = "pins" /\ i' = i + 1
      /\ \A p \in PinIds : pin_type'[p] = IF HasPin(i, p) THEN create_pin(p, Cell(i).ports[p[2]])
                                          ELSE pin_type[p]
      /\ Instance(i).name # None
      /\ Cell(i).ports \in [PortsOf(i) -> {"INPUT", "OUTPUT"}]
  BY PinCreated
<1>2. \A k \in 1 .. Len(design.instances) : Passed("pins", k)' <=> Passed("pins", k) \/ k = i
  <2>1. \A k : Turn("pins", k) <=> k = i
    BY <1>1 DEF Turn
  <2> QED BY <2>1, PassedNext DEF Loops, Items
<1>3. \A n : (InputMet(n)' <=> InputMet(n)) /\ (OutputMet(n)' <=> OutputMet(n))
  <2>1. \A k : ~ Turn("inputs", k) /\ ~ Turn("outputs", k)
    BY <1>1 DEF Turn
  <2> QED BY <2>1, MetNames
<1>4. ASSUME NEW p \in PinIds, p[1] = None
      PROVE  pin_type'[p] = TypeOf(p[2])'
  <2>1. pin_type'[p] = pin_type[p]
    BY <1>1, <1>4 DEF HasPin
  <2>2. pin_type[p] = TypeOf(p[2])
    BY <1>0, <1>4 DEF PinsRight, TypeOf
  <2>3. TypeOf(p[2])' = TypeOf(p[2])
    BY <1>3 DEF TypeOf
  <2> QED BY <2>1, <2>2, <2>3
<1>5. ASSUME NEW p \in PinIds, p[1] # None
      PROVE  /\ pin_type'[p] # None => \E k \in 1 .. Len(design.instances) : Passed("pins", k)' /\ HasPin(k, p)
             /\ \A k \in 1 .. Len(design.instances) :
                  Passed("pins", k)' /\ MakesPin(k, p) => pin_type'[p] = Cell(k).ports[p[2]]
  <2>1. /\ pin_type[p] # None => \E k \in 1 .. Len(design.instances) : Passed("pins", k) /\ HasPin(k, p)
        /\ \A k \in 1 .. Len(design.instances) :
             Passed("pins", k) /\ MakesPin(k, p) => pin_type[p] = Cell(k).ports[p[2]]
    BY <1>0, <1>5 DEF PinsRight
  <2>2. pin_type'[p] # None => \E k \in 1 .. Len(design.instances) : Passed("pins", k)' /\ HasPin(k, p)
    BY <1>1, <1>2, <2>1
  <2>3. ASSUME NEW k \in 1 .. Len(design.instances), Passed("pins", k)', MakesPin(k, p)
        PROVE  pin_type'[p] = Cell(k).ports[p[2]]
    <3>0. HasPin(k, p)
      BY <2>3 DEF MakesPin
    <3>1. CASE Passed("pins", k)
      <4>1. pin_type[p] = Cell(k).ports[p[2]]
        BY <2>1, <2>3, <3>1
      <4>2. pin_type[p] # None
        <5>1. Passed("cells", k)
          BY <1>1, <3>1, Numbers DEF Passed, Behind
        <5>2. Instance(k).module \in DOMAIN Library
          BY <5>1 DEF IInv, BuildInv, CellsRight
        <5>3. Cell(k).ports[p[2]] \in {"INPUT", "OUTPUT"}
          BY <3>0, <5>2, CellType DEF HasPin
        <5> QED BY <4>1, <5>3, NameAssumption DEF PinTypes, SourceTypes, SinkTypes
      <4>3. pin_type'[p] = pin_type[p]
        BY <1>1, <4>2 DEF create_pin
      <4> QED BY <4>1, <4>3
    <3>2. CASE ~ Passed("pins", k)
      <4>1. k = i /\ builds = 1
        BY <1>0, <1>2, <2>3, <3>2 DEF Passed
      <4>2. pin_type[p] = None
        <5>1. SUFFICES ASSUME NEW l \in 1 .. Len(design.instances), Passed("pins", l), HasPin(l, p)
                       PROVE  FALSE
          BY <2>1
        <5>2. l < i
          BY <1>0, <1>1, <4>1, <5>1, Numbers DEF Passed, Behind
        <5>3. l \in 1 .. k - 1
          BY <1>0, <4>1, <5>2
        <5> QED BY <2>3, <5>1, <5>3 DEF MakesPin
      <4> QED BY <1>1, <3>0, <4>1, <4>2 DEF create_pin
    <3> QED BY <3>1, <3>2
  <2> QED BY <2>2, <2>3
<1>6. \A k, q : HasPin(k, q)' = HasPin(k, q) /\ MakesPin(k, q)' = MakesPin(k, q) /\ Cell(k)' = Cell(k)
  BY <1>0, Static
<1> QED BY <1>0, <1>4, <1>5, <1>6 DEF PinsRight, TypeOf

\* The two loops of create_primary_io.
LEMMA Primary ==
  ASSUME IInv, create_primary_inputs \/ create_primary_outputs, i' # i
  PROVE  \E type \in {"PRIMARY_INPUT", "PRIMARY_OUTPUT"}, x \in PrimaryPlaces :
           LET n == NetAt(x)
               p == <<None, n>>
               t == create_pin(p, type)
           IN /\ \/ /\ type = "PRIMARY_INPUT" /\ phase = "inputs" /\ i \in 1 .. Len(design.inputs)
                    /\ n = design.inputs[i] /\ x = <<"input", i, None>>
                 \/ /\ type = "PRIMARY_OUTPUT" /\ phase = "outputs" /\ i \in 1 .. Len(design.outputs)
                    /\ n = design.outputs[i] /\ x = <<"output", i, None>>
              /\ n \in Names /\ n \in nets /\ ~ has_source(t, n)
              /\ pin_type' = [pin_type EXCEPT ![p] = t]
              /\ connect_to(p, t, n)
              /\ phase' = phase /\ i' = i + 1 /\ builds' = builds /\ nets' = nets
<1>1. CASE create_primary_inputs
  <2> DEFINE x == <<"input", i, None>>
  <2>1. create_primary("inputs", design.inputs, "PRIMARY_INPUT")
    BY <1>1 DEF create_primary_inputs
  <2>2. LET n == design.inputs[i]
            p == <<None, n>>
            t == create_pin(p, "PRIMARY_INPUT")
        IN /\ phase = "inputs" /\ i \in 1 .. Len(design.inputs)
           /\ n \in nets /\ ~ has_source(t, n)
           /\ pin_type' = [pin_type EXCEPT ![p] = t]
           /\ connect_to(p, t, n)
           /\ phase' = phase /\ i' = i + 1 /\ builds' = builds /\ nets' = nets
    BY <2>1, PrimaryCreated, Halts
  <2>3. x \in PrimaryPlaces /\ NetAt(x) = design.inputs[i] /\ NetAt(x) \in Names
    BY <2>2, ItemTypes DEF PrimaryPlaces, NetAt, IInv, GraphInv
  <2> QED BY <2>2, <2>3
<1>2. CASE create_primary_outputs
  <2> DEFINE x == <<"output", i, None>>
  <2>1. create_primary("outputs", design.outputs, "PRIMARY_OUTPUT")
    BY <1>2 DEF create_primary_outputs
  <2>2. LET n == design.outputs[i]
            p == <<None, n>>
            t == create_pin(p, "PRIMARY_OUTPUT")
        IN /\ phase = "outputs" /\ i \in 1 .. Len(design.outputs)
           /\ n \in nets /\ ~ has_source(t, n)
           /\ pin_type' = [pin_type EXCEPT ![p] = t]
           /\ connect_to(p, t, n)
           /\ phase' = phase /\ i' = i + 1 /\ builds' = builds /\ nets' = nets
    BY <2>1, PrimaryCreated, Halts
  <2>3. x \in PrimaryPlaces /\ NetAt(x) = design.outputs[i] /\ NetAt(x) \in Names
    BY <2>2, ItemTypes DEF PrimaryPlaces, NetAt, IInv, GraphInv
  <2> QED BY <2>2, <2>3
<1> QED BY <1>1, <1>2

LEMMA NextPins == ASSUME IInv, [Next]_vars PROVE PinsRight'
<1>1. CASE create_pins
  BY <1>1, InstancePins
<1>2. CASE (create_primary_inputs \/ create_primary_outputs) /\ i' # i
  BY <1>2, Primary, PrimaryPins
<1>3. CASE ~ create_pins /\ ~ ((create_primary_inputs \/ create_primary_outputs) /\ i' # i)
  <2>0. i \in Nat
    BY DEF IInv, BuildInv, ControlOK
  <2>1. pin_type' = pin_type
    <3>1. CASE create_primary_inputs \/ create_primary_outputs
      <4>1. i' = i
        BY <1>3, <3>1
      <4>2. i' # i + 1
        BY <2>0, <4>1
      <4>3. ASSUME NEW name, NEW list, NEW type, create_primary(name, list, type)
            PROVE  \E e : Stop(e)
        BY <4>2, <4>3, PrimaryCreated
      <4>4. \E e : Stop(e)
        BY <3>1, <4>3 DEF create_primary_inputs, create_primary_outputs
      <4> QED BY <4>4, Halts
    <3> QED BY <1>3, <3>1, Effects
  <2>2. \A k : ~ Turn("inputs", k) /\ ~ Turn("outputs", k) /\ ~ Turn("pins", k)
    <3>1. \A k, l : Turn(l, k) => i' # i
      BY <2>0 DEF Turn
    <3> QED BY <1>3, <3>1, Turns
  <2> QED BY <2>1, <2>2, PinsStay
<1> QED BY <1>1, <1>2, <1>3

-----------------------------------------------------------------------------
\* One turn of the loop over the pins of a cell: refused, or the pin meets its
\* net, or it has none.
LEMMA PinConnected ==
  ASSUME IInv, connect_pin
  PROVE  /\ phase = "connect" /\ i \in 1 .. Len(design.instances)
         /\ \E port \in PortsOf(i) \ done :
              LET x == <<"instance", i, port>>
                  p == PinAt(x)
                  t == pin_type[p]
                  n == NetAt(x)
              IN \/ x \in Places /\ (n \notin nets \/ has_source(t, n)) /\ \E e : Stop(e)
                 \/ /\ done' = done \cup {port} /\ UNCHANGED <<nets, pin_type, phase, i, builds, error>>
                    /\ \/ x \in Places /\ n \in nets /\ ~ has_source(t, n) /\ connect_to(p, t, n)
                       \/ x \notin Places /\ UNCHANGED <<source, sinks>>
<1>0. TypeOK
  BY DEF IInv, GraphInv
<1>1. phase = "connect" /\ i \in 1 .. Len(cells)
  BY DEF connect_pin, AtItem
<1>2. /\ i \in 1 .. Len(design.instances)
      /\ cells[i].name = Instance(i).name /\ get_ports(cells[i]) = PortsOf(i) /\ PortsOf(i) \subseteq Ports
      /\ cells[i].port_mapping = port_mapping(Instance(i).port_list)
  BY <1>1, ThisInstance
<1>3. PICK port \in get_ports(cells[i]) \ done :
        LET p == <<cells[i].name, port>>
            t == pin_type[p]
            n == cells[i].port_mapping[port]
        IN \/ n # None /\ (n \notin nets \/ has_source(t, n)) /\ \E e : Stop(e)
           \/ /\ done' = done \cup {port} /\ UNCHANGED <<nets, pin_type, phase, i, builds, error>>
              /\ \/ n # None /\ n \in nets /\ ~ has_source(t, n) /\ connect_to(p, t, n)
                 \/ n = None /\ UNCHANGED <<source, sinks>>
  BY Zenon DEF connect_pin, pin_name
<1> DEFINE x == <<"instance", i, port>>
<1>4. /\ PinAt(x) = <<cells[i].name, port>>
      /\ x \in Places <=> cells[i].port_mapping[port] # None
      /\ x \in Places => NetAt(x) = cells[i].port_mapping[port]
  <2>1. PinAt(x) = <<cells[i].name, port>>
    BY <1>2 DEF PinAt
  <2>2. x \in Places <=> cells[i].port_mapping[port] # None
    BY <1>0, <1>2, PlacesThere
  <2>3. x \in Places => NetAt(x) = cells[i].port_mapping[port]
    BY <1>0, <1>2, PlaceShape
  <2> QED BY <2>1, <2>2, <2>3
<1> HIDE DEF x
<1>5. LET p == PinAt(x)
          t == pin_type[p]
          n == NetAt(x)
      IN \/ x \in Places /\ (n \notin nets \/ has_source(t, n)) /\ \E e : Stop(e)
         \/ /\ done' = done \cup {port} /\ UNCHANGED <<nets, pin_type, phase, i, builds, error>>
            /\ \/ x \in Places /\ n \in nets /\ ~ has_source(t, n) /\ connect_to(p, t, n)
               \/ x \notin Places /\ UNCHANGED <<source, sinks>>
  BY <1>3, <1>4
<1>6. port \in PortsOf(i) \ done
  BY <1>2
<1> QED BY <1>1, <1>2, <1>5, <1>6 DEF x

LEMMA AtConnect ==
  ASSUME IInv, [Next]_vars, phase = "connect"
  PROVE  connected_cell \/ connect_pin \/ next_loop \/ UNCHANGED vars
<1>1. ~ (create_nets \/ create_cells \/ create_pins \/ created_arcs \/ create_cell_arc \/ create_wires)
  BY DEF create_nets, create_cells, create_pins, created_arcs, create_cell_arc, create_wires, AtItem
<1>2. ~ (create_primary_inputs \/ create_primary_outputs \/ process_assignment)
  BY DEF create_primary_inputs, create_primary_outputs, create_primary, process_assignment, AtItem
<1>3. ~ (deduce_clock \/ call_deduce_clock \/ build_again)
  BY DEF deduce_clock, call_deduce_clock, build_again, AtItem, Resting
<1> QED BY <1>1, <1>2, <1>3 DEF Next, Step

\* The step meets place x.
Meets(x) == CASE x[1] = "input"  -> Turn("inputs", x[2])
              [] x[1] = "output" -> Turn("outputs", x[2])
              [] OTHER           -> /\ phase = "connect" /\ phase' = "connect" /\ i' = i
                                    /\ x[2] = i /\ x[3] \in done' \ done

LEMMA MetNext ==
  ASSUME IInv, [Next]_vars, NEW x \in Places
  PROVE  \/ builds' = builds /\ (MetNow(x)' <=> MetNow(x) \/ Meets(x))
         \/ builds' = builds + 1 /\ ~ MetNow(x)' /\ ~ Meets(x) /\ MetNow(x)
<1>0. TypeOK /\ i \in Nat \ {0} /\ builds \in Nat \ {0} /\ phase \in Phases
  BY DEF IInv, GraphInv, BuildInv, ControlOK
<1>1. CASE x[1] = "input"
  <2>1. x[2] \in 1 .. Items("inputs")
    BY <1>0, <1>1, PlaceShape DEF Items
  <2> QED BY <1>1, <2>1, BehindNext DEF MetNow, Meets, Loops
<1>2. CASE x[1] = "output"
  <2>1. x[2] \in 1 .. Items("outputs")
    BY <1>0, <1>2, PlaceShape DEF Items
  <2> QED BY <1>2, <2>1, BehindNext DEF MetNow, Meets, Loops
<1>3. CASE x[1] # "input" /\ x[1] # "output"
  <2> DEFINE k == x[2]
             q == x[3]
             In == phase = "connect" /\ k = i /\ q \in done
             Meet == /\ phase = "connect" /\ phase' = "connect" /\ i' = i
                     /\ k = i /\ q \in done' \ done
  <2>1. k \in 1 .. Len(design.instances) /\ q \in PortsOf(k)
    BY <1>0, <1>3, PlaceShape
  <2>2. /\ MetNow(x) <=> Behind("connect", k) \/ In
        /\ MetNow(x)' <=> Behind("connect", k)' \/ In'
        /\ Meets(x) <=> Meet
    BY <1>3 DEF MetNow, Meets
  <2>3. \/ builds' = builds /\ (Behind("connect", k)' <=> Behind("connect", k) \/ Turn("connect", k))
        \/ /\ builds' = builds + 1 /\ ~ Behind("connect", k)' /\ ~ Turn("connect", k)
           /\ phase \in Resting /\ Behind("connect", k)
    BY <2>1, BehindNext DEF Loops, Items
  <2> HIDE DEF k, q
  <2>4. CASE connected_cell
    <3>1. /\ phase = "connect" /\ phase' = "connect" /\ i' = i + 1 /\ done' = {}
          /\ done = get_ports(cells[i]) /\ i \in 1 .. Len(cells) /\ builds' = builds
      BY <2>4 DEF connected_cell, AtItem, NextItem
    <3>2. done = PortsOf(i)
      BY <3>1, ThisInstance
    <3>3. Turn("connect", k) <=> k = i
      BY <3>1 DEF Turn
    <3>4. k = i => In
      BY <2>1, <3>1, <3>2
    <3>5. ~ In' /\ ~ Meet
      BY <1>0, <3>1
    <3> QED BY <1>0, <2>2, <2>3, <3>1, <3>3, <3>4, <3>5
  <2>5. CASE connect_pin
    <3>1. /\ phase = "connect" /\ phase' = "connect" /\ i' = i /\ builds' = builds
          /\ done \subseteq done'
      BY <2>5, PinConnected, Halts
    <3>2. ~ Turn("connect", k)
      BY <1>0, <3>1 DEF Turn
    <3>3. In' <=> In \/ Meet
      BY <3>1
    <3> QED BY <1>0, <2>2, <2>3, <3>1, <3>2, <3>3
  <2>6. CASE next_loop
    <3>1. phase' # phase /\ done' = {} /\ builds' = builds
      BY <2>6, HandsOn, Numbers, <1>0 DEF next_loop
    <3>2. ~ In' /\ ~ Meet /\ ~ Turn("connect", k)
      BY <3>1 DEF Turn
    <3>3. ~ In
      <4>1. phase = "connect" => i > Len(design.instances)
        BY <2>6, HandsOn DEF Loops, Items
      <4> QED BY <1>0, <2>1, <4>1
    <3> QED BY <1>0, <2>2, <2>3, <3>1, <3>2, <3>3
  <2>7. CASE ~ connected_cell /\ ~ connect_pin /\ ~ next_loop
    <3>0. phase' = "connect" => phase = "connect"
      BY <2>7, PhaseNext DEF build_again
    <3>1. phase = "connect" => UNCHANGED <<phase, i, done>>
      BY <2>7, AtConnect DEF vars, control
    <3>2. (In' <=> In) /\ ~ Meet
      BY <3>0, <3>1
    <3>3. ~ Turn("connect", k)
      BY <2>7, Turns
    <3>4. phase \in Resting => ~ In
      BY DEF Resting
    <3> QED BY <1>0, <2>2, <2>3, <3>2, <3>3, <3>4
  <2> QED BY <2>4, <2>5, <2>6, <2>7
<1> QED BY <1>1, <1>2, <1>3

\* The step connects the pin at place x to its net.
Connects(x) ==
  LET p == PinAt(x)
      t == pin_type'[p]
      n == NetAt(x)
  IN /\ n \in nets /\ nets' = nets /\ builds' = builds /\ phase' = phase
     /\ ~ has_source(t, n) /\ connect_to(p, t, n)
     /\ t \in SourceTypes <=> Drives(x)
     /\ t \in PinTypes
     /\ \A y \in Places : Meets(y) <=> y = x

LEMMA PrimaryConnects ==
  ASSUME IInv, [Next]_vars, create_primary_inputs \/ create_primary_outputs, i' # i
  PROVE  \E x \in Places : Connects(x)
<1>0. /\ TypeOK /\ PinsRight' /\ design' = design
  BY NextPins, DesignStays DEF IInv, GraphInv
<1>1. PICK type \in {"PRIMARY_INPUT", "PRIMARY_OUTPUT"}, x \in PrimaryPlaces :
           LET n == NetAt(x)
               p == <<None, n>>
               t == create_pin(p, type)
           IN /\ \/ /\ type = "PRIMARY_INPUT" /\ phase = "inputs" /\ i \in 1 .. Len(design.inputs)
                    /\ n = design.inputs[i] /\ x = <<"input", i, None>>
                 \/ /\ type = "PRIMARY_OUTPUT" /\ phase = "outputs" /\ i \in 1 .. Len(design.outputs)
                    /\ n = design.outputs[i] /\ x = <<"output", i, None>>
              /\ n \in Names /\ n \in nets /\ ~ has_source(t, n)
              /\ pin_type' = [pin_type EXCEPT ![p] = t]
              /\ connect_to(p, t, n)
              /\ phase' = phase /\ i' = i + 1 /\ builds' = builds /\ nets' = nets
  BY Primary
<1>7. PICK n \in Names : n = NetAt(x)
  BY <1>1
<1> DEFINE p == <<None, n>>
           t == create_pin(p, type)
<1>2. x \in Places /\ PinAt(x) = p /\ p \in PinIds
  <2>1. x \in Places
    BY DEF Places
  <2> QED BY <1>0, <1>1, <1>7, <2>1, PlaceShape DEF PinIds
<1>3. t = pin_type'[p]
  BY <1>0, <1>1, <1>2, <1>7 DEF TypeOK
<1>4. pin_type'[p] = IF InputMet(n)' THEN "PRIMARY_INPUT"
                     ELSE IF OutputMet(n)' THEN "PRIMARY_OUTPUT" ELSE None
  <2>1. p[1] = None /\ p[2] = n
    OBVIOUS
  <2> HIDE DEF p
  <2> QED BY <1>0, <1>2, <2>1 DEF PinsRight
<1>5. CASE type = "PRIMARY_INPUT"
  <2>1. phase = "inputs" /\ n = design.inputs[i] /\ x = <<"input", i, None>> /\ i \in 1 .. Len(design.inputs)
        /\ phase' = phase /\ i' = i + 1
    BY <1>1, <1>5, <1>7
  <2>2. Turn("inputs", i)
    BY <2>1 DEF Turn
  <2>3. InputMet(n)'
    BY <2>1, <2>2, MetNames
  <2>4. t = "PRIMARY_INPUT"
    BY <1>3, <1>4, <2>3
  <2>5. Drives(x)
    BY <1>0, <1>2, <1>7, <2>1, PlaceShape
  <2>6. ASSUME NEW y \in Places PROVE Meets(y) <=> y = x
    <3>1. y[1] = "input" => y = <<"input", y[2], None>>
      BY <1>0, PlaceShape
    <3>2. Meets(y) <=> y[1] = "input" /\ y[2] = i
      BY <2>1 DEF Meets, Turn
    <3> QED BY <2>1, <3>1, <3>2
  <2>7. t \in SourceTypes /\ t \in PinTypes
    BY <2>4 DEF SourceTypes, PinTypes
  <2> QED BY <1>1, <1>2, <1>3, <1>7, <2>5, <2>6, <2>7 DEF Connects
<1>6. CASE type = "PRIMARY_OUTPUT"
  <2>1. phase = "outputs" /\ n = design.outputs[i] /\ x = <<"output", i, None>> /\ i \in 1 .. Len(design.outputs)
        /\ phase' = phase /\ i' = i + 1
    BY <1>1, <1>6, <1>7
  <2>2. Turn("outputs", i) /\ \A k : ~ Turn("inputs", k)
    BY <2>1 DEF Turn
  <2>3. OutputMet(n)' /\ (InputMet(n)' <=> InputMet(n))
    BY <2>1, <2>2, MetNames
  <2>4. Drives(x) <=> \E k \in 1 .. Len(design.inputs) : design.inputs[k] = n
    BY <1>0, <1>2, <1>7, <2>1, PlaceShape
  <2>5. InputMet(n) <=> Drives(x)
    BY <2>1, <2>4, Numbers DEF InputMet, Passed, Behind
  <2>6. ASSUME NEW y \in Places PROVE Meets(y) <=> y = x
    <3>1. y[1] = "output" => y = <<"output", y[2], None>>
      BY <1>0, PlaceShape
    <3>2. Meets(y) <=> y[1] = "output" /\ y[2] = i
      BY <2>1 DEF Meets, Turn
    <3> QED BY <2>1, <3>1, <3>2
  <2>7. t = IF Drives(x) THEN "PRIMARY_INPUT" ELSE "PRIMARY_OUTPUT"
    BY <1>3, <1>4, <2>3, <2>5
  <2>8. (t \in SourceTypes <=> Drives(x)) /\ t \in PinTypes
    BY <2>7 DEF SourceTypes, SinkTypes, PinTypes
  <2> QED BY <1>1, <1>2, <1>3, <1>7, <2>6, <2>8 DEF Connects
<1> QED BY <1>5, <1>6

\* A pin of an instance has the type its port has in the cell that made it.
LEMMA PinOfInstance ==
  ASSUME IInv, NEW x \in Places, x[1] = "instance", LoopNo[phase] >= 6
  PROVE  /\ pin_type[PinAt(x)] \in {"INPUT", "OUTPUT"}
         /\ pin_type[PinAt(x)] = "OUTPUT" <=> Drives(x)
<1> DEFINE p == PinAt(x)
<1>0. /\ PinsRight /\ TypeOK /\ CellsRight
  BY DEF IInv, GraphInv, BuildInv
<1>1. /\ x[2] \in 1 .. Len(design.instances) /\ x[3] \in PortsOf(x[2])
      /\ p = <<Instance(x[2]).name, x[3]>> /\ p \in PinIds
      /\ (Drives(x) <=> \E k \in 1 .. Len(design.instances) :
                          MakesPin(k, p) /\ Cell(k).ports[x[3]] = "OUTPUT")
  BY <1>0, PlaceShape
<1>2. p[1] = Instance(x[2]).name /\ p[2] = x[3] /\ HasPin(x[2], p)
  BY <1>1 DEF HasPin
<1>3. p[1] # None
  BY <1>0, <1>1, <1>2, ItemTypes, NameAssumption
<1> HIDE DEF p
<1>4. PICK l \in 1 .. x[2] : MakesPin(l, p) /\ \A h \in Nat \ {0} : MakesPin(h, p) => h = l
  BY <1>1, <1>2, MadeOnce
<1>5. l \in 1 .. Len(design.instances) /\ l \in Nat \ {0}
  BY <1>0, <1>1, <1>4, DesignType
<1>6. Passed("pins", l) /\ Passed("cells", l)
  <2>1. LoopNo[phase] \in Int
    BY Numbers DEF IInv, BuildInv, ControlOK, Phases
  <2> QED BY <2>1, Numbers DEF Passed, Behind
<1>7. pin_type[p] = Cell(l).ports[x[3]]
  BY <1>0, <1>1, <1>2, <1>3, <1>4, <1>5, <1>6 DEF PinsRight
<1>8. HasPin(l, p) /\ Instance(l).module \in DOMAIN Library
  BY <1>0, <1>4, <1>5, <1>6 DEF MakesPin, CellsRight
<1>9. pin_type[p] \in {"INPUT", "OUTPUT"}
  BY <1>2, <1>7, <1>8, CellType DEF HasPin
<1>10. \A k \in 1 .. Len(design.instances) : k \in Nat \ {0}
  BY <1>0, DesignType
<1>11. pin_type[p] = "OUTPUT" <=> Drives(x)
  BY <1>1, <1>4, <1>5, <1>7, <1>10
<1> QED BY <1>9, <1>11 DEF p

LEMMA WhoConnects ==
  ASSUME IInv, [Next]_vars
  PROVE  \/ \E x \in Places : Connects(x)
         \/ /\ \A y \in Places : ~ Meets(y)
            /\ \/ UNCHANGED <<source, sinks>>
               \/ process_assignment /\ i' # i
<1>0. TypeOK /\ i \in Nat \ {0}
  BY DEF IInv, GraphInv, BuildInv, ControlOK
<1>1. CASE (create_primary_inputs \/ create_primary_outputs) /\ i' # i
  BY <1>1, PrimaryConnects
<1>2. CASE connect_pin
  <2>1. PICK port \in PortsOf(i) \ done :
              LET x == <<"instance", i, port>>
                  p == PinAt(x)
                  t == pin_type[p]
                  n == NetAt(x)
              IN \/ x \in Places /\ (n \notin nets \/ has_source(t, n)) /\ \E e : Stop(e)
                 \/ /\ done' = done \cup {port} /\ UNCHANGED <<nets, pin_type, phase, i, builds>>
                    /\ \/ x \in Places /\ n \in nets /\ ~ has_source(t, n) /\ connect_to(p, t, n)
                       \/ x \notin Places /\ UNCHANGED <<source, sinks>>
    BY <1>2, PinConnected
  <2> DEFINE x == <<"instance", i, port>>
             p == PinAt(x)
             n == NetAt(x)
  <2>2. phase = "connect"
    BY <1>2, PinConnected
  <2>3. CASE \E e : Stop(e)
    <3>1. UNCHANGED <<source, sinks, i, done>>
      BY <2>3, Halts
    <3> QED BY <1>0, <3>1 DEF Meets, Turn
  <2>4. CASE /\ done' = done \cup {port} /\ UNCHANGED <<nets, pin_type, phase, i, builds>>
             /\ \/ x \in Places /\ n \in nets /\ ~ has_source(pin_type[p], n) /\ connect_to(p, pin_type[p], n)
                \/ x \notin Places /\ UNCHANGED <<source, sinks>>
    <3>1. ASSUME NEW y \in Places PROVE Meets(y) <=> y = x
      <4>1. Meets(y) <=> /\ y[1] # "input" /\ y[1] # "output" /\ y[2] = i /\ y[3] = port
        BY <1>0, <2>1, <2>2, <2>4 DEF Meets, Turn
      <4>2. y[1] # "input" /\ y[1] # "output" => y = <<"instance", y[2], y[3]>>
        BY <1>0, PlaceShape
      <4> QED BY <4>1, <4>2
    <3>2. CASE x \notin Places
      <4>1. UNCHANGED <<source, sinks>>
        BY <2>4, <3>2
      <4> QED BY <3>1, <3>2, <4>1
    <3>3. CASE x \in Places
      <4>1. x[1] = "instance"
        OBVIOUS
      <4> HIDE DEF x
      <4>2. pin_type[p] \in {"INPUT", "OUTPUT"} /\ (pin_type[p] = "OUTPUT" <=> Drives(x))
        BY <2>2, <3>3, <4>1, PinOfInstance, Numbers
      <4>3. (pin_type[p] \in SourceTypes <=> Drives(x)) /\ pin_type[p] \in PinTypes
        BY <4>2 DEF SourceTypes, SinkTypes, PinTypes
      <4>4. pin_type'[p] = pin_type[p]
        BY <2>4
      <4>5. /\ n \in nets /\ ~ has_source(pin_type[p], n) /\ connect_to(p, pin_type[p], n)
            /\ UNCHANGED <<nets, builds, phase>>
        BY <2>4, <3>3
      <4> HIDE DEF p, n
      <4>6. Connects(x)
        BY <3>1, <4>3, <4>4, <4>5 DEF Connects, p, n
      <4> QED BY <3>3, <4>6
    <3> QED BY <3>2, <3>3
  <2> QED BY <2>1, <2>3, <2>4
<1>3. CASE process_assignment
  <2>1. phase = "assigns"
    BY <1>3 DEF process_assignment, AtItem
  <2>2. \A y \in Places : ~ Meets(y)
    BY <2>1 DEF Meets, Turn
  <2>3. i' # i \/ \E e : Stop(e)
    <3>1. i' = i + 1 \/ \E e : Stop(e)
      BY <1>3, Zenon DEF process_assignment, NextItem
    <3> QED BY <1>0, <3>1
  <2> QED BY <1>3, <2>2, <2>3, Halts
<1>4. CASE /\ ~ ((create_primary_inputs \/ create_primary_outputs) /\ i' # i)
           /\ ~ connect_pin /\ ~ process_assignment
  <2>1. UNCHANGED <<source, sinks>>
    <3>1. CASE create_primary_inputs \/ create_primary_outputs
      <4>1. i' # i + 1
        BY <1>0, <1>4, <3>1
      <4>2. ASSUME NEW name, NEW list, NEW type, create_primary(name, list, type)
            PROVE  \E e : Stop(e)
        BY <4>1, <4>2, PrimaryCreated
      <4>3. \E e : Stop(e)
        BY <3>1, <4>2 DEF create_primary_inputs, create_primary_outputs
      <4> QED BY <4>3, Halts
    <3> QED BY <1>4, <3>1, Effects
  <2>2. ASSUME NEW y \in Places, Meets(y) PROVE FALSE
    <3>1. CASE y[1] = "input"
      BY <1>0, <1>4, <2>2, <3>1, Turns DEF Meets, Turn
    <3>2. CASE y[1] = "output"
      BY <1>0, <1>4, <2>2, <3>2, Turns DEF Meets, Turn
    <3>3. CASE y[1] # "input" /\ y[1] # "output"
      <4>1. phase = "connect" /\ phase' = "connect" /\ i' = i /\ done' # done
        BY <2>2, <3>3 DEF Meets
      <4>2. CASE connected_cell
        BY <1>0, <4>1, <4>2 DEF connected_cell, NextItem
      <4>3. CASE next_loop
        <5>1. phase' # phase
          BY <4>3, HandsOn, Numbers
        <5> QED BY <4>1, <5>1
      <4>4. CASE UNCHANGED vars
        BY <4>1, <4>4 DEF vars, control
      <4> QED BY <1>4, <4>1, <4>2, <4>3, <4>4, AtConnect
    <3> QED BY <3>1, <3>2, <3>3
  <2> QED BY <2>1, <2>2
<1> QED BY <1>1, <1>2, <1>3, <1>4

-----------------------------------------------------------------------------
\* What a step does to the places met.
LEMMA MetStep ==
  ASSUME IInv, [Next]_vars
  PROVE  /\ \A x \in Places : Met(x)' <=> Met(x) \/ Meets(x)
         /\ \A n \in nets : n \in nets'
<1>0. builds \in Nat \ {0}
  BY DEF IInv, BuildInv, ControlOK
<1>1. \A x \in Places : Met(x)' <=> Met(x) \/ Meets(x)
  BY <1>0, MetNext DEF Met
<1>2. \A n \in nets : n \in nets'
  BY Effects DEF create_nets
<1> QED BY <1>1, <1>2

\* Where a pin drives, the net had no driver, and this is not a second build.
LEMMA NewDriver ==
  ASSUME IInv, [Next]_vars, NEW x \in Places, Connects(x), Drives(x)
  PROVE  /\ builds = 1 /\ source[NetAt(x)] = None
         /\ source' = [source EXCEPT ![NetAt(x)] = PinAt(x)]
<1>0. TypeOK /\ DriversMet /\ builds \in Nat \ {0}
  BY DEF IInv, GraphInv, BuildInv, ControlOK
<1>1. source[NetAt(x)] = None /\ source' = [source EXCEPT ![NetAt(x)] = PinAt(x)]
  BY DEF Connects, has_source, connect_to
<1>2. PinAt(x) # None
  BY <1>0, PlaceShape
<1>3. ~ (builds > 1)
  BY <1>0, <1>1, <1>2 DEF DriversMet, Met
<1> QED BY <1>0, <1>1, <1>3

LEMMA NoNewDriver ==
  ASSUME NEW x, Connects(x), ~ Drives(x)
  PROVE  source' = source
BY DEF Connects, connect_to

LEMMA NextDrivers == ASSUME IInv, [Next]_vars PROVE DriversMet'
<1>0. /\ TypeOK /\ DriversMet /\ design' = design /\ builds \in Nat \ {0} /\ Kept
  BY DesignStays, StepGraph DEF IInv, GraphInv, BuildInv, ControlOK
<1>1. /\ Places' = Places
      /\ \A x : NetAt(x)' = NetAt(x) /\ PinAt(x)' = PinAt(x) /\ Drives(x)' = Drives(x)
  BY <1>0, Static
<1>2. \A x \in Places : /\ NetAt(x) \in Names /\ PinAt(x) \in PinIds /\ PinAt(x) # None
                        /\ Met(x)' <=> Met(x) \/ Meets(x)
  BY <1>0, PlaceShape, MetStep
<1>3. source \in [Names -> PinIds \cup {None}]
  BY <1>0 DEF TypeOK
<1>4. ASSUME NEW x \in Places, Met(x)' PROVE NetAt(x) \in nets'
  <2>1. CASE Met(x)
    BY <1>0, <2>1, MetStep DEF DriversMet
  <2>2. CASE Meets(x)
    <3>1. Connects(x)
      BY <2>2, WhoConnects DEF Connects
    <3> QED BY <3>1 DEF Connects
  <2> QED BY <1>2, <1>4, <2>1, <2>2
<1>5. ASSUME NEW x \in Places, Met(x)', Drives(x) PROVE source'[NetAt(x)] = PinAt(x)
  <2>1. CASE Met(x)
    <3>1. source[NetAt(x)] = PinAt(x)
      BY <1>0, <1>5, <2>1 DEF DriversMet
    <3> QED BY <1>0, <1>2, <3>1 DEF Kept
  <2>2. CASE Meets(x)
    <3>1. Connects(x)
      BY <2>2, WhoConnects DEF Connects
    <3>2. source' = [source EXCEPT ![NetAt(x)] = PinAt(x)]
      BY <1>5, <3>1, NewDriver
    <3> QED BY <1>2, <1>3, <3>2
  <2> QED BY <1>2, <1>5, <2>1, <2>2
<1>6. ASSUME NEW x \in Places, NEW y \in Places, Met(x), Meets(y), Drives(x), Drives(y)
      PROVE  NetAt(x) # NetAt(y)
  <2>1. Connects(y)
    BY <1>6, WhoConnects DEF Connects
  <2>2. source[NetAt(y)] = None
    BY <1>6, <2>1, NewDriver
  <2>3. source[NetAt(x)] = PinAt(x)
    BY <1>0, <1>6 DEF DriversMet
  <2> QED BY <1>2, <2>2, <2>3
<1>7. ASSUME NEW x \in Places, NEW y \in Places, Met(x)', Met(y)', Drives(x), Drives(y), NetAt(x) = NetAt(y)
      PROVE  x = y
  <2>1. CASE Met(x) /\ Met(y)
    BY <1>0, <1>7, <2>1 DEF DriversMet
  <2>2. CASE Meets(x) /\ Meets(y)
    BY <2>2, WhoConnects DEF Connects
  <2> QED BY <1>2, <1>6, <1>7, <2>1, <2>2
<1>8. ASSUME builds' > 1, NEW x \in Places, MetNow(x)' PROVE ~ Drives(x)
  <2>1. builds' = builds /\ (MetNow(x) \/ Meets(x))
    BY <1>8, MetNext
  <2>2. CASE MetNow(x)
    BY <1>0, <1>8, <2>1, <2>2 DEF DriversMet
  <2>3. CASE Meets(x)
    <3>1. Connects(x)
      BY <2>3, WhoConnects DEF Connects
    <3> QED BY <1>8, <2>1, <3>1, NewDriver
  <2> QED BY <2>1, <2>2, <2>3
<1> QED BY <1>1, <1>4, <1>5, <1>7, <1>8 DEF DriversMet

\* One turn of the loop over the assignments.
LEMMA AssignmentDone ==
  ASSUME process_assignment
  PROVE  LET lhs == design.assignments[i].lhs
             rhs == design.assignments[i].rhs
         IN /\ phase = "assigns" /\ i \in 1 .. Len(design.assignments)
            /\ \/ /\ ~ {lhs, rhs} \subseteq nets \/ source[rhs] = None \/ source[lhs] # None
                  /\ \E e : Stop(e)
               \/ /\ {lhs, rhs} \subseteq nets /\ source[rhs] # None /\ source[lhs] = None
                  /\ source' = [source EXCEPT ![lhs] = source[rhs]]
                  /\ nets' = nets /\ builds' = builds /\ phase' = phase /\ i' = i + 1 /\ error' = error
BY Zenon DEF process_assignment, AtItem, NextItem

LEMMA NextSources == ASSUME IInv, [Next]_vars PROVE SourcesMet'
<1>0. /\ TypeOK /\ SourcesMet /\ design' = design /\ i \in Nat \ {0}
      /\ source \in [Names -> PinIds \cup {None}]
  BY DesignStays DEF IInv, GraphInv, BuildInv, ControlOK, TypeOK
<1>1. /\ Places' = Places
      /\ \A x : NetAt(x)' = NetAt(x) /\ PinAt(x)' = PinAt(x) /\ Drives(x)' = Drives(x)
  BY <1>0, Static
<1>2. /\ \A x \in Places : NetAt(x) \in Names /\ (Met(x) => Met(x)')
      /\ \A k \in 1 .. Len(design.assignments) : Passed("assigns", k)' <=> Passed("assigns", k) \/ Turn("assigns", k)
  BY <1>0, PlaceShape, MetStep, PassedNext DEF Loops, Items
<1> DEFINE Cause(n) == \E x \in Places :
                         /\ Met(x)' /\ Drives(x)
                         /\ \/ NetAt(x) = n
                            \/ \E k \in 1 .. Len(design.assignments) :
                                 Passed("assigns", k)' /\ design.assignments[k].lhs = n
<1>3. ASSUME NEW n \in Names, source[n] # None PROVE Cause(n)
  BY <1>0, <1>2, <1>3 DEF SourcesMet
<1>4. ASSUME NEW n \in Names, source'[n] # None PROVE Cause(n)
  <2>1. CASE source' = source
    BY <1>3, <1>4, <2>1
  <2>2. ASSUME NEW x \in Places, Connects(x) PROVE Cause(n)
    <3>1. CASE Drives(x)
      <4>1. source' = [source EXCEPT ![NetAt(x)] = PinAt(x)]
        BY <2>2, <3>1, NewDriver
      <4>2. CASE n = NetAt(x)
        <5>1. Met(x)'
          BY <2>2, MetStep DEF Connects
        <5> QED BY <3>1, <4>2, <5>1
      <4>3. CASE n # NetAt(x)
        <5>1. source'[n] = source[n]
          BY <1>0, <4>1, <4>3
        <5> QED BY <1>3, <1>4, <5>1
      <4> QED BY <4>2, <4>3
    <3>2. CASE ~ Drives(x)
      BY <2>1, <2>2, <3>2, NoNewDriver
    <3> QED BY <3>1, <3>2
  <2>3. CASE process_assignment /\ i' # i
    <3> DEFINE lhs == design.assignments[i].lhs
               rhs == design.assignments[i].rhs
    <3>0. ~ \E e : Stop(e)
      BY <2>3, Halts
    <3>1. /\ i \in 1 .. Len(design.assignments) /\ Turn("assigns", i)
          /\ source[rhs] # None /\ source' = [source EXCEPT ![lhs] = source[rhs]]
      BY <2>3, <3>0, AssignmentDone DEF Turn
    <3>2. rhs \in Names /\ lhs \in Names
      <4>1. \A k \in 1 .. Len(design.assignments) :
              design.assignments[k].lhs \in Names /\ design.assignments[k].rhs \in Names
        BY <1>0, ItemTypes
      <4> QED BY <3>1, <4>1
    <3>3. PICK k \in 1 .. Len(design.assignments) : k = i
      BY <3>1
    <3>4. CASE n = lhs
      <4>1. PICK x \in Places : Met(x)' /\ Drives(x)
        BY <1>3, <3>1, <3>2
      <4>2. Passed("assigns", k)' /\ design.assignments[k].lhs = n
        BY <1>2, <3>1, <3>3, <3>4
      <4> QED BY <4>1, <4>2
    <3>5. CASE n # lhs
      <4>1. source'[n] = source[n]
        BY <1>0, <3>1, <3>2, <3>5
      <4> QED BY <1>3, <1>4, <4>1
    <3> QED BY <3>4, <3>5
  <2> QED BY <2>1, <2>2, <2>3, WhoConnects
<1> QED BY <1>0, <1>1, <1>4 DEF SourcesMet

\* After the cells are connected all places are met.
LEMMA AllMet ==
  ASSUME IInv, LoopNo[phase] > 6
  PROVE  \A x \in Places : MetNow(x) /\ Met(x)
<1>1. LoopNo[phase] \in Int /\ TypeOK
  BY Numbers DEF IInv, GraphInv, BuildInv, ControlOK, Phases
<1> SUFFICES ASSUME NEW x \in Places PROVE MetNow(x)
  BY DEF Met
<1>2. Behind("inputs", x[2]) /\ Behind("outputs", x[2]) /\ Behind("connect", x[2])
  BY <1>1, Numbers DEF Behind
<1> QED BY <1>2 DEF MetNow

\* When its turn comes an assignment finds a source on the nets that are
\* driven, by a pin or by an assignment before it, and on no other.
LEMMA SourceTells ==
  ASSUME IInv, phase = "assigns", builds = 1, NEW k \in 1 .. Len(design.assignments), k = i,
         NEW n \in Names
  PROVE  source[n] # None <=> DrivenBefore(n, k)
<1>0. /\ TypeOK /\ SourcesMet /\ DriversMet /\ AssignsMet /\ Len(design.assignments) \in Nat
      /\ \A x \in Places : Met(x) /\ PinAt(x) # None
  BY DesignType, AllMet, PlaceShape, Numbers DEF IInv, GraphInv, BuildInv
<1>1. \A l \in 1 .. Len(design.assignments) : Passed("assigns", l) <=> l \in 1 .. k - 1
  BY <1>0, Numbers DEF Passed, Behind
<1>2. ASSUME source[n] # None PROVE DrivenBefore(n, k)
  <2>1. PICK x \in Places :
           /\ Drives(x)
           /\ \/ NetAt(x) = n
              \/ \E l \in 1 .. Len(design.assignments) :
                   Passed("assigns", l) /\ design.assignments[l].lhs = n
    BY <1>0, <1>2 DEF SourcesMet
  <2>2. CASE NetAt(x) = n
    BY <2>1, <2>2 DEF DrivenBefore, Drivers
  <2>3. CASE \E l \in 1 .. Len(design.assignments) :
               Passed("assigns", l) /\ design.assignments[l].lhs = n
    BY <1>1, <2>3 DEF DrivenBefore, Assigned
  <2> QED BY <2>1, <2>2, <2>3
<1>3. ASSUME DrivenBefore(n, k) PROVE source[n] # None
  <2>1. CASE Drivers(n) # {}
    BY <1>0, <2>1 DEF Drivers, DriversMet
  <2>2. CASE Assigned(n, k)
    <3>1. PICK l \in 1 .. k - 1 : design.assignments[l].lhs = n
      BY <2>2 DEF Assigned
    <3>2. l \in 1 .. Len(design.assignments)
      BY <1>0, <3>1
    <3> QED BY <1>0, <1>1, <3>1, <3>2 DEF AssignsMet
  <2> QED BY <1>3, <2>1, <2>2 DEF DrivenBefore
<1> QED BY <1>2, <1>3

LEMMA NextAssigns == ASSUME IInv, [Next]_vars PROVE AssignsMet'
<1>0. /\ TypeOK /\ AssignsMet /\ design' = design /\ Kept /\ i \in Nat \ {0} /\ builds \in Nat \ {0}
      /\ source \in [Names -> PinIds \cup {None}] /\ nets \subseteq nets'
      /\ \A k \in 1 .. Len(design.assignments) :
           design.assignments[k].lhs \in Names /\ design.assignments[k].rhs \in Names
  BY DesignStays, StepGraph, MetStep, ItemTypes DEF IInv, GraphInv, BuildInv, ControlOK, TypeOK
<1>1. \A n, k : DrivenBefore(n, k)' = DrivenBefore(n, k)
  BY <1>0, Static
<1>2. ASSUME NEW k \in 1 .. Len(design.assignments), Passed("assigns", k)'
      PROVE  LET lhs == design.assignments[k].lhs
                 rhs == design.assignments[k].rhs
             IN /\ {lhs, rhs} \subseteq nets'
                /\ DrivenBefore(rhs, k) /\ ~ DrivenBefore(lhs, k)
                /\ source'[lhs] # None /\ source'[lhs] = source'[rhs]
  <2>1. PICK lhs \in Names, rhs \in Names :
          lhs = design.assignments[k].lhs /\ rhs = design.assignments[k].rhs
    BY <1>0
  <2>2. CASE Passed("assigns", k)
    <3>1. /\ {lhs, rhs} \subseteq nets /\ DrivenBefore(rhs, k) /\ ~ DrivenBefore(lhs, k)
          /\ source[lhs] # None /\ source[lhs] = source[rhs]
      BY <1>0, <2>1, <2>2 DEF AssignsMet
    <3>2. source'[lhs] = source[lhs] /\ source'[rhs] = source[rhs]
      BY <1>0, <3>1 DEF Kept
    <3> QED BY <1>0, <2>1, <3>1, <3>2
  <2>3. CASE ~ Passed("assigns", k)
    <3>1. Turn("assigns", k) /\ builds = 1
      BY <1>0, <1>2, <2>3, PassedNext DEF Loops, Items, Passed
    <3>2. process_assignment /\ phase = "assigns" /\ k = i /\ i' # i
      BY <1>0, <3>1, Turns DEF Turn
    <3>3. ~ \E e : Stop(e)
      BY <3>2, Halts
    <3>4. /\ {lhs, rhs} \subseteq nets /\ source[rhs] # None /\ source[lhs] = None
          /\ source' = [source EXCEPT ![lhs] = source[rhs]]
      BY <2>1, <3>2, <3>3, AssignmentDone
    <3>5. DrivenBefore(rhs, k) /\ ~ DrivenBefore(lhs, k)
      BY <3>1, <3>2, <3>4, SourceTells
    <3>6. source'[lhs] # None /\ source'[lhs] = source'[rhs]
      BY <1>0, <3>4
    <3> QED BY <1>0, <2>1, <3>4, <3>5, <3>6
  <2> QED BY <2>2, <2>3
<1> QED BY <1>0, <1>1, <1>2 DEF AssignsMet

\* One turn of the loop over the arcs of a cell.
LEMMA CellArcCreated ==
  ASSUME IInv, create_cell_arc
  PROVE  LET a == Cell(i).arcs[j]
             from == <<Instance(i).name, a.src_port>>
             to == <<Instance(i).name, a.snk_port>>
         IN /\ phase = "cell_arcs" /\ i \in 1 .. Len(design.instances) /\ j \in 1 .. Len(Cell(i).arcs)
            /\ \/ (~ Exists(from) \/ ~ Exists(to)) /\ \E e : Stop(e)
               \/ /\ Exists(from) /\ Exists(to)
                  /\ arcs' = Append(arcs, [from |-> from, to |-> to, kind |-> a.kind])
                  /\ j' = j + 1 /\ UNCHANGED <<phase, i, builds, pin_type, error>>
<1>1. phase = "cell_arcs" /\ i \in 1 .. Len(cells)
  BY DEF create_cell_arc, AtItem
<1>2. /\ i \in 1 .. Len(design.instances) /\ get_arcs(cells[i]) = Cell(i).arcs
      /\ cells[i].name = Instance(i).name
  BY <1>1, ThisInstance
<1>3. j \in 1 .. Len(get_arcs(cells[i]))
  BY DEF create_cell_arc
<1>4. LET a == get_arcs(cells[i])[j]
          from == <<cells[i].name, a.src_port>>
          to == <<cells[i].name, a.snk_port>>
      IN \/ (~ Exists(from) \/ ~ Exists(to)) /\ \E e : Stop(e)
         \/ /\ Exists(from) /\ Exists(to)
            /\ arcs' = Append(arcs, [from |-> from, to |-> to, kind |-> a.kind])
            /\ j' = j + 1 /\ UNCHANGED <<phase, i, builds, pin_type, error>>
  BY Zenon DEF create_cell_arc, pin_name
<1>5. LET a == Cell(i).arcs[j]
          from == <<Instance(i).name, a.src_port>>
          to == <<Instance(i).name, a.snk_port>>
      IN \/ (~ Exists(from) \/ ~ Exists(to)) /\ \E e : Stop(e)
         \/ /\ Exists(from) /\ Exists(to)
            /\ arcs' = Append(arcs, [from |-> from, to |-> to, kind |-> a.kind])
            /\ j' = j + 1 /\ UNCHANGED <<phase, i, builds, pin_type, error>>
  BY <1>2, <1>4, Zenon
<1> QED BY <1>1, <1>2, <1>3, <1>5

\* Arcs are made from the first of the first cell on.
LEMMA ArcsNext ==
  ASSUME IInv, [Next]_vars, NEW k \in 1 .. Len(design.instances)
  PROVE  \A a \in ArcsMet(k)' :
           a \in ArcsMet(k) \/ (create_cell_arc /\ j' = j + 1 /\ k = i /\ a = j)
<1>0. /\ TypeOK /\ design' = design /\ i \in Nat \ {0} /\ j \in Nat \ {0}
      /\ \A l : Cell(l)' = Cell(l)
  BY DesignStays, Static DEF IInv, GraphInv, BuildInv, ControlOK
<1>1. Passed("cell_arcs", k)' <=> Passed("cell_arcs", k) \/ Turn("cell_arcs", k)
  BY PassedNext DEF Loops, Items
<1>2. CASE Passed("cell_arcs", k)
  BY <1>0, <1>1, <1>2 DEF ArcsMet
<1>3. CASE ~ Passed("cell_arcs", k) /\ Turn("cell_arcs", k)
  <2>1. created_arcs /\ k = i /\ phase = "cell_arcs"
    BY <1>3, Turns DEF Turn
  <2>2. i \in 1 .. Len(cells) /\ j > Len(get_arcs(cells[i]))
    BY <2>1 DEF created_arcs, AtItem
  <2>3. get_arcs(cells[i]) = Cell(k).arcs /\ Instance(k).module \in DOMAIN Library
    BY <2>1, <2>2, ThisInstance
  <2>4. Len(Cell(k).arcs) \in Nat
    BY <2>3, CellType
  <2>5. ArcsMet(k) = 1 .. j - 1 /\ ArcsMet(k)' = 1 .. Len(Cell(k).arcs)
    BY <1>0, <1>1, <1>3, <2>1 DEF ArcsMet
  <2> QED BY <1>0, <2>2, <2>3, <2>4, <2>5
<1>4. CASE ~ Passed("cell_arcs", k) /\ ~ Turn("cell_arcs", k)
  <2>1. /\ ArcsMet(k) = IF phase = "cell_arcs" /\ k = i THEN 1 .. j - 1 ELSE {}
        /\ ArcsMet(k)' = IF phase' = "cell_arcs" /\ k = i' THEN 1 .. j' - 1 ELSE {}
    BY <1>1, <1>4 DEF ArcsMet
  <2>2. CASE create_cell_arc
    <3>1. \/ UNCHANGED <<phase, i, j>>
          \/ UNCHANGED <<phase, i>> /\ j' = j + 1
      BY <2>2, CellArcCreated, Halts
    <3> QED BY <1>0, <2>1, <2>2, <3>1
  <2>3. CASE ~ create_cell_arc
    <3>1. j' = 1 \/ UNCHANGED <<phase, i, j>>
      <4>1. CASE create_nets \/ create_cells \/ create_pins \/ connected_cell \/ created_arcs
        BY <4>1, CellCreated, Halts DEF create_nets, create_cells, create_pins, connected_cell, created_arcs, NextItem
      <4>2. CASE create_primary_inputs \/ create_primary_outputs \/ process_assignment
        BY <4>2 DEF create_primary_inputs, create_primary_outputs, create_primary, process_assignment,
           NextItem, Stop, control
      <4>3. CASE connect_pin \/ create_wires \/ UNCHANGED vars
        BY <4>3 DEF connect_pin, create_wires, vars, Stop, control
      <4>4. CASE deduce_clock \/ call_deduce_clock \/ build_again \/ next_loop
        BY <4>4 DEF deduce_clock, call_deduce_clock, build_again, next_loop, NextItem, Stop, control
      <4> QED BY <2>3, <4>1, <4>2, <4>3, <4>4 DEF Next, Step
    <3>2. ASSUME j' = 1 PROVE ArcsMet(k)' = {}
      BY <2>1, <3>2
    <3> QED BY <2>1, <3>1, <3>2
  <2> QED BY <2>2, <2>3
<1> QED BY <1>2, <1>3, <1>4

LEMMA NextPorts == ASSUME IInv, [Next]_vars PROVE PortsMet'
<1>0. /\ TypeOK /\ PortsMet /\ PinsRight /\ design' = design /\ CellsRight
  BY DesignStays DEF IInv, GraphInv, BuildInv
<1>1. /\ \A k : Cell(k)' = Cell(k) /\ Instance(k)' = Instance(k)
      /\ \A k, q : HasPin(k, q)' = HasPin(k, q)
  BY <1>0, Static
<1>2. ASSUME NEW k \in 1 .. Len(design.instances), NEW a \in ArcsMet(k)',
             NEW port \in {Cell(k).arcs[a].src_port, Cell(k).arcs[a].snk_port}
      PROVE  \E l \in 1 .. Len(design.instances) : HasPin(l, <<Instance(k).name, port>>)
  <2>1. CASE a \in ArcsMet(k)
    BY <1>0, <2>1 DEF PortsMet
  <2>2. CASE create_cell_arc /\ j' = j + 1 /\ k = i /\ a = j
    <3>0. j \in Nat
      BY DEF IInv, BuildInv, ControlOK
    <3>1. ~ \E e : Stop(e)
      BY <2>2, <3>0, Halts
    <3> DEFINE p == <<Instance(k).name, port>>
    <3>2. phase = "cell_arcs" /\ j \in 1 .. Len(Cell(k).arcs) /\ Exists(p)
      BY <2>2, <3>1, CellArcCreated
    <3>3. Instance(k).name \in Instances
      BY <1>0, ItemTypes
    <3>4. Instance(k).module \in DOMAIN Library
      BY <1>0, <3>2, Numbers DEF CellsRight, Passed, Behind
    <3>5. port \in Ports
      BY <2>2, <3>2, <3>4, CellType
    <3>6. p \in PinIds /\ p[1] # None
      BY <3>3, <3>5, NameAssumption DEF PinIds
    <3>7. \E l \in 1 .. Len(design.instances) : Passed("pins", l) /\ HasPin(l, p)
      BY <1>0, <3>2, <3>6 DEF PinsRight, Exists
    <3> QED BY <3>7
  <2> QED BY <2>1, <2>2, ArcsNext
<1> QED BY <1>0, <1>1, <1>2 DEF PortsMet

-----------------------------------------------------------------------------
\* Every assertion names something the netlist has wrong.
LEMMA Undeclared ==
  ASSUME IInv, LoopNo[phase] > 1, NEW n \in Names, n \notin nets
  PROVE  ~ IsIn(n, design.wires)
<1>1. LoopNo[phase] \in Int /\ NetsRight
  BY Numbers DEF IInv, BuildInv, ControlOK, Phases
<1>2. \A k \in 1 .. Len(design.wires) : Passed("nets", k)
  BY <1>1, Numbers DEF Passed, Behind
<1> QED BY <1>1, <1>2 DEF NetsRight, IsIn

LEMMA TwoDrivers ==
  ASSUME IInv, NEW x \in Places, Drives(x), source[NetAt(x)] # None, ~ Met(x), LoopNo[phase] < 8
  PROVE  ~ OneDriver
<1>1. TypeOK /\ SourcesMet /\ ~ (builds > 1) /\ NetAt(x) \in Names /\ LoopNo[phase] \in Int /\ phase \in Phases
  BY PlaceShape, Numbers DEF IInv, GraphInv, BuildInv, Met, ControlOK, Phases
<1>2. \A k : ~ Passed("assigns", k)
  BY <1>1, Numbers DEF Passed, Behind
<1>3. PICK y \in Places : Met(y) /\ Drives(y) /\ NetAt(y) = NetAt(x)
  BY <1>1, <1>2 DEF SourcesMet
<1> QED BY <1>3 DEF OneDriver

LEMMA PrimaryRefused ==
  ASSUME IInv, builds = 1, create_primary_inputs \/ create_primary_outputs, error' # error
  PROVE  ~ WellFormed
<1>0. TypeOK /\ i \in Nat \ {0} /\ PinsRight
  BY DEF IInv, GraphInv, BuildInv, ControlOK
<1>1. CASE create_primary_inputs
  <2> DEFINE x == <<"input", i, None>>
  <2>1. create_primary("inputs", design.inputs, "PRIMARY_INPUT")
    BY <1>1 DEF create_primary_inputs
  <2>2. LET n == design.inputs[i]
            t == create_pin(<<None, n>>, "PRIMARY_INPUT")
        IN phase = "inputs" /\ i \in 1 .. Len(design.inputs) /\ (n \notin nets \/ has_source(t, n))
    BY <2>1, PrimaryCreated
  <2>3. x \in Places /\ NetAt(x) = design.inputs[i] /\ NetAt(x) \in Names /\ Drives(x)
    <3>1. x \in Places
      BY <1>0, <2>2, PlacesThere
    <3> QED BY <1>0, <3>1, PlaceShape
  <2>4. ~ Met(x)
    BY <1>0, <2>2, Numbers DEF Met, MetNow, Behind
  <2>5. CASE NetAt(x) \notin nets
    <3>1. ~ IsIn(NetAt(x), design.wires)
      BY <2>2, <2>3, <2>5, Undeclared, Numbers
    <3> QED BY <2>3, <3>1 DEF WellFormed, NetsDeclared
  <2>6. CASE source[NetAt(x)] # None
    BY <2>2, <2>3, <2>4, <2>6, TwoDrivers, Numbers DEF WellFormed
  <2> QED BY <2>2, <2>3, <2>5, <2>6 DEF has_source
<1>2. CASE create_primary_outputs
  <2> DEFINE x == <<"output", i, None>>
  <2>1. create_primary("outputs", design.outputs, "PRIMARY_OUTPUT")
    BY <1>2 DEF create_primary_outputs
  <2>2. LET n == design.outputs[i]
            t == create_pin(<<None, n>>, "PRIMARY_OUTPUT")
        IN phase = "outputs" /\ i \in 1 .. Len(design.outputs) /\ (n \notin nets \/ has_source(t, n))
    BY <2>1, PrimaryCreated
  <2>3. /\ x \in Places /\ NetAt(x) = design.outputs[i] /\ NetAt(x) \in Names
        /\ (Drives(x) <=> \E k \in 1 .. Len(design.inputs) : design.inputs[k] = NetAt(x))
    <3>1. x \in Places
      BY <1>0, <2>2, PlacesThere
    <3> QED BY <1>0, <3>1, PlaceShape
  <2>4. ~ Met(x)
    BY <1>0, <2>2, Numbers DEF Met, MetNow, Behind
  <2>5. CASE NetAt(x) \notin nets
    <3>1. ~ IsIn(NetAt(x), design.wires)
      BY <2>2, <2>3, <2>5, Undeclared, Numbers
    <3> QED BY <2>3, <3>1 DEF WellFormed, NetsDeclared
  <2>6. CASE has_source(create_pin(<<None, NetAt(x)>>, "PRIMARY_OUTPUT"), NetAt(x))
    <3>1. PICK n \in Names : n = NetAt(x)
      BY <2>3
    <3>2. <<None, n>> \in PinIds /\ <<None, n>>[1] = None /\ <<None, n>>[2] = n
      BY DEF PinIds
    <3>3. source[n] # None /\ pin_type[<<None, n>>] \in SourceTypes
      BY <2>6, <3>1 DEF has_source, create_pin, SourceTypes
    <3>4. InputMet(n)
      BY <1>0, <3>2, <3>3, NameAssumption DEF PinsRight, SourceTypes, PinTypes
    <3>5. Drives(x)
      BY <2>3, <3>1, <3>4 DEF InputMet
    <3> QED BY <2>2, <2>3, <2>4, <3>1, <3>3, <3>5, TwoDrivers, Numbers DEF WellFormed
  <2> QED BY <2>2, <2>3, <2>5, <2>6
<1> QED BY <1>1, <1>2

LEMMA PinRefused ==
  ASSUME IInv, builds = 1, connect_pin, error' # error
  PROVE  ~ WellFormed
<1>1. phase = "connect" /\ TypeOK /\ i \in Nat \ {0}
  BY PinConnected DEF IInv, GraphInv, BuildInv, ControlOK
<1>2. PICK port \in PortsOf(i) \ done :
        LET x == <<"instance", i, port>>
        IN x \in Places /\ (NetAt(x) \notin nets \/ has_source(pin_type[PinAt(x)], NetAt(x)))
  BY PinConnected
<1> DEFINE x == <<"instance", i, port>>
<1>3. x[1] = "instance" /\ x[2] = i /\ x[3] = port /\ x \in Places
  BY <1>2
<1> HIDE DEF x
<1>4. ~ Met(x)
  BY <1>1, <1>2, <1>3, Numbers DEF Met, MetNow, Behind
<1>5. NetAt(x) \in Names
  BY <1>1, <1>3, PlaceShape
<1>6. CASE NetAt(x) \notin nets
  <2>1. ~ IsIn(NetAt(x), design.wires)
    BY <1>1, <1>5, <1>6, Undeclared, Numbers
  <2> QED BY <1>3, <2>1 DEF WellFormed, NetsDeclared
<1>7. CASE has_source(pin_type[PinAt(x)], NetAt(x))
  <2>1. pin_type[PinAt(x)] \in {"INPUT", "OUTPUT"} /\ (pin_type[PinAt(x)] = "OUTPUT" <=> Drives(x))
    BY <1>1, <1>3, PinOfInstance, Numbers
  <2>2. Drives(x) /\ source[NetAt(x)] # None
    BY <1>7, <2>1 DEF has_source, SourceTypes
  <2> QED BY <1>1, <1>3, <1>4, <2>2, TwoDrivers, Numbers DEF WellFormed
<1> QED BY <1>2, <1>6, <1>7 DEF x

LEMMA CellArcRefused ==
  ASSUME IInv, builds = 1, create_cell_arc, error' # error
  PROVE  ~ WellFormed
<1>1. PICK port \in {Cell(i).arcs[j].src_port, Cell(i).arcs[j].snk_port} :
        /\ phase = "cell_arcs" /\ i \in 1 .. Len(design.instances) /\ j \in 1 .. Len(Cell(i).arcs)
        /\ ~ Exists(<<Instance(i).name, port>>)
  BY CellArcCreated
<1> DEFINE q == <<Instance(i).name, port>>
<1>2. TypeOK /\ PinsRight /\ CellsRight /\ q[2] = port
  BY DEF IInv, GraphInv, BuildInv
<1>3. \A k \in 1 .. Len(design.instances) : Passed("pins", k) /\ Passed("cells", k)
  BY <1>1, Numbers DEF Passed, Behind
<1>4. Instance(i).module \in DOMAIN Library
  BY <1>1, <1>2, <1>3 DEF CellsRight
<1>5. Instance(i).name \in Instances /\ port \in Ports
  BY <1>1, <1>2, <1>4, ItemTypes, CellType
<1>6. q \in PinIds /\ q[1] # None
  BY <1>5, NameAssumption DEF PinIds
<1>7. pin_type[q] = None
  BY <1>1 DEF Exists
<1> HIDE DEF q
<1>8. ASSUME NEW l \in 1 .. Len(design.instances), HasPin(l, q) PROVE FALSE
  <2>0. Len(design.instances) \in Nat
    BY <1>2, DesignType
  <2>1. PICK h \in 1 .. l : MakesPin(h, q)
    BY <1>8, <2>0, MadeOnce
  <2>2. h \in 1 .. Len(design.instances)
    BY <2>0, <2>1
  <2>3. pin_type[q] = Cell(h).ports[q[2]]
    BY <1>2, <1>3, <1>6, <2>1, <2>2 DEF PinsRight
  <2>4. HasPin(h, q) /\ Instance(h).module \in DOMAIN Library
    BY <1>2, <1>3, <2>1, <2>2 DEF MakesPin, CellsRight
  <2>5. pin_type[q] \in {"INPUT", "OUTPUT"}
    BY <2>3, <2>4, CellType DEF HasPin
  <2> QED BY <1>7, <2>5, NameAssumption DEF PinTypes, SourceTypes, SinkTypes
<1>9. ~ PortsExist
  BY <1>1, <1>8 DEF PortsExist, q
<1> QED BY <1>9 DEF WellFormed

LEMMA AssignmentRefused ==
  ASSUME IInv, builds = 1, process_assignment, error' # error
  PROVE  ~ WellFormed
<1>0. TypeOK
  BY DEF IInv, GraphInv
<1>1. PICK k \in 1 .. Len(design.assignments), lhs \in Names, rhs \in Names :
        /\ k = i /\ lhs = design.assignments[k].lhs /\ rhs = design.assignments[k].rhs
  BY <1>0, AssignmentDone, ItemTypes
<1>2. /\ phase = "assigns"
      /\ ~ {lhs, rhs} \subseteq nets \/ source[rhs] = None \/ source[lhs] # None
  BY <1>1, AssignmentDone
<1>3. CASE ~ {lhs, rhs} \subseteq nets
  <2>1. ~ IsIn(lhs, design.wires) \/ ~ IsIn(rhs, design.wires)
    BY <1>2, <1>3, Undeclared, Numbers
  <2> QED BY <1>1, <2>1 DEF WellFormed, NetsDeclared
<1>4. CASE source[rhs] = None
  <2>1. ~ DrivenBefore(rhs, k)
    BY <1>1, <1>2, <1>4, SourceTells
  <2> QED BY <1>1, <2>1 DEF WellFormed, AssignmentsInOrder
<1>5. CASE source[lhs] # None
  <2>1. DrivenBefore(lhs, k)
    BY <1>1, <1>2, <1>5, SourceTells
  <2> QED BY <1>1, <2>1 DEF WellFormed, AssignmentsInOrder
<1> QED BY <1>2, <1>3, <1>4, <1>5

LEMMA NextErrors == ASSUME IInv, [Next]_vars PROVE ErrorsRight'
<1>0. /\ ErrorsRight /\ design' = design /\ builds \in Nat \ {0} /\ WellFormed' = WellFormed
  BY DesignStays, Static DEF IInv, BuildInv, ControlOK
<1> SUFFICES ASSUME builds' = 1, phase' # "clock", error' # None
             PROVE  ~ WellFormed
  BY <1>0 DEF ErrorsRight
<1>1. CASE UNCHANGED vars
  BY <1>0, <1>1 DEF ErrorsRight, vars, control
<1>2. CASE Next
  <2>0. error' # error
    BY <1>2 DEF Next
  <2>1. builds = 1
    <3>1. builds' = builds \/ builds' = builds + 1
      <4>1. CASE create_nets \/ create_cells \/ create_pins \/ connected_cell \/ created_arcs
        BY <4>1, CellCreated, Halts DEF create_nets, create_pins, connected_cell, created_arcs
      <4>2. CASE create_primary_inputs \/ create_primary_outputs \/ process_assignment
        BY <4>2 DEF create_primary_inputs, create_primary_outputs, create_primary, process_assignment, Stop
      <4>3. CASE connect_pin \/ create_wires \/ create_cell_arc
        BY <4>3 DEF connect_pin, create_wires, create_cell_arc, Stop
      <4>4. CASE deduce_clock \/ call_deduce_clock \/ build_again \/ next_loop
        BY <4>4 DEF deduce_clock, call_deduce_clock, build_again, next_loop, Stop
      <4> QED BY <1>2, <4>1, <4>2, <4>3, <4>4 DEF Next, Step
    <3> QED BY <1>0, <3>1
  <2>2. CASE create_primary_inputs \/ create_primary_outputs
    BY <2>0, <2>1, <2>2, PrimaryRefused
  <2>3. CASE create_cells
    <3>1. i \in 1 .. Len(design.instances) /\ Instance(i).module \notin DOMAIN Library
      BY <2>0, <2>3, CellCreated
    <3> QED BY <3>1 DEF WellFormed, ModulesKnown
  <2>4. CASE connect_pin \/ create_cell_arc \/ process_assignment
    BY <2>0, <2>1, <2>4, PinRefused, CellArcRefused, AssignmentRefused
  <2>5. CASE create_nets \/ create_pins \/ connected_cell \/ created_arcs \/ create_wires
    BY <2>0, <2>5 DEF create_nets, create_pins, connected_cell, created_arcs, create_wires
  <2>6. CASE next_loop \/ call_deduce_clock \/ build_again
    BY <2>0, <2>6 DEF next_loop, call_deduce_clock, build_again
  <2>7. CASE deduce_clock
    <3>1. phase = "clock"
      BY <2>7 DEF deduce_clock, AtItem
    <3>2. error' = error \/ \E e : Stop(e)
      BY <2>7, Zenon DEF deduce_clock
    <3> QED BY <2>0, <3>1, <3>2, Halts
  <2> QED BY <1>2, <2>2, <2>3, <2>4, <2>5, <2>6, <2>7 DEF Next, Step
<1> QED BY <1>1, <1>2

-----------------------------------------------------------------------------
\* How often an element is in a sequence.
LEMMA FiniteRange == ASSUME NEW n \in Nat PROVE IsFiniteSet(1 .. n)
BY FS_Interval

LEMMA TimesType ==
  ASSUME NEW S, NEW s \in Seq(S), NEW e
  PROVE  /\ IsFiniteSet({k \in 1 .. Len(s) : s[k] = e})
         /\ Times(e, s) \in Nat
         /\ (\A k \in 1 .. Len(s) : s[k] # e) => Times(e, s) = 0
<1>1. IsFiniteSet(1 .. Len(s))
  BY FiniteRange
<1>2. IsFiniteSet({k \in 1 .. Len(s) : s[k] = e})
  BY <1>1, FS_Subset
<1>3. ASSUME \A k \in 1 .. Len(s) : s[k] # e PROVE Times(e, s) = 0
  <2>1. {k \in 1 .. Len(s) : s[k] = e} = {}
    BY <1>3
  <2> QED BY <2>1, FS_EmptySet DEF Times
<1> QED BY <1>2, <1>3, FS_CardinalityType DEF Times

LEMMA TimesAppend ==
  ASSUME NEW S, NEW s \in Seq(S), NEW x \in S, NEW e
  PROVE  Times(e, Append(s, x)) = IF x = e THEN Times(e, s) + 1 ELSE Times(e, s)
<1> DEFINE t == Append(s, x)
           A == {k \in 1 .. Len(s) : s[k] = e}
           B == {k \in 1 .. Len(t) : t[k] = e}
           m == Len(s)
<1>1. /\ Len(t) = m + 1 /\ t[m + 1] = x /\ \A k \in 1 .. m : t[k] = s[k]
      /\ m \in Nat
  BY AppendProperties
<1>2. IsFiniteSet(A)
  BY TimesType
<1> HIDE DEF t, m
<1>3. CASE x = e
  <2>1. B = A \cup {m + 1}
    <3>1. \A k \in 1 .. m + 1 : k \in 1 .. m \/ k = m + 1
      BY <1>1
    <3>2. m + 1 \in 1 .. m + 1 /\ 1 .. m \subseteq 1 .. m + 1
      BY <1>1
    <3> QED BY <1>1, <1>3, <3>1, <3>2 DEF m
  <2>2. m + 1 \notin A
    BY <1>1 DEF m
  <2> QED BY <1>2, <1>3, <2>1, <2>2, FS_AddElement DEF Times, t
<1>4. CASE x # e
  <2>1. B = A
    <3>1. \A k \in 1 .. m + 1 : k \in 1 .. m \/ k = m + 1
      BY <1>1
    <3>2. 1 .. m \subseteq 1 .. m + 1
      BY <1>1
    <3> QED BY <1>1, <1>4, <3>1, <3>2 DEF m
  <2> QED BY <1>4, <2>1 DEF Times, t
<1> QED BY <1>3, <1>4

LEMMA TimesConcat ==
  ASSUME NEW S, NEW s \in Seq(S), NEW t \in Seq(S), NEW e
  PROVE  Times(e, s \o t) = Times(e, s) + Times(e, t)
<1> DEFINE u == s \o t
           m == Len(s)
           n == Len(t)
           A == {k \in 1 .. Len(s) : s[k] = e}
           B == {k \in 1 .. Len(t) : t[k] = e}
           C == {k \in 1 .. Len(u) : u[k] = e}
           D == {k \in m + 1 .. m + n : t[k - m] = e}
           f == [k \in B |-> k + m]
<1>1. /\ Len(u) = m + n /\ m \in Nat /\ n \in Nat
      /\ \A k \in 1 .. m + n : u[k] = IF k <= m THEN s[k] ELSE t[k - m]
  BY ConcatProperties
<1>2. IsFiniteSet(A) /\ IsFiniteSet(B)
  BY TimesType
<1> HIDE DEF u
<1>3. C = A \cup D
  <2>1. ASSUME NEW k \in 1 .. m + n
        PROVE  \/ k \in 1 .. m /\ k \notin m + 1 .. m + n /\ u[k] = s[k]
               \/ k \notin 1 .. m /\ k \in m + 1 .. m + n /\ u[k] = t[k - m]
    BY <1>1
  <2>2. 1 .. m \subseteq 1 .. m + n /\ m + 1 .. m + n \subseteq 1 .. m + n
    BY <1>1
  <2> QED BY <1>1, <2>1, <2>2
<1>4. A \cap D = {}
  BY <1>1
<1>5. f \in Bijection(B, D)
  <2>1. f \in [B -> D]
    <3>1. ASSUME NEW k \in B PROVE k + m \in D
      BY <1>1, <3>1
    <3> QED BY <3>1
  <2>2. \A a, b \in B : f[a] = f[b] => a = b
    BY <1>1
  <2>3. ASSUME NEW d \in D PROVE \E b \in B : f[b] = d
    <3>1. d - m \in B /\ f[d - m] = d
      BY <1>1
    <3> QED BY <3>1
  <2> HIDE DEF f, B, D
  <2> QED BY <2>1, <2>2, <2>3, Fun_IsBij
<1>6. IsFiniteSet(D) /\ Cardinality(D) = Cardinality(B)
  <2>1. ExistsBijection(B, D)
    BY <1>5, Fun_ExistsBij
  <2> HIDE DEF B, D
  <2> QED BY <1>2, <2>1, FS_Bijection
<1>7. Cardinality(C) = Cardinality(A) + Cardinality(D)
  <2>1. Cardinality(A \cup D) = Cardinality(A) + Cardinality(D) - Cardinality(A \cap D)
    BY <1>2, <1>6, FS_Union
  <2>2. Cardinality(A \cap D) = 0
    BY <1>4, FS_EmptySet
  <2>3. Cardinality(A) \in Nat /\ Cardinality(D) \in Nat
    BY <1>2, <1>6, FS_CardinalityType
  <2> HIDE DEF A, C, D
  <2> QED BY <1>3, <2>1, <2>2, <2>3
<1> QED BY <1>6, <1>7 DEF Times, u

-----------------------------------------------------------------------------
\* A netlist is finite, so what it says can be counted.
LEMMA FinitePlaces == ASSUME TypeOK PROVE IsFiniteSet(Places)
<1> DEFINE N == Len(design.instances)
           M(k) == Len(Instance(k).port_list)
           T(k) == {<<"instance", k, Instance(k).port_list[l].port>> : l \in 1 .. M(k)}
           I == {<<"input", k, None>> : k \in 1 .. Len(design.inputs)}
           O == {<<"output", k, None>> : k \in 1 .. Len(design.outputs)}
           U == {T(k) : k \in 1 .. N}
<1>0. N \in Nat /\ Len(design.inputs) \in Nat /\ Len(design.outputs) \in Nat
  BY DesignType
<1>1. IsFiniteSet(I)
  <2> DEFINE f == [k \in 1 .. Len(design.inputs) |-> <<"input", k, None>>]
  <2>1. f \in Surjection(1 .. Len(design.inputs), I)
    BY Fun_IsSurj
  <2>2. IsFiniteSet(1 .. Len(design.inputs))
    BY <1>0, FiniteRange
  <2> HIDE DEF f, I
  <2> QED BY <2>1, <2>2, FS_Surjection
<1>2. IsFiniteSet(O)
  <2> DEFINE f == [k \in 1 .. Len(design.outputs) |-> <<"output", k, None>>]
  <2>1. f \in Surjection(1 .. Len(design.outputs), O)
    BY Fun_IsSurj
  <2>2. IsFiniteSet(1 .. Len(design.outputs))
    BY <1>0, FiniteRange
  <2> HIDE DEF f, O
  <2> QED BY <2>1, <2>2, FS_Surjection
<1>3. ASSUME NEW k \in 1 .. N PROVE IsFiniteSet(T(k))
  <2> DEFINE f == [l \in 1 .. M(k) |-> <<"instance", k, Instance(k).port_list[l].port>>]
  <2>0. M(k) \in Nat
    BY ItemTypes
  <2>1. f \in Surjection(1 .. M(k), T(k))
    BY Fun_IsSurj
  <2>2. IsFiniteSet(1 .. M(k))
    BY <2>0, FiniteRange
  <2> HIDE DEF f, T
  <2> QED BY <2>1, <2>2, FS_Surjection
<1>4. IsFiniteSet(U)
  <2> DEFINE f == [k \in 1 .. N |-> T(k)]
  <2>1. f \in Surjection(1 .. N, U)
    <3> HIDE DEF T
    <3> QED BY Fun_IsSurj
  <2>2. IsFiniteSet(1 .. N)
    BY <1>0, FiniteRange
  <2> HIDE DEF f, U
  <2> QED BY <2>1, <2>2, FS_Surjection
<1>5. IsFiniteSet(UNION U)
  <2>1. \A t \in U : IsFiniteSet(t)
    BY <1>3
  <2> HIDE DEF U
  <2> QED BY <1>4, <2>1, FS_UNION
<1>6. Places \subseteq (I \cup O) \cup UNION U
  <2>1. ASSUME NEW x \in Places, x \notin PrimaryPlaces PROVE x \in UNION U
    <3>1. PICK k \in 1 .. N, p \in Ports : x = <<"instance", k, p>>
      BY <2>1 DEF Places, InstancePlaces
    <3>2. Entries(x) # {}
      BY <2>1 DEF Places
    <3>3. PICK l \in 1 .. M(k) : Instance(k).port_list[l].port = p
      BY <3>1, <3>2 DEF Entries, first_entry
    <3>4. x \in T(k)
      BY <3>1, <3>3
    <3> HIDE DEF T
    <3> QED BY <3>1, <3>4
  <2> QED BY <2>1 DEF PrimaryPlaces
<1>7. IsFiniteSet((I \cup O) \cup UNION U)
  <2> HIDE DEF I, O, U
  <2>1. IsFiniteSet(I \cup O)
    BY <1>1, <1>2, FS_Union
  <2> QED BY <1>5, <2>1, FS_Union
<1> HIDE DEF I, O, U
<1> QED BY <1>6, <1>7, FS_Subset

LEMMA FiniteCellArcs ==
  ASSUME TypeOK, \A k \in 1 .. Len(design.instances) : Instance(k).module \in DOMAIN Library
  PROVE  IsFiniteSet(CellArcs)
<1> DEFINE N == Len(design.instances)
           T(k) == {k} \X (1 .. Len(Cell(k).arcs))
           U == {T(k) : k \in 1 .. N}
<1>0. N \in Nat
  BY DesignType
<1>1. ASSUME NEW k \in 1 .. N PROVE IsFiniteSet(T(k))
  <2>1. IsFiniteSet({k})
    BY FS_Singleton
  <2>2. Len(Cell(k).arcs) \in Nat
    BY CellType
  <2>3. IsFiniteSet(1 .. Len(Cell(k).arcs))
    BY <2>2, FiniteRange
  <2> QED BY <2>1, <2>3, FS_Product
<1>2. IsFiniteSet(U)
  <2> DEFINE f == [k \in 1 .. N |-> T(k)]
  <2>1. f \in Surjection(1 .. N, U)
    <3> HIDE DEF T
    <3> QED BY Fun_IsSurj
  <2>2. IsFiniteSet(1 .. N)
    BY <1>0, FiniteRange
  <2> HIDE DEF f, U
  <2> QED BY <2>1, <2>2, FS_Surjection
<1>3. \A t \in U : IsFiniteSet(t)
  BY <1>1
<1>4. CellArcs = UNION U
  BY DEF CellArcs
<1> HIDE DEF U
<1> QED BY <1>2, <1>3, <1>4, FS_UNION

-----------------------------------------------------------------------------
\* In one build no loop is gone back to, and no place is met twice.
LEMMA SameBuild ==
  ASSUME IInv, [Next]_vars, builds' = 1
  PROVE  /\ builds = 1 /\ LoopNo[phase] \in 1 .. 10 /\ LoopNo[phase'] \in 1 .. 10
         /\ LoopNo[phase'] >= LoopNo[phase]
         /\ next_loop \/ phase' = phase \/ (LoopNo[phase] = 10 /\ LoopNo[phase'] = 10)
<1>0. builds \in Nat \ {0} /\ LoopNo[phase] \in 1 .. 10
  BY Numbers DEF IInv, BuildInv, ControlOK, Phases
<1>1. ~ build_again
  BY <1>0 DEF build_again
<1>2. builds' = builds
  <2>1. CASE \/ create_nets \/ create_primary_inputs \/ create_primary_outputs \/ create_cells
             \/ create_pins \/ connected_cell \/ created_arcs
    BY <2>1 DEF create_nets, create_primary_inputs, create_primary_outputs, create_primary,
       create_cells, create_pins, connected_cell, created_arcs, Stop
  <2>2. CASE connect_pin \/ create_cell_arc \/ process_assignment \/ create_wires \/ UNCHANGED vars
    BY <2>2 DEF connect_pin, create_cell_arc, process_assignment, create_wires, vars, Stop
  <2>3. CASE deduce_clock \/ next_loop \/ call_deduce_clock
    BY <2>3 DEF deduce_clock, next_loop, call_deduce_clock, Stop
  <2> QED BY <1>1, <2>1, <2>2, <2>3 DEF Next, Step
<1>3. CASE next_loop
  <2>1. phase = "clock" => LoopNo[phase] = 10 /\ LoopNo[phase'] = 10
    BY <1>3, HandsOn, Numbers
  <2> QED BY <1>0, <1>2, <1>3, <2>1, HandsOn
<1>4. CASE phase \in {"built", "clock"} /\ phase' \in {"clock", "idle"}
  <2>1. LoopNo[phase] = 10 /\ LoopNo[phase'] = 10
    BY <1>4, Numbers
  <2> QED BY <1>2, <2>1
<1>5. CASE phase' = phase
  BY <1>0, <1>2, <1>5
<1> QED BY <1>1, <1>3, <1>4, <1>5, PhaseNext

LEMMA MeetsOnce ==
  ASSUME IInv, NEW x \in Places, Meets(x)
  PROVE  ~ MetNow(x)
<1>0. i \in Nat
  BY DEF IInv, BuildInv, ControlOK
<1>1. CASE x[1] = "input"
  BY <1>0, <1>1, Numbers DEF Meets, MetNow, Turn, Behind
<1>2. CASE x[1] = "output"
  BY <1>0, <1>2, Numbers DEF Meets, MetNow, Turn, Behind
<1>3. CASE x[1] # "input" /\ x[1] # "output"
  BY <1>0, <1>3, Numbers DEF Meets, MetNow, Behind
<1> QED BY <1>1, <1>2, <1>3

LEMMA NextSinks ==
  ASSUME IInv, [Next]_vars, builds' = 1
  PROVE  SinksMet'
<1> DEFINE A(n, q) == {x \in Places : MetNow(x) /\ ~ Drives(x) /\ PinAt(x) = q /\ NetAt(x) = n}
           B(n, q) == {x \in Places : MetNow(x)' /\ ~ Drives(x) /\ PinAt(x) = q /\ NetAt(x) = n}
<1>0. /\ TypeOK /\ builds = 1 /\ design' = design /\ SinksMet /\ sinks \in [Names -> Seq(PinIds)]
  BY SameBuild, DesignStays DEF IInv, GraphInv, CountInv, TypeOK
<1>1. /\ Places' = Places
      /\ \A x : NetAt(x)' = NetAt(x) /\ PinAt(x)' = PinAt(x) /\ Drives(x)' = Drives(x)
  BY <1>0, Static
<1>2. \A x \in Places : MetNow(x)' <=> MetNow(x) \/ Meets(x)
  <2>1. builds' # builds + 1
    BY <1>0
  <2> QED BY <2>1, MetNext
<1>3. ASSUME NEW n \in Names, NEW q \in PinIds
      PROVE  Times(q, sinks[n]) = Cardinality(A(n, q)) /\ IsFiniteSet(A(n, q))
  <2>1. A(n, q) = {x \in {y \in Places : MetNow(y) /\ ~ Drives(y)} : PinAt(x) = q /\ NetAt(x) = n}
    OBVIOUS
  <2>2. Times(q, sinks[n]) = Cardinality(A(n, q))
    BY <1>0, <2>1 DEF SinksMet
  <2>3. IsFiniteSet(A(n, q))
    BY <1>0, FinitePlaces, FS_Subset
  <2> QED BY <2>2, <2>3
<1>4. ASSUME NEW n \in Names, NEW q \in PinIds PROVE Times(q, sinks'[n]) = Cardinality(B(n, q))
  <2>1. ASSUME NEW z \in Places, Connects(z), Drives(z) PROVE Times(q, sinks'[n]) = Cardinality(B(n, q))
    <3>1. sinks' = sinks
      BY <2>1 DEF Connects, connect_to, SourceTypes, SinkTypes
    <3>2. B(n, q) = A(n, q)
      BY <1>2, <2>1 DEF Connects
    <3> QED BY <1>3, <3>1, <3>2
  <2>2. ASSUME NEW z \in Places, Connects(z), ~ Drives(z) PROVE Times(q, sinks'[n]) = Cardinality(B(n, q))
    <3>0. NetAt(z) \in Names /\ PinAt(z) \in PinIds
      BY <1>0, PlaceShape
    <3>1. sinks' = [sinks EXCEPT ![NetAt(z)] = Append(@, PinAt(z))]
      BY <2>2 DEF Connects, connect_to, PinTypes
    <3>2. ~ MetNow(z) /\ \A x \in Places : MetNow(x)' <=> MetNow(x) \/ x = z
      BY <1>2, <2>2, MeetsOnce DEF Connects
    <3>3. CASE NetAt(z) = n
      <4>1. sinks'[n] = Append(sinks[n], PinAt(z)) /\ sinks[n] \in Seq(PinIds)
        BY <1>0, <3>1, <3>3
      <4>2. Times(q, sinks'[n]) = IF PinAt(z) = q THEN Times(q, sinks[n]) + 1 ELSE Times(q, sinks[n])
        BY <3>0, <4>1, TimesAppend
      <4>3. PinAt(z) = q => B(n, q) = A(n, q) \cup {z} /\ z \notin A(n, q)
        BY <2>2, <3>2, <3>3
      <4>4. PinAt(z) # q => B(n, q) = A(n, q)
        BY <3>2
      <4> HIDE DEF A, B
      <4> QED BY <1>3, <4>2, <4>3, <4>4, FS_AddElement
    <3>4. CASE NetAt(z) # n
      <4>1. sinks'[n] = sinks[n]
        BY <1>0, <3>1, <3>4
      <4>2. B(n, q) = A(n, q)
        BY <3>2, <3>4
      <4> QED BY <1>3, <4>1, <4>2
    <3> QED BY <3>3, <3>4
  <2>3. ASSUME \A y \in Places : ~ Meets(y), UNCHANGED sinks
        PROVE  Times(q, sinks'[n]) = Cardinality(B(n, q))
    <3>1. B(n, q) = A(n, q)
      BY <1>2, <2>3
    <3> QED BY <1>3, <2>3, <3>1
  <2>4. process_assignment => UNCHANGED sinks
    BY DEF process_assignment, Stop, graph
  <2> HIDE DEF B
  <2> QED BY <2>1, <2>2, <2>3, <2>4, WhoConnects
<1>5. ASSUME NEW n \in Names, NEW q \in PinIds
      PROVE  Times(q, sinks'[n]) =
             Cardinality({x \in {y \in Places : MetNow(y)' /\ ~ Drives(y)} : PinAt(x) = q /\ NetAt(x) = n})
  <2>1. B(n, q) = {x \in {y \in Places : MetNow(y)' /\ ~ Drives(y)} : PinAt(x) = q /\ NetAt(x) = n}
    OBVIOUS
  <2> QED BY <1>4, <2>1
<1> QED BY <1>1, <1>5 DEF SinksMet, Times

-----------------------------------------------------------------------------
\* Which arcs of the cells are there.
LEMMA AtArcs ==
  ASSUME [Next]_vars, phase = "cell_arcs"
  PROVE  create_cell_arc \/ created_arcs \/ next_loop \/ UNCHANGED vars
<1>1. ~ (create_nets \/ create_cells \/ create_pins \/ connected_cell \/ connect_pin \/ create_wires)
  BY DEF create_nets, create_cells, create_pins, connected_cell, connect_pin, create_wires, AtItem
<1>2. ~ (create_primary_inputs \/ create_primary_outputs \/ process_assignment)
  BY DEF create_primary_inputs, create_primary_outputs, create_primary, process_assignment, AtItem
<1>3. ~ (deduce_clock \/ call_deduce_clock \/ build_again)
  BY DEF deduce_clock, call_deduce_clock, build_again, AtItem, Resting
<1> QED BY <1>1, <1>2, <1>3 DEF Next, Step

\* The step makes arc a of instance k.
Makes(k, a) == create_cell_arc /\ j' = j + 1 /\ k = i /\ a = j

LEMMA ArcMade ==
  ASSUME IInv, create_cell_arc, j' = j + 1
  PROVE  /\ phase = "cell_arcs" /\ i \in 1 .. Len(design.instances) /\ j \in 1 .. Len(Cell(i).arcs)
         /\ arcs' = Append(arcs, ArcAt(<<i, j>>)) /\ ArcAt(<<i, j>>) \in Arc
         /\ ArcAt(<<i, j>>).kind \in {"DELAY", "CONSTRAINT"}
         /\ UNCHANGED <<phase, i, builds, pin_type>>
<1>0. TypeOK /\ j \in Nat /\ CellsRight
  BY DEF IInv, GraphInv, BuildInv, ControlOK
<1>1. ~ \E e : Stop(e)
  BY <1>0, Halts
<1>2. LET a == Cell(i).arcs[j]
          from == <<Instance(i).name, a.src_port>>
          to == <<Instance(i).name, a.snk_port>>
      IN /\ phase = "cell_arcs" /\ i \in 1 .. Len(design.instances) /\ j \in 1 .. Len(Cell(i).arcs)
         /\ arcs' = Append(arcs, [from |-> from, to |-> to, kind |-> a.kind])
         /\ UNCHANGED <<phase, i, builds, pin_type>>
  BY <1>1, CellArcCreated
<1>3. arcs' = Append(arcs, ArcAt(<<i, j>>))
  BY <1>2 DEF ArcAt, ArcOf
<1>4. Instance(i).module \in DOMAIN Library /\ Instance(i).name \in Instances
  BY <1>0, <1>2, ItemTypes, Numbers DEF CellsRight, Passed, Behind
<1>5. Cell(i).arcs[j] \in ArcData
  BY <1>2, <1>4, CellType, ElementOfSeq
<1>6. ArcAt(<<i, j>>) \in Arc /\ ArcAt(<<i, j>>).kind \in {"DELAY", "CONSTRAINT"}
  BY <1>4, <1>5 DEF ArcAt, ArcOf, Arc, ArcData, PinIds
<1> QED BY <1>2, <1>3, <1>6

LEMMA NextBefore ==
  ASSUME IInv, [Next]_vars, builds' = 1
  PROVE  ArcsBefore'
<1>0. /\ TypeOK /\ builds = 1 /\ design' = design /\ ArcsBefore /\ j \in Nat /\ arcs \in Seq(Arc)
      /\ LoopNo[phase'] >= LoopNo[phase] /\ LoopNo[phase] \in 1 .. 10 /\ LoopNo[phase'] \in 1 .. 10
  BY SameBuild, DesignStays DEF IInv, GraphInv, BuildInv, ControlOK, CountInv, TypeOK
<1>1. create_cell_arc => phase = "cell_arcs"
  BY DEF create_cell_arc, AtItem
<1>2. create_wires => phase = "wires"
  BY DEF create_wires
<1>3. LoopNo[phase'] < LoopNo["cell_arcs"] => arcs' = << >>
  BY <1>0, <1>1, <1>2, Effects, Numbers DEF ArcsBefore
<1>4. ASSUME LoopNo[phase'] < LoopNo["wires"] PROVE \A k \in 1 .. Len(arcs') : arcs'[k].kind # "WIRE"
  <2>1. LoopNo[phase] < LoopNo["wires"] /\ ~ create_wires
    BY <1>0, <1>2, <1>4, Numbers
  <2>2. \A k \in 1 .. Len(arcs) : arcs[k].kind # "WIRE"
    BY <1>0, <2>1 DEF ArcsBefore
  <2>3. CASE arcs' = arcs
    BY <2>2, <2>3
  <2>4. CASE create_cell_arc /\ arcs' # arcs
    <3>1. j' = j + 1
      BY <2>4, CellArcCreated, Halts
    <3>2. PICK e \in Arc : arcs' = Append(arcs, e) /\ e.kind \in {"DELAY", "CONSTRAINT"}
      BY <2>4, <3>1, ArcMade
    <3>3. /\ Len(arcs') = Len(arcs) + 1 /\ arcs'[Len(arcs) + 1] = e /\ Len(arcs) \in Nat
          /\ \A k \in 1 .. Len(arcs) : arcs'[k] = arcs[k]
      BY <1>0, <3>2, AppendProperties
    <3>4. \A k \in 1 .. Len(arcs) + 1 : k \in 1 .. Len(arcs) \/ k = Len(arcs) + 1
      BY <3>3
    <3> QED BY <2>2, <3>2, <3>3, <3>4
  <2> QED BY <2>1, <2>3, <2>4, Effects
<1>5. ASSUME NEW k \in 1 .. Len(design.instances), NEW a \in ArcsMet(k)' PROVE a <= Len(Cell(k).arcs)
  <2>1. CASE a \in ArcsMet(k)
    BY <1>0, <2>1 DEF ArcsBefore
  <2>2. CASE Makes(k, a)
    <3>1. a \in 1 .. Len(Cell(k).arcs)
      BY <2>2, ArcMade DEF Makes
    <3>2. Len(Cell(k).arcs) \in Nat
      <4>1. Instance(k).module \in DOMAIN Library
        BY <2>2, ArcMade, Numbers DEF Makes, IInv, BuildInv, CellsRight, Passed, Behind
      <4> QED BY <4>1, CellType
    <3> QED BY <3>1, <3>2
  <2> QED BY <2>1, <2>2, ArcsNext DEF Makes
<1>6. \A k : Cell(k)' = Cell(k)
  BY <1>0, Static
<1> QED BY <1>0, <1>3, <1>4, <1>5, <1>6 DEF ArcsBefore

LEMMA ArcsExact ==
  ASSUME IInv, [Next]_vars, builds' = 1, NEW k \in 1 .. Len(design.instances), NEW a
  PROVE  a \in ArcsMet(k)' <=> a \in ArcsMet(k) \/ Makes(k, a)
<1>0. /\ TypeOK /\ builds = 1 /\ design' = design /\ ArcsBefore /\ i \in Nat \ {0} /\ j \in Nat \ {0}
      /\ k \in Nat /\ Len(design.instances) \in Nat
      /\ \A l : Cell(l)' = Cell(l)
  BY SameBuild, DesignStays, Static, DesignType DEF IInv, GraphInv, BuildInv, ControlOK, CountInv
<1>1. Passed("cell_arcs", k)' <=> Passed("cell_arcs", k) \/ Turn("cell_arcs", k)
  BY PassedNext DEF Loops, Items
<1>2. CASE Passed("cell_arcs", k)
  <2>1. k # i \/ phase # "cell_arcs"
    BY <1>0, <1>2, Numbers DEF Passed, Behind
  <2>2. ~ Makes(k, a)
    BY <2>1, ArcMade DEF Makes
  <2> QED BY <1>0, <1>1, <1>2, <2>2 DEF ArcsMet
<1>3. CASE ~ Passed("cell_arcs", k) /\ phase = "cell_arcs" /\ k = i
  <2>1. ArcsMet(k) = 1 .. j - 1
    BY <1>3 DEF ArcsMet
  <2>2. CASE create_cell_arc
    <3>1. phase' = phase /\ i' = i /\ (j' = j + 1 \/ j' = j)
      BY <2>2, CellArcCreated, Halts
    <3>2. ~ Turn("cell_arcs", k)
      BY <1>0, <3>1 DEF Turn
    <3>3. ArcsMet(k)' = 1 .. j' - 1
      BY <1>1, <1>3, <3>1, <3>2 DEF ArcsMet
    <3> QED BY <1>0, <1>3, <2>1, <2>2, <3>1, <3>3 DEF Makes
  <2>3. CASE created_arcs
    <3>1. /\ phase' = phase /\ i' = i + 1 /\ j' = 1
          /\ i \in 1 .. Len(cells) /\ j > Len(get_arcs(cells[i]))
      BY <2>3 DEF created_arcs, AtItem, NextItem
    <3>2. ArcsMet(k)' = 1 .. Len(Cell(k).arcs)
      BY <1>0, <1>1, <1>3, <3>1 DEF ArcsMet, Turn
    <3>3. get_arcs(cells[i]) = Cell(k).arcs /\ Instance(k).module \in DOMAIN Library
      BY <1>3, <3>1, ThisInstance
    <3>4. Len(Cell(k).arcs) \in Nat
      BY <3>3, CellType
    <3>5. \A b \in 1 .. j - 1 : b <= Len(Cell(k).arcs)
      BY <1>0, <2>1 DEF ArcsBefore
    <3>6. j - 1 <= Len(Cell(k).arcs)
      <4>1. j = 1 \/ j - 1 \in 1 .. j - 1
        BY <1>0
      <4> QED BY <3>4, <3>5, <4>1
    <3>7. j' # j + 1
      BY <1>0, <3>1
    <3> QED BY <1>0, <2>1, <3>1, <3>2, <3>3, <3>4, <3>6, <3>7 DEF Makes
  <2>4. CASE next_loop
    <3>1. i > Len(design.instances)
      BY <1>3, <2>4, HandsOn DEF Loops, Items
    <3> QED BY <1>0, <1>3, <3>1
  <2>5. CASE UNCHANGED vars
    <3>1. UNCHANGED <<phase, i, j, builds>>
      BY <2>5 DEF vars, control
    <3>2. ~ Turn("cell_arcs", k) /\ ~ Makes(k, a)
      BY <1>0, <3>1 DEF Turn, Makes
    <3> QED BY <1>0, <1>1, <1>3, <2>1, <3>1, <3>2 DEF ArcsMet
  <2> QED BY <1>3, <2>2, <2>3, <2>4, <2>5, AtArcs
<1>4. CASE ~ Passed("cell_arcs", k) /\ ~ (phase = "cell_arcs" /\ k = i)
  <2>1. a \notin ArcsMet(k)
    BY <1>4 DEF ArcsMet
  <2>2. ~ Makes(k, a)
    BY <1>4, ArcMade DEF Makes
  <2> QED BY <2>1, <2>2, ArcsNext DEF Makes
<1> QED BY <1>2, <1>3, <1>4

LEMMA PinsFixed ==
  ASSUME IInv, [Next]_vars, LoopNo[phase] >= 6
  PROVE  ThePins' = ThePins /\ pin_type' = pin_type
<1>1. /\ create_primary_inputs => phase = "inputs"
      /\ create_primary_outputs => phase = "outputs"
      /\ create_pins => phase = "pins"
  BY DEF create_primary_inputs, create_primary_outputs, create_primary, create_pins, AtItem
<1>2. pin_type' = pin_type
  BY <1>1, Effects, Numbers
<1> QED BY <1>2 DEF ThePins, Exists

LEMMA AtWires ==
  ASSUME [Next]_vars, phase = "wires"
  PROVE  create_wires \/ next_loop \/ UNCHANGED vars
<1>1. ~ (create_nets \/ create_cells \/ create_pins \/ connected_cell \/ connect_pin \/ create_cell_arc
         \/ created_arcs)
  BY DEF create_nets, create_cells, create_pins, connected_cell, connect_pin, create_cell_arc,
     created_arcs, AtItem
<1>2. ~ (create_primary_inputs \/ create_primary_outputs \/ process_assignment)
  BY DEF create_primary_inputs, create_primary_outputs, create_primary, process_assignment, AtItem
<1>3. ~ (deduce_clock \/ call_deduce_clock \/ build_again)
  BY DEF deduce_clock, call_deduce_clock, build_again, AtItem, Resting
<1> QED BY <1>1, <1>2, <1>3 DEF Next, Step

\* The wire arcs of a net: between its source and a pin as many as there are
\* of the pin among its sinks, and no others.
LEMMA WiresOfNet ==
  ASSUME TypeOK, NEW n \in Names, source[n] # None, NEW p \in PinIds, NEW q \in PinIds, NEW kind
  PROVE  /\ WireArcs(n) \in Seq(Arc)
         /\ kind # "WIRE" \/ source[n] # p => Times(ArcOf(p, q, kind), WireArcs(n)) = 0
         /\ kind = "WIRE" /\ source[n] = p => Times(ArcOf(p, q, kind), WireArcs(n)) = Times(q, sinks[n])
<1> DEFINE m == Len(sinks[n])
           w == WireArcs(n)
           e == ArcOf(p, q, kind)
<1>0. source[n] \in PinIds /\ sinks[n] \in Seq(PinIds) /\ m \in Nat
  BY DEF TypeOK
<1>1. \A k \in 1 .. m : sinks[n][k] \in PinIds
  BY <1>0, ElementOfSeq
<1>2. w = [k \in 1 .. m |-> ArcOf(source[n], sinks[n][k], "WIRE")]
  BY DEF WireArcs, ArcOf
<1>3. \A k \in 1 .. m : ArcOf(source[n], sinks[n][k], "WIRE") \in Arc
  BY <1>0, <1>1 DEF ArcOf, Arc
<1> HIDE DEF w, m, e
<1>4. w \in Seq(Arc) /\ Len(w) = m
  BY <1>0, <1>2, <1>3
<1>5. \A k \in 1 .. m : w[k] = e <=> kind = "WIRE" /\ source[n] = p /\ sinks[n][k] = q
  BY <1>2 DEF e, ArcOf
<1>6. CASE kind # "WIRE" \/ source[n] # p
  BY <1>4, <1>5, <1>6, TimesType DEF w, e
<1>7. CASE kind = "WIRE" /\ source[n] = p
  <2>1. {k \in 1 .. Len(w) : w[k] = e} = {k \in 1 .. Len(sinks[n]) : sinks[n][k] = q}
    BY <1>4, <1>5, <1>7 DEF m
  <2> QED BY <1>4, <1>7, <2>1 DEF Times, w, e
<1> QED BY <1>4, <1>6, <1>7 DEF w

\* One net of the last loop.
LEMMA WiresMade ==
  ASSUME IInv, create_wires
  PROVE  \E n \in nets \ done :
           /\ arcs' = IF source[n] = None THEN arcs ELSE arcs \o WireArcs(n)
           /\ done' = done \cup {n} /\ phase = "wires" /\ UNCHANGED <<phase, source, sinks>>
BY DEF create_wires

LEMMA NextCellArcs ==
  ASSUME IInv, [Next]_vars, builds' = 1
  PROVE  CellArcsMet'
<1> DEFINE M == {x \in CellArcs : x[2] \in ArcsMet(x[1])}
           N == {x \in CellArcs : x[2] \in ArcsMet(x[1])'}
           A(e) == {x \in M : ArcAt(x) = e}
           B(e) == {x \in N : ArcAt(x) = e}
<1>0. /\ TypeOK /\ builds = 1 /\ design' = design /\ CellArcsMet /\ ArcsBefore /\ arcs \in Seq(Arc)
      /\ LoopNo[phase'] >= LoopNo[phase] /\ LoopNo[phase] \in 1 .. 10 /\ LoopNo[phase'] \in 1 .. 10
      /\ next_loop \/ phase' = phase \/ (LoopNo[phase] = 10 /\ LoopNo[phase'] = 10)
  BY SameBuild, DesignStays DEF IInv, GraphInv, CountInv, TypeOK
<1>1. CellArcs' = CellArcs /\ \A x : ArcAt(x)' = ArcAt(x)
  <2>1. \A k : Cell(k)' = Cell(k) /\ Instance(k)' = Instance(k)
    BY <1>0, Static
  <2> QED BY <1>0, <2>1 DEF CellArcs, ArcAt, ArcOf
<1> SUFFICES ASSUME LoopNo[phase'] >= 7 PROVE CellArcsMet'
  BY Numbers DEF CellArcsMet
<1>2. LoopNo[phase] >= 7 \/ (next_loop /\ LoopNo[phase] = 6)
  <2>1. next_loop => LoopNo[phase'] <= LoopNo[phase] + 1
    BY <1>0, HandsOn, Numbers
  <2> QED BY <1>0, <2>1
<1>3. ThePins' = ThePins /\ \A p \in ThePins : p \in PinIds
  BY <1>0, <1>2, PinsFixed DEF ThePins
<1>4. ASSUME NEW x \in CellArcs
      PROVE  /\ x[1] \in 1 .. Len(design.instances) /\ x[2] \in 1 .. Len(Cell(x[1]).arcs)
             /\ x = <<x[1], x[2]>>
             /\ x[2] \in ArcsMet(x[1])' <=> x[2] \in ArcsMet(x[1]) \/ Makes(x[1], x[2])
  <2>1. PICK k \in 1 .. Len(design.instances) : x \in {k} \X (1 .. Len(Cell(k).arcs))
    BY DEF CellArcs
  <2>2. x[1] = k /\ x[2] \in 1 .. Len(Cell(k).arcs) /\ x = <<x[1], x[2]>>
    BY <2>1
  <2>3. PICK a : a = x[2]
    OBVIOUS
  <2>4. a \in ArcsMet(k)' <=> a \in ArcsMet(k) \/ Makes(k, a)
    BY ArcsExact
  <2> QED BY <2>1, <2>2, <2>3, <2>4
<1>7. ASSUME \A p \in ThePins, q \in ThePins, kind \in {"DELAY", "CONSTRAINT"} :
               Times(ArcOf(p, q, kind), arcs') = Cardinality(B(ArcOf(p, q, kind)))
      PROVE  CellArcsMet'
  <2>1. N = {x \in CellArcs : x[2] \in ArcsMet(x[1])}'
    BY <1>1
  <2>2. \A p, q, kind : B(ArcOf(p, q, kind)) =
          {x \in {x \in CellArcs : x[2] \in ArcsMet(x[1])} : ArcAt(x) = ArcOf(p, q, kind)}'
    BY <1>1, <2>1 DEF ArcOf
  <2>3. ASSUME NEW p \in ThePins, NEW q \in ThePins, NEW kind \in {"DELAY", "CONSTRAINT"}
        PROVE  (Times(ArcOf(p, q, kind), arcs) =
                Cardinality({x \in {x \in CellArcs : x[2] \in ArcsMet(x[1])} : ArcAt(x) = ArcOf(p, q, kind)}))'
    <3>1. Times(ArcOf(p, q, kind), arcs)' = Times(ArcOf(p, q, kind), arcs')
      BY DEF Times, ArcOf
    <3> HIDE DEF B, N
    <3> QED BY <1>7, <2>2, <3>1
  <2> HIDE DEF B, N
  <2> QED BY <1>3, <2>3 DEF CellArcsMet
<1>5. CASE LoopNo[phase] = 6
  <2>0. ~ create_cell_arc /\ ~ create_wires
    <3>1. (create_cell_arc => phase = "cell_arcs") /\ (create_wires => phase = "wires")
      BY DEF create_cell_arc, create_wires, AtItem
    <3> QED BY <1>5, <3>1, Numbers
  <2>1. arcs' = << >>
    BY <1>0, <1>5, <2>0, Effects, Numbers DEF ArcsBefore
  <2>2. \A x \in CellArcs : x[2] \notin ArcsMet(x[1])
    <3>1. \A k : ArcsMet(k) = {}
      BY <1>0, <1>5, Numbers DEF ArcsMet, Passed, Behind
    <3> QED BY <3>1
  <2>3. N = {}
    BY <1>4, <2>0, <2>2 DEF Makes
  <2>4. ASSUME NEW e PROVE Times(e, arcs') = 0 /\ Cardinality(B(e)) = 0
    <3>1. B(e) = {}
      BY <2>3
    <3>2. Times(e, arcs') = 0
      BY <2>1, FS_EmptySet DEF Times
    <3> QED BY <3>1, <3>2, FS_EmptySet
  <2>5. \A p \in ThePins, q \in ThePins, kind \in {"DELAY", "CONSTRAINT"} :
          Times(ArcOf(p, q, kind), arcs') = Cardinality(B(ArcOf(p, q, kind)))
    BY <2>4
  <2> QED BY <1>7, <2>5
<1>6. CASE LoopNo[phase] >= 7
  <2>1. ASSUME NEW p \in ThePins, NEW q \in ThePins, NEW kind \in {"DELAY", "CONSTRAINT"}, NEW e,
               e = ArcOf(p, q, kind)
        PROVE  Times(e, arcs') = Cardinality(B(e))
    <3>1. Times(e, arcs) = Cardinality(A(e))
      <4>1. Times(ArcOf(p, q, kind), arcs) = Cardinality(A(ArcOf(p, q, kind)))
        BY <1>0, <1>6, Numbers DEF CellArcsMet
      <4> HIDE DEF A
      <4> QED BY <2>1, <4>1
    <3>2. CASE create_cell_arc /\ j' = j + 1
      <4>1. /\ phase = "cell_arcs" /\ i \in 1 .. Len(design.instances) /\ j \in 1 .. Len(Cell(i).arcs)
            /\ arcs' = Append(arcs, ArcAt(<<i, j>>)) /\ ArcAt(<<i, j>>) \in Arc
        BY <3>2, ArcMade
      <4> DEFINE y == <<i, j>>
      <4>2. y \in CellArcs
        BY <4>1 DEF CellArcs
      <4>3. y \notin M
        <5>1. i \in Nat /\ j \in Nat
          BY DEF IInv, BuildInv, ControlOK
        <5>2. ArcsMet(i) = 1 .. j - 1
          BY <1>0, <4>1, <5>1, Numbers DEF ArcsMet, Passed, Behind
        <5> QED BY <5>1, <5>2
      <4>4. \A x \in CellArcs : Makes(x[1], x[2]) <=> x = y
        BY <1>4, <3>2 DEF Makes
      <4> HIDE DEF y
      <4>5. ArcAt(y) = e => B(e) = A(e) \cup {y} /\ y \notin A(e)
        BY <1>4, <4>2, <4>3, <4>4
      <4>6. ArcAt(y) # e => B(e) = A(e)
        BY <1>4, <4>4
      <4>7. Times(e, arcs') = IF ArcAt(y) = e THEN Times(e, arcs) + 1 ELSE Times(e, arcs)
        BY <1>0, <4>1, TimesAppend DEF y
      <4>8. IsFiniteSet(A(e))
        <5>1. \A k \in 1 .. Len(design.instances) : Instance(k).module \in DOMAIN Library
          BY <1>0, <1>6, Numbers DEF IInv, BuildInv, CellsRight, Passed, Behind
        <5> QED BY <1>0, <5>1, FiniteCellArcs, FS_Subset
      <4> HIDE DEF A, B
      <4> QED BY <3>1, <4>5, <4>6, <4>7, <4>8, FS_AddElement
    <3>3. CASE ~ (create_cell_arc /\ j' = j + 1)
      <4>1. B(e) = A(e)
        BY <1>4, <3>3 DEF Makes
      <4>2. Times(e, arcs') = Times(e, arcs)
        <5>1. CASE create_cell_arc
          BY <3>3, <5>1, CellArcCreated, Halts
        <5>2. CASE create_wires
          <6>1. PICK n \in nets : arcs' = IF source[n] = None THEN arcs ELSE arcs \o WireArcs(n)
            BY <5>2, WiresMade
          <6>2. n \in Names
            BY <1>0 DEF TypeOK
          <6>3. CASE source[n] = None
            BY <6>1, <6>3
          <6>4. CASE source[n] # None
            <7>1. WireArcs(n) \in Seq(Arc) /\ Times(e, WireArcs(n)) = 0
              BY <1>0, <1>3, <2>1, <6>2, <6>4, WiresOfNet
            <7>2. Times(e, arcs') = Times(e, arcs) + Times(e, WireArcs(n))
              BY <1>0, <6>1, <6>4, <7>1, TimesConcat
            <7>3. Times(e, arcs) \in Nat
              BY <1>0, TimesType
            <7> QED BY <7>1, <7>2, <7>3
          <6> QED BY <6>3, <6>4
        <5>3. CASE arcs' = arcs
          BY <5>3
        <5> QED BY <5>1, <5>2, <5>3, Effects
      <4> HIDE DEF A, B
      <4> QED BY <3>1, <4>1, <4>2
    <3> QED BY <3>2, <3>3
  <2>2. \A p \in ThePins, q \in ThePins, kind \in {"DELAY", "CONSTRAINT"} :
          Times(ArcOf(p, q, kind), arcs') = Cardinality(B(ArcOf(p, q, kind)))
    BY <2>1
  <2> QED BY <1>7, <2>2
<1> QED BY <1>2, <1>5, <1>6

LEMMA NextWires ==
  ASSUME IInv, [Next]_vars, builds' = 1
  PROVE  WiresMet'
<1> DEFINE W(x) == ~ Drives(x) /\ (phase = "wires" => NetAt(x) \in done)
           V(x) == ~ Drives(x) /\ (phase' = "wires" => NetAt(x) \in done')
           A(p, q) == {x \in Places : W(x) /\ PinAt(x) = q /\ source[NetAt(x)] = p}
           B(p, q) == {x \in Places : V(x) /\ PinAt(x) = q /\ source[NetAt(x)] = p}
<1>0. /\ TypeOK /\ builds = 1 /\ design' = design /\ WiresMet /\ ArcsBefore /\ SinksMet /\ arcs \in Seq(Arc)
      /\ LoopNo[phase'] >= LoopNo[phase] /\ LoopNo[phase] \in 1 .. 10 /\ LoopNo[phase'] \in 1 .. 10
      /\ next_loop \/ phase' = phase \/ (LoopNo[phase] = 10 /\ LoopNo[phase'] = 10)
      /\ DriversMet /\ phase \in Phases /\ phase' \in Phases
  BY SameBuild, DesignStays, NextControl DEF IInv, GraphInv, BuildInv, CountInv, TypeOK, ControlOK
<1>1. /\ Places' = Places
      /\ \A x : NetAt(x)' = NetAt(x) /\ PinAt(x)' = PinAt(x) /\ Drives(x)' = Drives(x)
  BY <1>0, Static
<1> SUFFICES ASSUME LoopNo[phase'] >= 9 PROVE WiresMet'
  BY Numbers DEF WiresMet
<1>2. LoopNo[phase] >= 9 \/ (next_loop /\ LoopNo[phase] = 8)
  <2>1. next_loop => LoopNo[phase'] <= LoopNo[phase] + 1
    BY <1>0, HandsOn, Numbers
  <2> QED BY <1>0, <2>1
<1>3. ThePins' = ThePins /\ \A p \in ThePins : p \in PinIds /\ p # None
  <2>1. \A p \in PinIds : p # None
    BY NameAssumption
  <2> QED BY <1>0, <1>2, <2>1, PinsFixed DEF ThePins
<1>4. source' = source
  <2>1. /\ create_primary_inputs => phase = "inputs"
        /\ create_primary_outputs => phase = "outputs"
        /\ connect_pin => phase = "connect"
        /\ process_assignment => phase = "assigns"
    BY DEF create_primary_inputs, create_primary_outputs, create_primary, connect_pin,
       process_assignment, AtItem
  <2>2. CASE LoopNo[phase] >= 9
    BY <2>1, <2>2, Effects, Numbers
  <2>3. CASE next_loop
    BY <2>3 DEF next_loop
  <2> QED BY <1>2, <2>2, <2>3
<1>5. ASSUME \A p \in ThePins, q \in ThePins : Times(ArcOf(p, q, "WIRE"), arcs') = Cardinality(B(p, q))
      PROVE  WiresMet'
  <2>1. ASSUME NEW p \in ThePins, NEW q \in ThePins
        PROVE  (Times(ArcOf(p, q, "WIRE"), arcs) =
                Cardinality({x \in {x \in Places : ~ Drives(x) /\ (phase = "wires" => NetAt(x) \in done)} :
                               PinAt(x) = q /\ source[NetAt(x)] = p}))'
    <3>1. Times(ArcOf(p, q, "WIRE"), arcs)' = Times(ArcOf(p, q, "WIRE"), arcs')
      BY DEF Times, ArcOf
    <3>2. B(p, q) = {x \in {x \in Places : ~ Drives(x) /\ (phase = "wires" => NetAt(x) \in done)} :
                       PinAt(x) = q /\ source[NetAt(x)] = p}'
      BY <1>1, <1>4
    <3> HIDE DEF B
    <3> QED BY <1>5, <3>1, <3>2
  <2> HIDE DEF B
  <2> QED BY <1>3, <2>1 DEF WiresMet
<1>6. CASE LoopNo[phase] = 8
  <2>1. next_loop /\ phase # "wires"
    BY <1>2, <1>6, Numbers
  <2>2. phase' = "wires" /\ done' = {} /\ arcs' = arcs
    <3>1. LoopNo[phase'] = 9 /\ done' = {} /\ arcs' = arcs
      BY <1>0, <1>6, <2>1, HandsOn, Numbers DEF next_loop
    <3> QED BY <1>0, <3>1, Numbers DEF Phases
  <2>3. \A k \in 1 .. Len(arcs) : arcs[k].kind # "WIRE"
    BY <1>0, <1>6, Numbers DEF ArcsBefore
  <2>4. ASSUME NEW p, NEW q PROVE Times(ArcOf(p, q, "WIRE"), arcs') = Cardinality(B(p, q))
    <3>1. B(p, q) = {}
      BY <2>2
    <3>2. \A k \in 1 .. Len(arcs) : arcs[k] # ArcOf(p, q, "WIRE")
      BY <2>3 DEF ArcOf
    <3>3. Times(ArcOf(p, q, "WIRE"), arcs) = 0
      BY <1>0, <3>2, TimesType
    <3> QED BY <2>2, <3>1, <3>3, FS_EmptySet
  <2> HIDE DEF B
  <2> QED BY <1>5, <2>4
<1>7. CASE LoopNo[phase] >= 9
  <2>0. ASSUME NEW p \in ThePins, NEW q \in ThePins
        PROVE  Times(ArcOf(p, q, "WIRE"), arcs) = Cardinality(A(p, q)) /\ IsFiniteSet(A(p, q))
    <3>1. A(p, q) = {x \in {x \in Places : W(x)} : PinAt(x) = q /\ source[NetAt(x)] = p}
      OBVIOUS
    <3>2. IsFiniteSet(A(p, q))
      BY <1>0, FinitePlaces, FS_Subset
    <3>3. Times(ArcOf(p, q, "WIRE"), arcs) = Cardinality({x \in {x \in Places : W(x)} : PinAt(x) = q /\ source[NetAt(x)] = p})
      BY <1>0, <1>7, Numbers DEF WiresMet
    <3> QED BY <3>1, <3>2, <3>3
  <2>1. CASE create_wires
    <3>1. PICK n \in nets \ done :
             /\ arcs' = IF source[n] = None THEN arcs ELSE arcs \o WireArcs(n)
             /\ done' = done \cup {n} /\ phase = "wires" /\ phase' = "wires"
      BY <2>1, WiresMade
    <3>2. n \in Names
      BY <1>0 DEF TypeOK
    <3>3. ASSUME NEW p \in ThePins, NEW q \in ThePins
          PROVE  Times(ArcOf(p, q, "WIRE"), arcs') = Cardinality(B(p, q))
      <4>1. p \in PinIds /\ q \in PinIds /\ p # None
        BY <1>3
      <4>2. CASE source[n] = p
        <5> DEFINE M == {x \in Places : ~ Drives(x) /\ PinAt(x) = q /\ NetAt(x) = n}
        <5>1. Times(q, sinks[n]) = Cardinality(M) /\ IsFiniteSet(M)
          <6>1. \A x \in Places : MetNow(x)
            BY <1>7, AllMet, <1>0
          <6>2. M = {x \in {x \in Places : MetNow(x) /\ ~ Drives(x)} : PinAt(x) = q /\ NetAt(x) = n}
            BY <6>1
          <6>3. Times(q, sinks[n]) = Cardinality({x \in {x \in Places : MetNow(x) /\ ~ Drives(x)} : PinAt(x) = q /\ NetAt(x) = n})
            BY <1>0, <3>2, <4>1 DEF SinksMet
          <6>4. IsFiniteSet(M)
            BY <1>0, FinitePlaces, FS_Subset
          <6> QED BY <6>2, <6>3, <6>4
        <5>2. B(p, q) = A(p, q) \cup M /\ A(p, q) \cap M = {}
          BY <3>1, <4>2
        <5>3. WireArcs(n) \in Seq(Arc) /\ Times(ArcOf(p, q, "WIRE"), WireArcs(n)) = Times(q, sinks[n])
          BY <1>0, <3>2, <4>1, <4>2, WiresOfNet
        <5>4. Times(ArcOf(p, q, "WIRE"), arcs') =
                Times(ArcOf(p, q, "WIRE"), arcs) + Times(ArcOf(p, q, "WIRE"), WireArcs(n))
          BY <1>0, <3>1, <4>1, <4>2, <5>3, TimesConcat
        <5>5. Cardinality(A(p, q) \cup M) =
                Cardinality(A(p, q)) + Cardinality(M) - Cardinality(A(p, q) \cap M)
          BY <2>0, <5>1, FS_Union
        <5>6. Cardinality(A(p, q) \cap M) = 0
          BY <5>2, FS_EmptySet
        <5>7. Cardinality(A(p, q)) \in Nat /\ Cardinality(M) \in Nat
          BY <2>0, <5>1, FS_CardinalityType
        <5> HIDE DEF A, B, M
        <5> QED BY <2>0, <5>1, <5>2, <5>3, <5>4, <5>5, <5>6, <5>7
      <4>3. CASE source[n] # p
        <5>1. B(p, q) = A(p, q)
          BY <3>1, <4>3
        <5>2. Times(ArcOf(p, q, "WIRE"), arcs') = Times(ArcOf(p, q, "WIRE"), arcs)
          <6>1. CASE source[n] = None
            BY <3>1, <6>1
          <6>2. CASE source[n] # None
            <7>1. WireArcs(n) \in Seq(Arc) /\ Times(ArcOf(p, q, "WIRE"), WireArcs(n)) = 0
              BY <1>0, <3>2, <4>1, <4>3, <6>2, WiresOfNet
            <7>2. Times(ArcOf(p, q, "WIRE"), arcs') =
                    Times(ArcOf(p, q, "WIRE"), arcs) + Times(ArcOf(p, q, "WIRE"), WireArcs(n))
              BY <1>0, <3>1, <6>2, <7>1, TimesConcat
            <7>3. Times(ArcOf(p, q, "WIRE"), arcs) \in Nat
              BY <1>0, TimesType
            <7> QED BY <7>1, <7>2, <7>3
          <6> QED BY <6>1, <6>2
        <5> HIDE DEF A, B
        <5> QED BY <2>0, <5>1, <5>2
      <4> QED BY <4>2, <4>3
    <3> HIDE DEF B
    <3> QED BY <1>5, <3>3
  <2>2. CASE ~ create_wires
    <3>1. arcs' = arcs
      <4>1. create_cell_arc => phase = "cell_arcs"
        BY DEF create_cell_arc, AtItem
      <4> QED BY <1>7, <2>2, <4>1, Effects, Numbers
    <3>2. \A x \in Places : V(x) <=> W(x)
      <4>1. CASE phase = "wires" /\ next_loop
        <5>1. phase' # "wires" /\ done = nets
          BY <4>1 DEF next_loop, LoopEnds, NextLoop
        <5>2. \A x \in Places : NetAt(x) \in nets
          BY <1>0, <1>7, AllMet DEF DriversMet
        <5> QED BY <5>1, <5>2
      <4>2. CASE phase = "wires" /\ UNCHANGED vars
        BY <4>2 DEF vars, control
      <4>3. CASE phase # "wires"
        <5>1. LoopNo[phase] = 10
          BY <1>0, <1>7, <4>3, Numbers DEF Phases
        <5>2. phase' # "wires"
          BY <1>0, <5>1, Numbers
        <5> QED BY <4>3, <5>2
      <4> QED BY <2>2, <4>1, <4>2, <4>3, AtWires
    <3>3. \A p, q : B(p, q) = A(p, q)
      BY <3>2
    <3> HIDE DEF A, B
    <3> QED BY <1>5, <2>0, <3>1, <3>3
  <2> QED BY <2>1, <2>2
<1> QED BY <1>0, <1>2, <1>6, <1>7

LEMMA NextCount == ASSUME IInv, [Next]_vars PROVE CountInv'
BY NextBefore, NextSinks, NextCellArcs, NextWires DEF CountInv

-----------------------------------------------------------------------------
LEMMA InitBuild == ASSUME Init PROVE IInv
<1>0. GraphInv /\ TypeOK
  BY InitGraph DEF GraphInv
<1>1. /\ phase = "nets" /\ i = 1 /\ j = 1 /\ done = {} /\ builds = 1 /\ error = None
      /\ nets = {} /\ source = [n \in Names |-> None] /\ pin_type = [p \in PinIds |-> None]
  BY DEF Init
<1>2. ControlOK
  BY <1>1 DEF ControlOK, Phases
<1>3. \A loop \in Loops, k \in Nat \ {0} : ~ Behind(loop, k) /\ ~ Passed(loop, k)
  BY <1>1, Numbers DEF Behind, Passed, Loops
<1>4. CellsRight
  <2>1. \A k \in 1 .. Len(design.instances) : k \in Nat \ {0}
    BY <1>0, DesignType
  <2> QED BY <1>1, <1>3, <2>1, Numbers DEF CellsRight, Loops
<1>5. NetsRight
  <2>1. \A k \in 1 .. Len(design.wires) : k \in Nat \ {0}
    BY <1>0, DesignType
  <2> QED BY <1>1, <1>3, <2>1 DEF NetsRight, Loops
<1>6. PinsRight
  <2>1. /\ \A k \in 1 .. Len(design.inputs) : k \in Nat \ {0}
        /\ \A k \in 1 .. Len(design.outputs) : k \in Nat \ {0}
        /\ \A k \in 1 .. Len(design.instances) : k \in Nat \ {0}
    BY <1>0, DesignType
  <2>2. \A n : ~ InputMet(n) /\ ~ OutputMet(n)
    BY <1>3, <2>1 DEF InputMet, OutputMet, Loops
  <2> QED BY <1>1, <1>3, <2>1, <2>2 DEF PinsRight, Loops
<1>7. \A x \in Places : ~ Met(x) /\ ~ MetNow(x)
  <2> SUFFICES ASSUME NEW x \in Places PROVE ~ MetNow(x)
    BY <1>1 DEF Met
  <2>1. x[2] \in Nat \ {0}
    BY <1>0, DesignType, PlaceShape
  <2> QED BY <1>1, <1>3, <2>1 DEF MetNow, Loops
<1>8. DriversMet /\ SourcesMet
  BY <1>1, <1>7 DEF DriversMet, SourcesMet
<1>9. AssignsMet
  <2>1. \A k \in 1 .. Len(design.assignments) : k \in Nat \ {0}
    BY <1>0, DesignType
  <2> QED BY <1>3, <2>1 DEF AssignsMet, Loops
<1>10. PortsMet
  <2>1. \A k \in 1 .. Len(design.instances) : k \in Nat \ {0}
    BY <1>0, DesignType
  <2>2. \A k \in 1 .. Len(design.instances) : ArcsMet(k) = {}
    BY <1>1, <1>3, <2>1 DEF ArcsMet, Loops
  <2> QED BY <2>2 DEF PortsMet
<1>11. ErrorsRight
  BY <1>1 DEF ErrorsRight
<1>12. CountInv
  <2>0. arcs = << >> /\ sinks = [n \in Names |-> << >>]
    BY DEF Init
  <2>1. ArcsBefore
    <3>1. \A k \in 1 .. Len(design.instances) : k \in Nat \ {0}
      BY <1>0, DesignType
    <3>2. \A k \in 1 .. Len(design.instances) : ArcsMet(k) = {}
      BY <1>1, <1>3, <3>1 DEF ArcsMet, Loops
    <3> QED BY <2>0, <3>2 DEF ArcsBefore
  <2>2. SinksMet
    <3>1. {x \in Places : MetNow(x) /\ ~ Drives(x)} = {}
      BY <1>7
    <3>2. ASSUME NEW n \in Names, NEW q \in PinIds
          PROVE  Times(q, sinks[n]) = 0
      <4>1. {k \in 1 .. Len(sinks[n]) : sinks[n][k] = q} = {}
        BY <2>0
      <4> QED BY <4>1, FS_EmptySet DEF Times
    <3>3. ASSUME NEW n \in Names, NEW q \in PinIds
          PROVE  Cardinality({x \in {x \in Places : MetNow(x) /\ ~ Drives(x)} :
                                PinAt(x) = q /\ NetAt(x) = n}) = 0
      <4>1. {x \in {x \in Places : MetNow(x) /\ ~ Drives(x)} : PinAt(x) = q /\ NetAt(x) = n} = {}
        BY <3>1
      <4> QED BY <4>1, FS_EmptySet
    <3> QED BY <3>2, <3>3 DEF SinksMet
  <2>3. CellArcsMet /\ WiresMet
    BY <1>1, Numbers DEF CellArcsMet, WiresMet
  <2> QED BY <2>1, <2>2, <2>3 DEF CountInv
<1> QED BY <1>0, <1>2, <1>4, <1>5, <1>6, <1>8, <1>9, <1>10, <1>11, <1>12 DEF IInv, BuildInv

LEMMA StepBuild == ASSUME IInv, [Next]_vars PROVE IInv'
<1>1. GraphInv'
  BY StepGraph DEF IInv
<1> QED BY <1>1, NextControl, NextCells, NextNets, NextPins, NextDrivers, NextSources, NextAssigns,
           NextPorts, NextErrors, NextCount DEF IInv, BuildInv

\* What the loops have passed is in the graph, and nothing else is, in every
\* state of every build (CircuitBuilder::build_circuit).
THEOREM Inductive == Spec => []IInv
<1>1. Init => IInv
  BY InitBuild
<1>2. IInv /\ [Next]_vars => IInv'
  BY StepBuild
<1> QED BY <1>1, <1>2, PTL DEF Spec

-----------------------------------------------------------------------------
\* A circuit that is built is that of a netlist that is well formed.
LEMMA BuiltIsWellFormed ==
  ASSUME IInv, Built, builds = 1
  PROVE  WellFormed
<1>0. /\ TypeOK /\ CellsRight /\ NetsRight /\ DriversMet /\ AssignsMet /\ PortsMet
      /\ LoopNo[phase] = 10
  BY Numbers DEF IInv, GraphInv, BuildInv, Built
<1>1. \A loop \in Loops : \A k : Passed(loop, k)
  BY <1>0, Numbers DEF Passed, Behind, Loops
<1>2. \A x \in Places : Met(x) /\ NetAt(x) \in Names
  BY <1>0, AllMet, PlaceShape
<1>3. \A n \in nets : IsIn(n, design.wires)
  BY <1>0 DEF NetsRight, IsIn, TypeOK
<1>4. ModulesKnown
  BY <1>0, <1>1 DEF ModulesKnown, CellsRight, Loops
<1>5. PortsExist
  <2>1. \A k \in 1 .. Len(design.instances) : ArcsMet(k) = 1 .. Len(Cell(k).arcs)
    BY <1>1 DEF ArcsMet, Loops
  <2> QED BY <1>0, <2>1 DEF PortsExist, PortsMet
<1>6. NetsDeclared
  <2>1. \A k \in 1 .. Len(design.assignments) :
          design.assignments[k].lhs \in nets /\ design.assignments[k].rhs \in nets
    BY <1>0, <1>1 DEF AssignsMet, Loops
  <2> QED BY <1>0, <1>2, <1>3, <2>1 DEF NetsDeclared, DriversMet
<1>7. OneDriver
  BY <1>0, <1>2 DEF OneDriver, DriversMet
<1>8. AssignmentsInOrder
  BY <1>0, <1>1 DEF AssignmentsInOrder, AssignsMet, Loops
<1> QED BY <1>4, <1>5, <1>6, <1>7, <1>8 DEF WellFormed

\* For every netlist and library, in whatever order the hash tables are walked:
\* build_circuit ends in a circuit only if the netlist is well formed, and in
\* an assertion only if it is not.
THEOREM RefusalIsRight == Spec => []RefusesIllFormed
<1>1. IInv => RefusesIllFormed
  BY BuiltIsWellFormed DEF RefusesIllFormed, IInv, BuildInv, ErrorsRight
<1> QED BY <1>1, Inductive, PTL

\* For every netlist: a second build_circuit on one CircuitBuilder passes only
\* where no net has a driver, so no wire is ever doubled.
THEOREM RebuildIsRefused == Spec => []RebuildStops
<1>1. ASSUME IInv, Built, builds = 2, NEW n \in nets PROVE source[n] = None
  <2>1. TypeOK /\ DriversMet /\ SourcesMet /\ LoopNo[phase] = 10
    BY <1>1, Numbers DEF IInv, GraphInv, BuildInv, Built
  <2>2. \A x \in Places : ~ Drives(x)
    BY <1>1, <2>1, AllMet DEF DriversMet
  <2> QED BY <2>1, <2>2 DEF SourcesMet, TypeOK
<1>2. IInv => RebuildStops
  BY <1>1 DEF RebuildStops
<1> QED BY <1>2, Inductive, PTL

\* A circuit that is built has on each net the source the netlist gives it,
\* through any chain of assignments, and none where it gives none.
LEMMA SourcesAreRight ==
  ASSUME IInv, Built, builds = 1
  PROVE  SourcesRight
<1>0. /\ TypeOK /\ DriversMet /\ SourcesMet /\ AssignsMet /\ LoopNo[phase] = 10
      /\ Len(design.assignments) \in Nat
  BY Numbers, DesignType DEF IInv, GraphInv, BuildInv, Built
<1>1. \A k : Passed("assigns", k)
  BY <1>0, Numbers DEF Passed, Behind
<1>2. \A x \in Places : Met(x)
  BY <1>0, AllMet
<1>3. ASSUME NEW n \in nets, NEW x \in Drivers(n) PROVE source[n] = PinAt(x)
  BY <1>0, <1>2 DEF Drivers, DriversMet
<1>4. \A k \in 1 .. Len(design.assignments) :
        source[design.assignments[k].lhs] = source[design.assignments[k].rhs]
  BY <1>0, <1>1 DEF AssignsMet
<1>5. ASSUME NEW n \in nets, Drivers(n) = {}, ~ Assigned(n, Len(design.assignments) + 1)
      PROVE  source[n] = None
  <2>1. \A k \in 1 .. Len(design.assignments) : design.assignments[k].lhs # n
    BY <1>0, <1>5 DEF Assigned
  <2>2. \A x \in Places : Drives(x) => NetAt(x) # n
    BY <1>5 DEF Drivers
  <2> QED BY <1>0, <2>1, <2>2 DEF SourcesMet, TypeOK
<1> QED BY <1>3, <1>4, <1>5 DEF SourcesRight

\* It has the arcs of its cells and, from the source of each net to its
\* loads, the wires, and no other arc.
LEMMA ArcsAreRight ==
  ASSUME IInv, Built, builds = 1
  PROVE  WiresRight /\ CellArcsRight
<1>0. /\ TypeOK /\ CellArcsMet /\ WiresMet /\ LoopNo[phase] = 10 /\ phase # "wires"
  BY Numbers DEF IInv, GraphInv, CountInv, Built
<1>1. WiresRight
  <2>1. {x \in Places : ~ Drives(x) /\ (phase = "wires" => NetAt(x) \in done)} = {x \in Places : ~ Drives(x)}
    BY <1>0
  <2> QED BY <1>0, <2>1, Numbers DEF WiresMet, WiresRight
<1>2. CellArcsRight
  <2>1. \A k : ArcsMet(k) = 1 .. Len(Cell(k).arcs)
    BY <1>0, Numbers DEF ArcsMet, Passed, Behind
  <2>2. \A x \in CellArcs : x[2] \in ArcsMet(x[1])
    BY <2>1 DEF CellArcs
  <2>3. {x \in CellArcs : x[2] \in ArcsMet(x[1])} = CellArcs
    BY <2>2
  <2> DEFINE M == {x \in CellArcs : x[2] \in ArcsMet(x[1])}
  <2>4. \A p \in ThePins, q \in ThePins, kind \in {"DELAY", "CONSTRAINT"} :
          Times(ArcOf(p, q, kind), arcs) = Cardinality({x \in M : ArcAt(x) = ArcOf(p, q, kind)})
    <3>1. LoopNo[phase] >= LoopNo["cell_arcs"]
      BY <1>0, Numbers
    <3> QED BY <1>0, <3>1, Zenon DEF CellArcsMet
  <2>5. M = CellArcs
    BY <2>3
  <2> HIDE DEF M
  <2> QED BY <2>4, <2>5 DEF CellArcsRight
<1> QED BY <1>1, <1>2

\* For every netlist and library, whatever the order of the hash tables: the
\* circuit that build_circuit makes is the one the netlist describes - the
\* driver of every net, and between any two pins as many arcs of each kind as
\* the netlist and the cells have.
THEOREM CircuitIsNetlist == Spec => []BuildsNetlist
<1>1. IInv => BuildsNetlist
  BY SourcesAreRight, ArcsAreRight DEF BuildsNetlist
<1> QED BY <1>1, Inductive, PTL
=============================================================================
