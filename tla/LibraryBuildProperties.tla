------------------------ MODULE LibraryBuildProperties ------------------------
(***************************************************************************)
(* What linking a Liberty file promises, told from the nesting of its      *)
(* groups alone: only PointersAtHome looks at the builder's pointers.      *)
(***************************************************************************)
EXTENDS LibraryBuild, LibraryObjects, FiniteSets

Groups == DOMAIN file.groups
GroupStmts(g) == {i \in DOMAIN Stmts(g) : Stmts(g)[i].kind = "group"}
Parent(g) == Group(g).parent
\* The groups around g, g among them.
Around == LET up[g \in Groups] == IF g = 1 THEN {1} ELSE {g} \cup up[Parent(g)] IN up
Is(g, names) == Group(g).name \in names
BuiltGroups ==
  {g \in Groups : \A p \in Around[g] \ {1} : Is(p, Supported) /\ (Is(p, {"cell"}) => isNeedBuild(p))}
CellAround(g) == CHOOSE p \in Around[g] : Is(p, {"cell"})
ArcAround(g) == CHOOSE p \in Around[g] : Is(p, {"timing", "internal_power"})
InBus(g) == Is(g, {"pin"}) /\ Is(Parent(g), {"bus", "bundle"})

\* The object that stands for a group, if there is one: a pin of no ports has none.
Portless(g) == Is(g, {"pin"}) /\ ~InBus(g) /\ Group(g).names = << >>
Home(g) == CASE InBus(g) -> <<Parent(g), 1>>
             [] Portless(g) -> None
             [] Is(g, {"pin"}) /\ ~InBus(g) /\ ~Portless(g) -> <<g, Len(Group(g).names)>>
             [] OTHER -> <<g, 1>>

-----------------------------------------------------------------------------
NoPorts == builder.port = None /\ builder.port_bus = None
Objects == {"wire_load", "lu_table_template", "power_lut_template", "type",
            "output_current_template", "vector"} \cup DelayTables \cup PowerTables

\* An open group finds itself in the builder.
AtHome(g, top) ==
  /\ Is(g, {"library"}) => (top => NoPorts)
  /\ Is(g, {"cell"}) => builder.cell = <<g, 1>> /\ (top => NoPorts)
  /\ Is(g, Objects) => builder.obj = <<g, 1>>
  /\ (~Is(g, {"library", "cell", "pin", "bus", "bundle"})
       /\ Is(Parent(g), {"library", "cell"})) => NoPorts
  /\ Is(g, {"leakage_power"}) =>
       builder.leakage_power = <<g, 1>> /\ builder.own_pg_or_when_type = "leakage_power"
  /\ Is(g, {"bus", "bundle"}) =>
       builder.port_bus = <<g, 1>> /\ builder.port \in {None, <<g, 1>>}
  /\ Is(g, {"pin"}) /\ ~InBus(g) => builder.port = Home(g) /\ builder.port_bus = None
  /\ Is(g, {"timing"}) => builder.arc = <<g, 1>> /\ builder.own_port_type = "arc"
  /\ Is(g, {"internal_power"}) =>
       /\ builder.power_arc = <<g, 1>> /\ builder.own_port_type = "power_arc"
       /\ builder.own_pg_or_when_type = "power_arc"

\* How deep a group of a name may be.
Level ==
  [name \in Supported \cup {"library"} |->
     CASE name = "library" -> 0 [] name = "cell" -> 1 [] name \in {"bus", "bundle"} -> 2
       [] name = "pin" -> 3 [] name \in {"timing", "internal_power"} -> 4
       [] name \in CurrentTables -> 5 [] OTHER -> 6]
Frame == [g : Nat, left : SUBSET Nat]
FrameOK(k) ==
  LET g == stack[k].g IN
  /\ g \in Groups
  /\ stack[k].left \subseteq Left(g)
  /\ k = 1 => g = 1
  /\ k > 1 => /\ Is(g, Supported) /\ Parent(g) = stack[k - 1].g
              /\ <<Group(g).name, Group(stack[k - 1].g).name>> \in Nesting
  /\ \A j \in 1 .. k - 1 : Level[Group(stack[j].g).name] < Level[Group(g).name]
TypeOK ==
  /\ DOMAIN builder = DOMAIN LibBuilder
  /\ stack \in Seq(Frame)
  /\ \A k \in 1 .. Len(stack) : FrameOK(k)
\* While a group is open the builder's pointers for it point at its own object: a
\* pin not in a bus is the current port, the bus is for its pins, no port is
\* current outside pins and buses, and the arc, the leakage power or the object
\* that attributes go to is that of the group.  Handlers of groups set the pointers
\* on entering and only some of them reset what they set.
PointersAtHome ==
  error = None => \A k \in 1 .. Len(stack) : AtHome(stack[k].g, k = Len(stack))
IInv == TypeOK /\ PointersAtHome

\* Whatever attribute a step sets while a group is open is one of the library or
\* of the object that stands for that group, but for a condition in a timing group
\* (see WhenStaysWithItsGroup).
\* Handlers write through whichever pointer is there, not through the group.
Strays == Of(Statement) = "own_power_if_any" /\ Is(Top.g, {"timing"})
AttributesGoHome ==
  [][(At("simple") \/ At("complex")) /\ ~Strays =>
       \A k \in DOMAIN attrs' : (k \in DOMAIN attrs /\ attrs'[k] = attrs[k])
                                \/ k[1] = Library \/ k[1] = Home(Top.g)]_vars

-----------------------------------------------------------------------------
\* A statement and what it is expected to write.
IsWriting(g, i) ==
  /\ i \in Left(g) /\ IsSimple(g, i)
  /\ Stmts(g)[i].attr \in DOMAIN Attributes
  /\ Takes(Stmts(g)[i])
SimpleStmts ==
  UNION {{<<g, i>> : i \in {j \in DOMAIN Stmts(g) : IsWriting(g, j)}} : g \in BuiltGroups}
Owner(g, s) == IF Attributes[s.attr].of = "lib" THEN Library ELSE Home(g)
Writes(p) ==
  LET s == Stmts(p[1])[p[2]]
  IN  {<<Owner(p[1], s), at[1], at[2]>> : at \in Attributes[s.attr].at}
After(p, q) == p[1] > q[1] \/ (p[1] = q[1] /\ p[2] > q[2])
\* The unit statement counts for what comes after it at the level of the library.
Branch(g) == IF g = 1 THEN 0
             ELSE CHOOSE i \in GroupStmts(1) : Stmts(1)[i].group \in Around[g]
SaysPf(i) ==
  /\ Stmts(1)[i].kind = "complex" /\ Stmts(1)[i].attr = "capacitive_load_unit"
  /\ Stmts(1)[i].key = "1" /\ Stmts(1)[i].val = "pf"
UnitAt(g) ==
  IF \E i \in DOMAIN Stmts(1) : i < Branch(g) /\ SaysPf(i) THEN "pf" ELSE "ff"
ExpectedUnit(g, s) == IF Attributes[s.attr].unit = "cap" THEN UnitAt(g)
                      ELSE Attributes[s.attr].unit
\* A condition inside a timing group has no place in the objects.
Conditions == {<<f, "">> : f \in {"when", "related_pg_port"}}
Expected == {p \in SimpleStmts : Attributes[Stmts(p[1])[p[2]].attr].at \cap Conditions = {}}
\* What nothing but these statements sets.
Settable ==
  (UNION {Attributes[a].at : a \in DOMAIN Attributes})
    \ (Conditions \cup {<<"port_type", "">>}
          \cup {<<"port_caps", e>> : e \in {"max rise", "min rise", "max fall", "min fall"}})

\* Every simple attribute of a file that was linked is found at the object of the
\* group it stands in (a pin of a bus: at the bus), as its last statement says and
\* in the unit in force there, and no object has an attribute its group does not
\* give it.  Conditions are left to WhenStaysWithItsGroup.
\* visitSimpleAttri follows whatever pointer the builder holds at that moment.
AttributesReachOwners ==
  Done =>
    LET keys == UNION {Writes(p) : p \in Expected}
    IN  /\ \A k \in keys : \E p \in Expected :
             LET s == Stmts(p[1])[p[2]] IN
             /\ k \in Writes(p)
             /\ \A q \in Expected : k \in Writes(q) => ~After(q, p)
             /\ k \in DOMAIN attrs
             /\ k[2] \notin {"bus_type", "port_caps"} => attrs[k].val = Meaning(s)
             /\ k[2] # "port_caps" => attrs[k].unit = ExpectedUnit(p[1], s)
        /\ \A k \in DOMAIN attrs : <<k[2], k[3]>> \in Settable => k \in keys

\* The condition of a power record is the one its own group states.
\* LibBuilder keeps a flag that says whether a leakage power or a power arc owns
\* the next `when'; visitTiming does not touch it.
WhenStaysWithItsGroup ==
  Done => \A o \in DOMAIN kinds :
            kinds[o] \in {"leakage_power", "power_arc"} /\ Attr(o, "when") # "unset" =>
              \E i \in DOMAIN Stmts(o[1]) :
                /\ Stmts(o[1])[i].kind = "simple" /\ Stmts(o[1])[i].attr = "when"
                /\ Stmts(o[1])[i].val = Attr(o, "when")

-----------------------------------------------------------------------------
GroupsOf(names, p) == {g \in BuiltGroups : Is(g, names) /\ p \in Around[g]}
\* An arc is in one set of its cell, with the arcs that agree with it and no others.
InArcSets(cell, c, arcs, compared) ==
  LET sets == Held(cell, c, "")
      of(n) == {Held(sets[n], "arcs", "")[k] : k \in DOMAIN Held(sets[n], "arcs", "")}
      agree(a, b) == \A f \in compared : Attr(a, f) = Attr(b, f)
  IN  /\ arcs = UNION {of(n) : n \in DOMAIN sets}
      /\ \A m, n \in DOMAIN sets : \A a \in of(m), b \in of(n) : (m = n) <=> agree(a, b)
TablesHeld(a, names) ==
  LET tables == {g \in BuiltGroups : Is(g, names) /\ ArcAround(g) = a[1]}
      last == {g \in tables : \A h \in tables :
                 Place[Group(g).name] = Place[Group(h).name] => h <= g}
      model == <<a[1], 0>>
  IN  tables # {} => \A g \in last : Held(model, "tables", Place[Group(g).name]) = <<<<g, 1>>>>

\* What is set and held is what the classes have room for.  An arc set has no
\* group of its own.
ClassOfObject(o) ==
  IF o \in DOMAIN kinds THEN kinds[o]
  ELSE IF kinds[<<o[1], 1>>] = "arc" THEN "arc set" ELSE "power arc set"
OfItsClass ==
  /\ \A k \in DOMAIN attrs : <<k[2], k[3]>> \in Classes[ClassOfObject(k[1])].fields
  /\ \A k \in DOMAIN members :
       k[2] # "axes" =>
         /\ k[2] \in DOMAIN Classes[ClassOfObject(k[1])].holds
         /\ \A n \in DOMAIN members[k] :
              ClassOfObject(members[k][n]) \in Classes[ClassOfObject(k[1])].holds[k[2]]

\* When a file is linked the library holds its cells in their order, each cell its
\* own ports, buses, leakage powers and arcs and those of no other cell, arcs
\* that agree in ends and type share a set, and of several tables for one place
\* the last is kept.  Objects reach their owners on leaving a group, through the
\* pointers of the builder.
Holds(o, c, groups) ==
  /\ {Held(o, c, "")[n] : n \in DOMAIN Held(o, c, "")} = {<<g, 1>> : g \in groups}
  /\ \A m, n \in DOMAIN Held(o, c, "") : m < n => Held(o, c, "")[m][1] < Held(o, c, "")[n][1]
PartsReachOwners ==
  Done =>
    /\ OfItsClass
    /\ Holds(Library, "cells", GroupsOf({"cell"}, 1))
    /\ \A g \in GroupsOf({"cell"}, 1) :
         LET c == <<g, 1>> IN
         /\ Holds(c, "cell_port_buses", GroupsOf({"bus", "bundle"}, g))
         /\ Holds(c, "leakage_power_list", GroupsOf({"leakage_power"}, g))
         /\ InArcSets(c, "cell_arcs", {<<h, 1>> : h \in GroupsOf({"timing"}, g)},
                      {"src_port", "snk_port", "timing_type"})
         /\ InArcSets(c, "cell_power_arcs",
                      {<<h, 1>> : h \in {k \in GroupsOf({"internal_power"}, g) :
                                           ~IsPortPower(<<k, 1>>)}},
                      {"src_port", "snk_port"})
         /\ \A h \in GroupsOf({"pin"}, g) :
              LET owner == IF InBus(h) THEN Home(h) ELSE c
                  held == Held(owner, IF InBus(h) THEN "ports" ELSE "cell_ports", "")
              IN  \A o \in Ports(h) : Cardinality({n \in DOMAIN held : held[n] = o}) = 1
         /\ \A h \in GroupsOf({"internal_power"}, g) : IsPortPower(<<h, 1>>) =>
              \E n \in DOMAIN Held(Home(Parent(h)), "internal_powers", "") :
                Held(Home(Parent(h)), "internal_powers", "")[n] = <<h, 1>>
         /\ \A h \in GroupsOf({"timing"}, g) :
              /\ TablesHeld(<<h, 1>>, DelayTables)
              /\ Attr(<<h, 1>>, "snk_port") = Name(Home(Parent(h)))
         /\ \A h \in GroupsOf({"internal_power"}, g) : TablesHeld(<<h, 1>>, PowerTables)

-----------------------------------------------------------------------------
\* What is in a file that linking cannot get past.
HasStmt(g, kind, attr) == \E i \in Left(g) : Stmts(g)[i].kind = kind /\ Stmts(g)[i].attr = attr
LateRange(g, i) ==
  /\ Stmts(g)[i].kind = "complex" /\ Stmts(g)[i].attr \in DOMAIN Ranges
  /\ \/ InBus(g) /\ \E h \in GroupsOf({"pin"}, Parent(g)) : h < g
     \/ /\ Is(g, {"bus", "bundle"})
        /\ \E j \in GroupStmts(g) : j < i /\ Is(Stmts(g)[j].group, {"pin"})
RangeInBus(g) ==
  \* a range of capacitances in a bus or a pin of it, after a pin of that bus
  \E i \in Left(g) : LateRange(g, i)
CurrentWithoutDelay(g) ==
  \* an output current whose arc has no delay table before it
  /\ Is(g, CurrentTables)
  /\ \/ isCheckArc(<<ArcAround(g), 1>>)
     \/ ~\E h \in GroupsOf(DelayTables, ArcAround(g)) : h < g
SlewInCheck(g) ==
  Is(g, {"rise_transition", "fall_transition"}) /\ isCheckArc(<<ArcAround(g), 1>>)
UnknownTemplate(g) ==
  /\ Is(g, {"vector"})
  /\ ~\E h \in GroupsOf({"lu_table_template", "power_lut_template", "output_current_template"}, 1) :
       h < g /\ Group(h).names[1] = Group(g).names[1]
UnsetFlag(g) ==
  \* a condition before any group that may own one
  /\ HasStmt(g, "simple", "when")
  /\ ~\E h \in GroupsOf({"leakage_power", "internal_power"}, 1) : h <= g
PinWithoutPort(g) ==
  \* a pin of no ports that says anything of its port
  /\ Portless(g)
  /\ \E i \in Left(g) :
       \/ Of(Stmts(g)[i]) \in {"port", "port_or_wire_load"}
       \/ Stmts(g)[i].kind = "group" /\ Is(Stmts(g)[i].group, {"timing"})
Unread(g) ==
  \* a value, or the name of a group, that its handler cannot read
  (g = 1 /\ Nameless(g)) \/ \E i \in Left(g) : Flawed(Stmts(g)[i])
Fatal(g) ==
  \/ RangeInBus(g) \/ CurrentWithoutDelay(g) \/ SlewInCheck(g) \/ UnknownTemplate(g)
  \/ PinWithoutPort(g) \/ Unread(g)

\* Linking stops only at a file with a fault: a value a handler cannot read, a
\* group without its name, a pin of no ports, a range in a bus after a pin, an
\* output current without a delay model, a slew in a check, an unknown template, or
\* a condition under a flag that was never set; and all but the last stop it.
\* A long sequence of legal groups leads to a null pointer here.
StopsForCause ==
  /\ error # None => \E g \in BuiltGroups : Fatal(g) \/ UnsetFlag(g)
  /\ Done => ~\E g \in BuiltGroups : Fatal(g)
=============================================================================
