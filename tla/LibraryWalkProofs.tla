-------------------------- MODULE LibraryWalkProofs --------------------------
(***************************************************************************)
(* For any Liberty file: linking stops for a fault of the file, and at     *)
(* every fault; and each simple attribute is found where it belongs.  The  *)
(* proof follows the walk: groups are entered in the order of their        *)
(* numbers, what the builder knows of a group is what the groups entered   *)
(* before it left there, and what is set is what the statements taken say. *)
(***************************************************************************)
EXTENDS LibraryBuildProofs

Frames == {stack[k] : k \in 1 .. Len(stack)}
Open(g) == \E f \in Frames : f.g = g
IsGroupStmt(g, i, h) == Stmts(g)[i].kind = "group" /\ Stmts(g)[i].group = h
\* A group that was entered has an object; of a pin of no ports one can tell only
\* that its parent has, and waits no longer for it.
NoObject(g) == Is(g, {"pin"}) /\ Group(g).names = << >>
Waits(g) == \E f \in Frames : \E i \in f.left : IsGroupStmt(f.g, i, g)
Seen(g) ==
  /\ g \in BuiltGroups
  /\ IF NoObject(g) THEN <<Parent(g), 1>> \in DOMAIN kinds /\ ~Waits(g)
     ELSE <<g, 1>> \in DOMAIN kinds
Children(names, p) == {h \in BuiltGroups : Is(h, names) /\ Parent(h) = p}
LutTemplates == {"lu_table_template", "power_lut_template", "output_current_template"}

PowerGroups == {"leakage_power", "internal_power"}

\* The walk enters the groups that are built in their order: what was not entered
\* comes after what was, and its statement is left if its parent is open.
Started == kinds # << >> => Seen(1)
OnlyBuilt == \A o \in DOMAIN kinds : o[1] \in BuiltGroups
InOrder == \A h, g \in BuiltGroups : Seen(h) /\ ~Seen(g) => h < g
Increasing == \A j, k \in 1 .. Len(stack) : j < k => stack[j].g < stack[k].g
OpenSeen == \A f \in Frames : Seen(f.g)
StillLeft ==
  \A g \in BuiltGroups \ {1} : ~Seen(g) /\ Seen(Parent(g)) =>
    \E f \in Frames : f.g = Parent(g) /\ \E i \in f.left : IsGroupStmt(f.g, i, g)
NotYet == \A f \in Frames : \A i \in f.left : \A g \in BuiltGroups : IsGroupStmt(f.g, i, g) => ~Seen(g)
SimpleFirst ==
  \A f \in Frames : \A i \in f.left : \A j \in Left(f.g) \ f.left :
    ~IsSimple(f.g, j) => ~IsSimple(f.g, i) /\ j < i
Inside == \A f \in Frames : \A h \in BuiltGroups : Seen(h) /\ f.g < h => f.g <= Parent(h)
WalkOK ==
  /\ Started /\ OnlyBuilt /\ InOrder /\ Increasing
  /\ OpenSeen /\ StillLeft /\ NotYet /\ SimpleFirst /\ Inside

\* The class of an object that attributes may go to.
ObjectClass == [name \in Objects |->
            CASE name = "wire_load" -> "wire_load"
              [] name \in {"lu_table_template", "power_lut_template"} -> "lut_template"
              [] name = "output_current_template" -> "current_template"
              [] name = "type" -> "type"
              [] name = "vector" -> "vector"
              [] OTHER -> "table"]
KindsByName == \A g \in BuiltGroups : Seen(g) /\ Is(g, Objects) => kinds[<<g, 1>>] = ObjectClass[Group(g).name]

FlagOK ==
  /\ builder.own_pg_or_when_type \in {"unset", "leakage_power", "power_arc"}
  /\ builder.own_pg_or_when_type = "unset" =>
       ~\E g \in BuiltGroups : Is(g, PowerGroups) /\ Seen(g)
  /\ builder.own_pg_or_when_type = "leakage_power" => builder.leakage_power # None

\* The model of the open arc came with its first delay table.
SeenTables(a) == {h \in Children(DelayTables, a) : Seen(h)}
ModelOK ==
  \A f \in Frames : Is(f.g, {"timing"}) =>
    IF SeenTables(f.g) = {} THEN builder.table_model = None
    ELSE /\ builder.table_model = <<f.g, 0>> /\ <<f.g, 0>> \in DOMAIN kinds
         /\ kinds[<<f.g, 0>>] = IF isCheckArc(<<f.g, 1>>) THEN "check_model" ELSE "delay_model"

\* The bus is the current port until a pin of it was left.
LeftPins(b) == {h \in Children({"pin"}, b) : Seen(h) /\ ~Open(h)}
BusOK == \A f \in Frames : Is(f.g, {"bus", "bundle"}) => (builder.port = None <=> LeftPins(f.g) # {})

HeldTemplates == Held(Library, "lut_templates", "")
TemplatesOK ==
  /\ HeldTemplates \in Seq(BuiltGroups \X {1})
  /\ \A n \in DOMAIN HeldTemplates : Seen(HeldTemplates[n][1]) /\ Is(HeldTemplates[n][1], LutTemplates)
  /\ \A g \in BuiltGroups : Is(g, LutTemplates) /\ Seen(g) /\ ~Open(g) =>
       \E n \in DOMAIN HeldTemplates : HeldTemplates[n] = <<g, 1>>

\* The faults of a file, in the words of parents.
Late(g, i) ==
  /\ Stmts(g)[i].kind = "complex" /\ Stmts(g)[i].attr \in DOMAIN Ranges
  /\ \/ InBus(g) /\ \E h \in Children({"pin"}, Parent(g)) : h < g
     \/ /\ Is(g, {"bus", "bundle"})
        /\ \E j \in GroupStmts(g) : j < i /\ Is(Stmts(g)[j].group, {"pin"})
NoDelay(g) ==
  /\ Is(g, CurrentTables)
  /\ isCheckArc(<<Parent(g), 1>>) \/ ~\E h \in Children(DelayTables, Parent(g)) : h < g
Slew(g) == Is(g, {"rise_transition", "fall_transition"}) /\ isCheckArc(<<Parent(g), 1>>)
Unknown(g) ==
  /\ Is(g, {"vector"})
  /\ ~\E h \in BuiltGroups : Is(h, LutTemplates) /\ h < g /\ Group(h).names[1] = Group(g).names[1]
Unset(g) ==
  HasStmt(g, "simple", "when") /\ ~\E h \in BuiltGroups : Is(h, PowerGroups) /\ h <= g
\* A statement that cannot be read, or that is for the port of a pin of no ports.
Broken(g, i) ==
  \/ Flawed(Stmts(g)[i])
  \/ /\ Portless(g)
     /\ \/ Of(Stmts(g)[i]) \in {"port", "port_or_wire_load"}
        \/ Stmts(g)[i].kind = "group" /\ Is(Stmts(g)[i].group, {"timing"})
Blocks(g, i) == Late(g, i) \/ Broken(g, i)
NoName(g) == g = 1 /\ Nameless(g)
Cause(g) ==
  (\E i \in Left(g) : Blocks(g, i)) \/ NoName(g) \/ NoDelay(g) \/ Slew(g) \/ Unknown(g) \/ Unset(g)

\* A fault that was not met yet is still ahead.
BlocksAhead ==
  \A g \in BuiltGroups : \A i \in Left(g) : Seen(g) /\ Blocks(g, i) =>
    \E f \in Frames : f.g = g /\ i \in f.left
CurrentsAhead == \A g \in BuiltGroups : Seen(g) /\ NoDelay(g) => Open(g)
TablesAhead == \A g \in BuiltGroups : Seen(g) => ~Slew(g) /\ ~Unknown(g) /\ ~NoName(g)

Invariants ==
  /\ WalkOK /\ KindsByName /\ FlagOK /\ ModelOK /\ BusOK /\ TemplatesOK
  /\ BlocksAhead /\ CurrentsAhead /\ TablesAhead
Walking == error = None => Invariants
HasCause == error # None => \E g \in BuiltGroups : Cause(g)

-----------------------------------------------------------------------------
(***************************************************************************)
(* What a file says of its groups.                                         *)
(***************************************************************************)
LEMMA Numbered ==
  ASSUME file \in LibFiles
  PROVE  /\ Groups \subseteq Nat \ {0} /\ 1 \in Groups /\ Parent(1) = 0
         /\ \A g \in Groups \ {1} :
              /\ Parent(g) \in Groups /\ Parent(g) < g
              /\ \E i \in DOMAIN Stmts(Parent(g)) : IsGroupStmt(Parent(g), i, g)
              /\ \A h \in Groups : Parent(g) < h /\ h < g => Parent(g) <= Parent(h)
         /\ \A g \in Groups : /\ DOMAIN Stmts(g) \subseteq Nat
                              /\ \A i, j \in DOMAIN Stmts(g) :
                                   i < j /\ Stmts(g)[i].kind = "group" /\ Stmts(g)[j].kind = "group" =>
                                     Stmts(g)[i].group < Stmts(g)[j].group
<1>1. IsLibertyFile(file)
  BY FileAssumption
<1>2. /\ 1 \in DOMAIN file.groups /\ DOMAIN file.groups \subseteq Nat \ {0}
      /\ IsNumbered(file.groups)
      /\ \A g \in DOMAIN file.groups : DOMAIN file.groups[g].stmts \subseteq Nat
  BY <1>1 DEF IsLibertyFile
<1> QED BY <1>2 DEF IsNumbered, Groups, Group, Parent, Stmts, IsGroupStmt, Is

\* The groups around a group, as a set that every set closed under parents has.
LEMMA AroundIs ==
  ASSUME file \in LibFiles
  PROVE  /\ Around[1] = {1}
         /\ \A g \in Groups \ {1} : Around[g] = {g} \cup Around[Parent(g)]
<1> DEFINE Closed(S) == \A x \in S \ {1} : Parent(x) \in S
           up == [g \in Groups |->
                    {p \in Groups : \A S \in SUBSET Groups : g \in S /\ Closed(S) => p \in S}]
           step == [g \in Groups |-> IF g = 1 THEN {1} ELSE {g} \cup up[Parent(g)]]
<1>1. up[1] = {1}
  <2>1. {1} \in SUBSET Groups /\ Closed({1}) /\ 1 \in Groups
    BY Numbered
  <2> QED BY <2>1
<1>2. ASSUME NEW g \in Groups \ {1} PROVE up[g] = {g} \cup up[Parent(g)]
  <2>1. Parent(g) \in Groups
    BY Numbered
  <2>2. ASSUME NEW p \in up[Parent(g)], NEW S \in SUBSET Groups, g \in S, Closed(S) PROVE p \in S
    <3>1. Parent(g) \in S
      BY <2>2
    <3> QED BY <2>1, <2>2, <3>1
  <2>3. ASSUME NEW p \in up[g], p # g, NEW S \in SUBSET Groups, Parent(g) \in S, Closed(S)
        PROVE  p \in S
    <3>1. S \cup {g} \in SUBSET Groups /\ g \in S \cup {g} /\ Closed(S \cup {g})
      BY <2>3
    <3> HIDE DEF Closed
    <3>2. p \in S \cup {g}
      BY <2>3, <3>1
    <3> QED BY <2>3, <3>2
  <2>4. g \in up[g] /\ up[g] \subseteq Groups /\ up[Parent(g)] \subseteq Groups
    BY <2>1
  <2>5. \A p \in up[Parent(g)] : p \in up[g]
    BY <2>1, <2>2
  <2>6. \A p \in up[g] : p # g => p \in up[Parent(g)]
    BY <2>1, <2>3
  <2> QED BY <2>4, <2>5, <2>6
<1>3. up = step
  BY <1>1, <1>2, Numbered
<1> HIDE DEF up
<1>4. up = [g \in Groups |-> IF g = 1 THEN {1} ELSE {g} \cup up[Parent(g)]]
  BY <1>3
<1>5. Around = [g \in Groups |-> IF g = 1 THEN {1} ELSE {g} \cup Around[Parent(g)]]
  BY <1>4 DEF Around
<1> QED BY <1>5, Numbered

LEMMA BuiltIs ==
  ASSUME file \in LibFiles
  PROVE  /\ BuiltGroups \subseteq Groups /\ 1 \in BuiltGroups
         /\ \A g \in Groups \ {1} : g \in BuiltGroups <=>
              /\ Parent(g) \in BuiltGroups /\ Is(g, Supported)
              /\ Is(g, {"cell"}) => isNeedBuild(g)
<1> DEFINE Fine(p) == Is(p, Supported) /\ (Is(p, {"cell"}) => isNeedBuild(p))
<1>1. BuiltGroups = {g \in Groups : \A p \in Around[g] \ {1} : Fine(p)}
  BY DEF BuiltGroups
<1> HIDE DEF Fine
<1>2. Around[1] = {1} /\ 1 \in Groups
  BY AroundIs, Numbered
<1>3. ASSUME NEW g \in Groups \ {1}
      PROVE  g \in BuiltGroups <=> Parent(g) \in BuiltGroups /\ Fine(g)
  <2>1. Around[g] = {g} \cup Around[Parent(g)] /\ Parent(g) \in Groups
    BY AroundIs, Numbered
  <2> QED BY <1>1, <2>1
<1> QED BY <1>1, <1>2, <1>3 DEF Fine

\* A group that is built is nested in a group that is.
LEMMA BuiltNest ==
  ASSUME file \in LibFiles
  PROVE  /\ \A g \in BuiltGroups : Group(g).name \in Supported \cup {"library"}
         /\ \A g \in BuiltGroups \ {1} :
              /\ g \in Groups /\ Parent(g) \in BuiltGroups /\ Parent(g) < g
              /\ <<Group(g).name, Group(Parent(g)).name>> \in Nesting
              /\ Is(g, Supported)
<1>1. ASSUME NEW g \in BuiltGroups PROVE Group(g).name \in Supported \cup {"library"}
  BY BuiltIs, GroupsOfFile DEF Is
<1>2. ASSUME NEW g \in BuiltGroups \ {1}
      PROVE  <<Group(g).name, Group(Parent(g)).name>> \in Nesting
  <2>1. PICK p : p = Parent(g)
    OBVIOUS
  <2>2. p \in BuiltGroups /\ p \in Groups /\ Is(g, Supported) /\ g \in Groups
    BY <2>1, BuiltIs
  <2>3. PICK i \in DOMAIN Stmts(p) : IsGroupStmt(p, i, g)
    BY <2>1, <2>2, Numbered
  <2>4. IsStatement(file, p, Stmts(p)[i]) /\ Group(p).name \in Supported \cup {"library"}
    BY <1>1, <2>2, <2>3, GroupsOfFile
  <2> QED BY <2>1, <2>2, <2>3, <2>4 DEF IsStatement, IsGroupStmt, Groups, Group, Parent, Is
<1> QED BY <1>1, <1>2, BuiltIs, Numbered

\* The groups around a group that is built.
OutwardOK(g) ==
  /\ 1 \in Around[g]
  /\ \A p \in Around[g] : /\ p \in BuiltGroups
                          /\ p = g \/ Level[Group(p).name] < Level[Group(g).name]
LEMMA Outward ==
  ASSUME file \in LibFiles, NEW g \in BuiltGroups PROVE OutwardOK(g)
<1> DEFINE Bad == {h \in BuiltGroups : ~OutwardOK(h)}
<1>1. SUFFICES ASSUME Bad # {} PROVE FALSE
  OBVIOUS
<1>2. BuiltGroups \subseteq Nat
  BY BuiltIs, GroupsOfFile
<1>3. PICK m \in Bad : \A y \in Bad : ~ (<<y, m>> \in OpToRel(<, Nat))
  BY <1>1, <1>2, NatLessThanWellFounded, WFMin
<1>4. ASSUME NEW y \in BuiltGroups, y < m PROVE OutwardOK(y)
  <2>1. <<y, m>> \in Nat \X Nat /\ <<y, m>>[1] < <<y, m>>[2]
    BY <1>2, <1>4
  <2>2. <<y, m>> \in OpToRel(<, Nat)
    BY <2>1, Zenon DEF OpToRel
  <2> QED BY <1>3, <2>2
<1>5. m # 1
  <2>1. OutwardOK(1)
    BY AroundIs, BuiltIs DEF OutwardOK
  <2> QED BY <1>3, <2>1
<1>6. PICK p : p = Parent(m)
  OBVIOUS
<1>7. /\ p \in BuiltGroups /\ p < m /\ Around[m] = {m} \cup Around[p]
      /\ Level[Group(p).name] < Level[Group(m).name]
      /\ Group(p).name \in Supported \cup {"library"} /\ Group(m).name \in Supported \cup {"library"}
  BY <1>3, <1>5, <1>6, BuiltNest, BuiltIs, AroundIs, Deeper
<1>8. OutwardOK(p)
  BY <1>4, <1>7
<1>9. ASSUME NEW q \in Around[p] PROVE q \in BuiltGroups /\ Level[Group(q).name] < Level[Group(m).name]
  <2>1. q \in BuiltGroups /\ (q = p \/ Level[Group(q).name] < Level[Group(p).name])
    BY <1>8 DEF OutwardOK
  <2>2. Group(q).name \in Supported \cup {"library"}
    BY <2>1, BuiltNest
  <2>3. \A a \in Supported \cup {"library"} : Level[a] \in 0 .. 6
    BY LevelIsNat
  <2> QED BY <1>7, <2>1, <2>2, <2>3
<1>10. OutwardOK(m)
  BY <1>3, <1>7, <1>8, <1>9 DEF OutwardOK
<1> QED BY <1>3, <1>10

\* What the groups around one say in the words of parents.
LEMMA GroupsOfIs ==
  ASSUME file \in LibFiles
  PROVE  /\ \A names : GroupsOf(names, 1) = {g \in BuiltGroups : Is(g, names)}
         /\ \A b \in BuiltGroups : Is(b, {"bus", "bundle"}) =>
              GroupsOf({"pin"}, b) = Children({"pin"}, b)
         /\ \A a \in BuiltGroups : Is(a, {"timing"}) =>
              GroupsOf(DelayTables, a) = Children(DelayTables, a)
         /\ \A g \in BuiltGroups : Is(g, DelayTables \cup CurrentTables) =>
              /\ ArcAround(g) = Parent(g) /\ Is(Parent(g), {"timing"})
              /\ Parent(g) \in BuiltGroups
<1>1. \A g \in BuiltGroups : OutwardOK(g)
  BY Outward
<1>2. \A names : GroupsOf(names, 1) = {g \in BuiltGroups : Is(g, names)}
  BY <1>1 DEF GroupsOf, OutwardOK
<1>3. ASSUME NEW g \in BuiltGroups, NEW p \in Around[g], p # g, NEW q, q = Parent(g)
      PROVE  /\ g # 1 /\ p \in BuiltGroups /\ Group(p).name \in Supported \cup {"library"}
             /\ p = q \/ Level[Group(p).name] < Level[Group(q).name]
             /\ <<Group(g).name, Group(q).name>> \in Nesting /\ q \in BuiltGroups
             /\ q \in Around[g]
  <2>1. g # 1
    BY <1>3, AroundIs
  <2>2. /\ Around[g] = {g} \cup Around[q] /\ q \in BuiltGroups
        /\ <<Group(g).name, Group(q).name>> \in Nesting
    BY <1>3, <2>1, AroundIs, BuiltIs, BuiltNest
  <2>3. p \in Around[q] /\ OutwardOK(q)
    BY <1>1, <1>3, <2>2
  <2>4. q \in Around[q]
    BY <2>2, AroundIs, BuiltIs
  <2> QED BY <2>1, <2>2, <2>3, <2>4, BuiltNest DEF OutwardOK
<1>4. ASSUME NEW g \in BuiltGroups \ {1} PROVE Parent(g) \in Around[g]
  <2>1. Around[g] = {g} \cup Around[Parent(g)] /\ Parent(g) \in Around[Parent(g)]
    BY AroundIs, BuiltIs, Numbered
  <2> QED BY <2>1
<1>5. ASSUME NEW b \in BuiltGroups, Is(b, {"bus", "bundle"})
      PROVE  GroupsOf({"pin"}, b) = Children({"pin"}, b)
  <2>1. ASSUME NEW g \in BuiltGroups, Is(g, {"pin"}), b \in Around[g] PROVE Parent(g) = b
    <3>1. PICK q : q = Parent(g)
      OBVIOUS
    <3>2. b # g
      BY <1>5, <2>1 DEF Is
    <3>3. /\ b = q \/ Level[Group(b).name] < Level[Group(q).name]
          /\ <<Group(g).name, Group(q).name>> \in Nesting
      BY <1>3, <2>1, <3>1, <3>2
    <3>4. Group(q).name \in {"cell", "bus", "bundle"}
      BY <2>1, <3>3, ParentOf DEF Is
    <3> QED BY <1>5, <3>1, <3>3, <3>4, Levels DEF Is
  <2>2. ASSUME NEW g \in BuiltGroups, Is(g, {"pin"}), Parent(g) = b PROVE b \in Around[g]
    <3>1. g # 1
      BY <2>2, GroupsOfFile DEF Is
    <3> QED BY <1>4, <2>2, <3>1
  <2> QED BY <2>1, <2>2 DEF GroupsOf, Children
<1>6. ASSUME NEW g \in BuiltGroups, Is(g, DelayTables \cup CurrentTables)
      PROVE  /\ g # 1 /\ Parent(g) \in BuiltGroups /\ Is(Parent(g), {"timing"})
             /\ ~Is(g, {"timing", "internal_power"})
  <2>1. g # 1
    BY <1>6, GroupsOfFile DEF Is, DelayTables, CurrentTables
  <2>2. <<Group(g).name, Group(Parent(g)).name>> \in Nesting
    BY <1>6, <2>1, BuiltNest
  <2>3. Group(Parent(g)).name = "timing"
    BY <1>6, <2>2, ParentOf DEF Is
  <2> QED BY <1>6, <2>1, <2>3, BuiltNest DEF Is, DelayTables, CurrentTables
<1>7. ASSUME NEW g \in BuiltGroups, Is(g, DelayTables \cup CurrentTables),
             NEW a \in Around[g], Is(a, {"timing", "internal_power"})
      PROVE  a = Parent(g)
  <2>1. PICK q : q = Parent(g)
    OBVIOUS
  <2>2. a # g /\ Is(q, {"timing"})
    BY <1>6, <1>7, <2>1
  <2>3. a = q \/ Level[Group(a).name] < Level[Group(q).name]
    BY <1>3, <1>7, <2>1, <2>2
  <2> QED BY <1>7, <2>1, <2>2, <2>3, Levels DEF Is
<1>8. ASSUME NEW a \in BuiltGroups, Is(a, {"timing"})
      PROVE  GroupsOf(DelayTables, a) = Children(DelayTables, a)
  <2>1. ASSUME NEW g \in BuiltGroups, Is(g, DelayTables), a \in Around[g] PROVE Parent(g) = a
    BY <1>7, <1>8, <2>1 DEF Is
  <2>2. ASSUME NEW g \in BuiltGroups, Is(g, DelayTables), Parent(g) = a PROVE a \in Around[g]
    BY <1>4, <1>6, <2>2 DEF Is
  <2> QED BY <2>1, <2>2 DEF GroupsOf, Children
<1>9. ASSUME NEW g \in BuiltGroups, Is(g, DelayTables \cup CurrentTables)
      PROVE  ArcAround(g) = Parent(g)
  <2>1. Parent(g) \in Around[g] /\ Is(Parent(g), {"timing", "internal_power"})
    BY <1>4, <1>6, <1>9 DEF Is
  <2> QED BY <1>7, <1>9, <2>1 DEF ArcAround
<1> QED BY <1>2, <1>5, <1>6, <1>8, <1>9

-----------------------------------------------------------------------------
(***************************************************************************)
(* The open groups, as frames.                                             *)
(***************************************************************************)
Rest == [Top EXCEPT !.left = @ \ {Current}]

LEMMA OpenFrames ==
  ASSUME file \in LibFiles, TypeOK, stack # << >>, Increasing
  PROVE  /\ Top \in Frames /\ Top.g \in Groups
         /\ \A f \in Frames :
              /\ f.g \in Groups /\ f.g \in Nat /\ f.left \subseteq Left(f.g) /\ f \in Frame
              /\ Group(f.g).name \in Supported \cup {"library"}
              /\ f = Top \/ (f.g < Top.g /\ Level[Group(f.g).name] < Level[Group(Top.g).name])
              /\ f.g # 1 => Open(Parent(f.g))
         /\ \A f, e \in Frames : f.g = e.g \/ Level[Group(f.g).name] = Level[Group(e.g).name] => f = e
<1>0. PICK n : n = Len(stack)
  OBVIOUS
<1>1. /\ n \in Nat \ {0} /\ n \in 1 .. n /\ Top = stack[n]
      /\ \A k \in 1 .. n : /\ stack[k] \in Frame /\ stack[k].g \in Groups
                           /\ Group(stack[k].g).name \in Supported \cup {"library"}
                           /\ FrameOK(k)
  BY <1>0, TopGroup DEF TypeOK
<1>2. Groups \subseteq Nat
  BY GroupsOfFile
<1>3. \A j, k \in 1 .. n :
        j < k => stack[j].g < stack[k].g /\ Level[Group(stack[j].g).name] < Level[Group(stack[k].g).name]
  <2> SUFFICES ASSUME NEW j \in 1 .. n, NEW k \in 1 .. n, j < k
               PROVE  /\ stack[j].g < stack[k].g
                      /\ Level[Group(stack[j].g).name] < Level[Group(stack[k].g).name]
    OBVIOUS
  <2>1. j \in 1 .. k - 1 /\ FrameOK(k)
    BY <1>1
  <2> QED BY <1>0, <2>1 DEF Increasing, FrameOK
<1>4. ASSUME NEW k \in 1 .. n, stack[k].g # 1
      PROVE  k > 1 /\ k - 1 \in 1 .. n /\ Parent(stack[k].g) = stack[k - 1].g
  <2>1. FrameOK(k)
    BY <1>1
  <2>2. k # 1
    BY <1>4, <2>1 DEF FrameOK
  <2>3. k > 1 /\ k - 1 \in 1 .. n
    BY <1>1, <2>2
  <2> QED BY <2>1, <2>3 DEF FrameOK
<1>5. \A f : f \in Frames <=> \E k \in 1 .. n : f = stack[k]
  BY <1>0 DEF Frames
<1>6. ASSUME NEW f \in Frames, f.g # 1 PROVE Open(Parent(f.g))
  <2>1. PICK k \in 1 .. n : f = stack[k]
    BY <1>5
  <2>2. stack[k - 1] \in Frames /\ stack[k - 1].g = Parent(f.g)
    BY <1>4, <1>5, <1>6, <2>1
  <2> QED BY <2>2 DEF Open
<1>7. ASSUME NEW f \in Frames
      PROVE  /\ f.g \in Groups /\ f.g \in Nat /\ f.left \subseteq Left(f.g) /\ f \in Frame
             /\ Group(f.g).name \in Supported \cup {"library"}
             /\ f = Top \/ (f.g < Top.g /\ Level[Group(f.g).name] < Level[Group(Top.g).name])
  <2>1. PICK k \in 1 .. n : f = stack[k]
    BY <1>5
  <2>2. k = n \/ k < n
    BY <1>1
  <2> QED BY <1>1, <1>2, <1>3, <2>1, <2>2 DEF FrameOK
<1>8. ASSUME NEW f \in Frames, NEW e \in Frames,
             f.g = e.g \/ Level[Group(f.g).name] = Level[Group(e.g).name]
      PROVE  f = e
  <2>1. PICK j \in 1 .. n, k \in 1 .. n : f = stack[j] /\ e = stack[k]
    BY <1>5
  <2>2. /\ f.g \in Nat /\ e.g \in Nat
        /\ Level[Group(f.g).name] \in 0 .. 6 /\ Level[Group(e.g).name] \in 0 .. 6
    BY <1>7, LevelIsNat
  <2>3. ~(j < k) /\ ~(k < j)
    BY <1>3, <1>8, <2>1, <2>2
  <2> QED BY <1>1, <2>1, <2>3
<1> QED BY <1>1, <1>5, <1>6, <1>7, <1>8

\* The frames after a step.
LEMMA AdvancedIs ==
  ASSUME file \in LibFiles, TypeOK, stack # << >>, NEW n, n = Len(stack)
  PROVE  /\ n \in Nat \ {0} /\ Top = stack[n] /\ Len(Advanced) = n /\ Advanced \in Seq(Frame)
         /\ Rest \in Frame /\ Rest.g = Top.g /\ Rest.left = Top.left \ {Current}
         /\ \A k \in 1 .. n : Advanced[k] = IF k = n THEN Rest ELSE stack[k]
<1>1. stack \in Seq(Frame) /\ n \in Nat \ {0} /\ n \in 1 .. n /\ stack[n] \in Frame /\ Top = stack[n]
  BY TopGroup DEF TypeOK
<1>2. /\ Rest \in Frame /\ Rest.g = Top.g /\ Rest.left = Top.left \ {Current}
      /\ Rest = [stack[n] EXCEPT !.left = @ \ {Current}]
  <2>1. Top \in [g : Nat, left : SUBSET Nat]
    BY <1>1 DEF Frame
  <2>2. /\ Rest \in [g : Nat, left : SUBSET Nat]
        /\ Rest.g = Top.g /\ Rest.left = Top.left \ {Current}
    BY <2>1 DEF Rest
  <2> QED BY <1>1, <2>2 DEF Frame, Rest
<1>3. Advanced = [stack EXCEPT ![n] = Rest]
  BY <1>1, <1>2 DEF Advanced
<1> HIDE DEF Rest
<1> QED BY <1>1, <1>2, <1>3, ExceptSeq

LEMMA FramesAfterAdvancing ==
  ASSUME file \in LibFiles, TypeOK, stack # << >>, Increasing, stack' = Advanced
  PROVE  /\ Frames' = (Frames \ {Top}) \cup {Rest} /\ Increasing'
<1>0. PICK n : n = Len(stack)
  OBVIOUS
<1>1. /\ n \in Nat \ {0} /\ Top = stack[n] /\ Len(stack') = n
      /\ \A k \in 1 .. n : stack'[k] = IF k = n THEN Rest ELSE stack[k]
  BY <1>0, AdvancedIs
<1>2. Rest.g = stack[n].g
  BY <1>0, <1>1, AdvancedIs
<1>3. Increasing'
  BY <1>0, <1>1, <1>2 DEF Increasing
<1>4. \A k \in 1 .. n : k # n => stack[k] # Top
  <2> SUFFICES ASSUME NEW k \in 1 .. n, k # n, stack[k] = stack[n] PROVE FALSE
    BY <1>1
  <2>1. stack[k].g < stack[n].g /\ stack[n].g \in Nat
    BY <1>0, <1>1, OpenFrames DEF Increasing
  <2> QED BY <2>1
<1>5. ASSUME NEW f PROVE f \in Frames' <=> f \in (Frames \ {Top}) \cup {Rest}
  BY <1>0, <1>1, <1>4 DEF Frames
<1> QED BY <1>3, <1>5

LEMMA FramesAfterEntering ==
  ASSUME file \in LibFiles, TypeOK, stack # << >>, Increasing, NEW v \in Groups, Enters(v),
         \A f \in Frames : f.g < v
  PROVE  /\ Frames' = (Frames \ {Top}) \cup {Rest, [g |-> v, left |-> Left(v)]} /\ Increasing'
         /\ stack' # << >> /\ Top'.g = v
<1>0. PICK n : n = Len(stack)
  OBVIOUS
<1> DEFINE frame == [g |-> v, left |-> Left(v)]
<1>1. /\ n \in Nat \ {0} /\ Top = stack[n] /\ Len(Advanced) = n /\ Advanced \in Seq(Frame)
      /\ \A k \in 1 .. n : Advanced[k] = IF k = n THEN Rest ELSE stack[k]
  BY <1>0, AdvancedIs
<1>2. frame \in Frame /\ frame.g = v
  BY GroupsOfFile DEF Frame, Left
<1>3. stack' = Append(Advanced, frame)
  BY DEF Enters
<1> HIDE DEF frame
<1>4. /\ Len(stack') = n + 1 /\ stack'[n + 1] = frame /\ stack' \in Seq(Frame)
      /\ \A k \in 1 .. n : stack'[k] = IF k = n THEN Rest ELSE stack[k]
  BY <1>1, <1>2, <1>3, AppendProperties
<1>5. Rest.g = stack[n].g
  BY <1>0, <1>1, AdvancedIs
<1>6. \A k \in 1 .. n : stack[k] \in Frames
  BY <1>0 DEF Frames
<1>7. Increasing'
  <2> SUFFICES ASSUME NEW j \in 1 .. n + 1, NEW k \in 1 .. n + 1, j < k PROVE stack'[j].g < stack'[k].g
    BY <1>4 DEF Increasing
  <2>1. j \in 1 .. n /\ stack'[j].g = stack[j].g /\ stack[j].g < v
    BY <1>1, <1>4, <1>5, <1>6
  <2>2. CASE k = n + 1
    BY <1>2, <1>4, <2>1, <2>2
  <2>3. CASE k # n + 1
    <3>1. k \in 1 .. n /\ stack'[k].g = stack[k].g
      BY <1>1, <1>4, <1>5, <2>3
    <3> QED BY <1>0, <2>1, <3>1 DEF Increasing
  <2> QED BY <2>2, <2>3
<1>8. \A k \in 1 .. n : k # n => stack[k] # Top
  <2> SUFFICES ASSUME NEW k \in 1 .. n, k # n, stack[k] = stack[n] PROVE FALSE
    BY <1>1
  <2>1. stack[k].g < stack[n].g /\ stack[n].g \in Nat
    BY <1>0, <1>1, OpenFrames DEF Increasing
  <2> QED BY <2>1
<1>9. ASSUME NEW f PROVE f \in Frames' <=> f \in (Frames \ {Top}) \cup {Rest, frame}
  <2>1. f \in Frames' <=> \E k \in 1 .. n + 1 : f = stack'[k]
    BY <1>4 DEF Frames
  <2>2. (\E k \in 1 .. n + 1 : f = stack'[k]) <=> f = frame \/ \E k \in 1 .. n : f = stack'[k]
    BY <1>1, <1>4
  <2>3. (\E k \in 1 .. n : f = stack'[k]) <=> f = Rest \/ \E k \in 1 .. n : k # n /\ f = stack[k]
    BY <1>1, <1>4
  <2>4. (\E k \in 1 .. n : k # n /\ f = stack[k]) <=> f \in Frames \ {Top}
    BY <1>0, <1>1, <1>8 DEF Frames
  <2> QED BY <2>1, <2>2, <2>3, <2>4
<1>10. Top' = frame /\ stack' # << >>
  BY <1>1, <1>4, EmptySeq DEF Top
<1> QED BY <1>2, <1>7, <1>9, <1>10 DEF frame

LEMMA FramesAfterLeaving ==
  ASSUME file \in LibFiles, TypeOK, Increasing, NEW names, Leaves(names)
  PROVE  Frames' = Frames \ {Top} /\ Increasing'
<1>0. PICK n : n = Len(stack)
  OBVIOUS
<1>1. stack # << >> /\ stack' = SubSeq(stack, 1, n - 1) /\ stack \in Seq(Frame)
  BY <1>0 DEF Leaves, Popped, TypeOK
<1>2. n \in Nat \ {0} /\ Top = stack[n]
  BY <1>0, <1>1, TopGroup
<1>3. /\ Len(stack') = n - 1 /\ \A k \in 1 .. n - 1 : stack'[k] = stack[k]
  <2>1. PICK m \in Nat : m = n - 1
    BY <1>2
  <2>2. 1 \in Int /\ m \in Int /\ \A k \in 1 .. m : stack[k] \in Frame
    BY <1>0, <1>1, <1>2, <2>1, TopGroup
  <2>3. /\ Len(SubSeq(stack, 1, m)) = IF 1 <= m THEN m - 1 + 1 ELSE 0
        /\ \A k \in 1 .. m - 1 + 1 : SubSeq(stack, 1, m)[k] = stack[1 + k - 1]
    BY <2>2, SubSeqProperties
  <2>4. m - 1 + 1 = m /\ \A k \in 1 .. m : 1 + k - 1 = k
    BY <2>1
  <2> QED BY <1>1, <2>1, <2>3, <2>4
<1>4. Increasing'
  BY <1>0, <1>2, <1>3 DEF Increasing
<1>5. \A k \in 1 .. n - 1 : stack[k] # Top
  <2> SUFFICES ASSUME NEW k \in 1 .. n - 1, stack[k] = stack[n] PROVE FALSE
    BY <1>2
  <2>1. k \in 1 .. n /\ n \in 1 .. n /\ k < n
    BY <1>2
  <2>2. stack[k].g < stack[n].g /\ stack[n].g \in Nat
    BY <1>0, <1>1, <1>2, <2>1, OpenFrames DEF Increasing
  <2> QED BY <2>2
<1>6. ASSUME NEW f PROVE f \in Frames' <=> f \in Frames \ {Top}
  <2>1. f \in Frames' <=> \E k \in 1 .. n - 1 : f = stack[k]
    BY <1>3 DEF Frames
  <2>2. f \in Frames <=> f = Top \/ \E k \in 1 .. n - 1 : f = stack[k]
    BY <1>0, <1>2 DEF Frames
  <2> QED BY <1>5, <2>1, <2>2
<1> QED BY <1>4, <1>6

-----------------------------------------------------------------------------
(***************************************************************************)
(* What stays while the file does.                                         *)
(***************************************************************************)
LEMMA FileStays ==
  ASSUME UNCHANGED file
  PROVE  /\ BuiltGroups' = BuiltGroups /\ Groups' = Groups
         /\ \A g : Group(g)' = Group(g) /\ Parent(g)' = Parent(g) /\ Stmts(g)' = Stmts(g)
         /\ \A g : Left(g)' = Left(g) /\ InBus(g)' = InBus(g) /\ GroupStmts(g)' = GroupStmts(g)
         /\ \A g, names : Is(g, names)' = Is(g, names)
         /\ \A g, i : IsSimple(g, i)' = IsSimple(g, i)
         /\ \A names, p : Children(names, p)' = Children(names, p)
         /\ \A g : NoObject(g)' = NoObject(g)
         /\ \A g, i, h : IsGroupStmt(g, i, h)' = IsGroupStmt(g, i, h)
<1>1. Around' = Around
  BY DEF Around, Groups, Parent, Group
<1>2. BuiltGroups' = BuiltGroups
  BY <1>1 DEF BuiltGroups, Groups, Is, Group, isNeedBuild
<1> QED BY <1>2
        DEF Groups, Group, Parent, Stmts, Left, InBus, GroupStmts, Is, IsSimple, Children,
            NoObject, IsGroupStmt

-----------------------------------------------------------------------------
(***************************************************************************)
(* The walk: one group after the other, in the order of their numbers.     *)
(***************************************************************************)
LEMMA CurrentIs ==
  ASSUME file \in LibFiles, TypeOK, stack # << >>, Top.left # {}
  PROVE  /\ Current \in Top.left /\ Current \in Left(Top.g) /\ Top.left \subseteq Nat
         /\ Left(Top.g) \subseteq DOMAIN Stmts(Top.g)
         /\ IsSimple(Top.g, Current) \/ \A i \in Top.left : ~IsSimple(Top.g, i) /\ Current <= i
<1>1. Top.left \subseteq Left(Top.g) /\ Top.g \in Groups
  BY TopGroup
<1>2. Left(Top.g) \subseteq DOMAIN Stmts(Top.g) /\ DOMAIN Stmts(Top.g) \subseteq Nat
  BY <1>1, GroupsOfFile DEF Left
<1> DEFINE simple == {i \in Top.left : IsSimple(Top.g, i)}
<1>3. PICK these : these = IF simple = {} THEN Top.left ELSE simple
  OBVIOUS
<1>4. these # {} /\ these \subseteq Top.left /\ these \subseteq Nat
  BY <1>1, <1>2, <1>3
<1>5. Current = Least(these)
  BY <1>3 DEF Current
<1>6. Current \in these /\ \A i \in these : Current <= i
  BY <1>4, <1>5, LeastIsOne
<1> QED BY <1>1, <1>2, <1>3, <1>4, <1>6

\* A statement of a group that is built tells the parent of its group.
LEMMA StatementTells ==
  ASSUME file \in LibFiles, NEW g \in BuiltGroups, NEW i \in DOMAIN Stmts(g), NEW h,
         IsGroupStmt(g, i, h)
  PROVE  /\ h \in Groups /\ Parent(h) = g /\ h # 1 /\ g < h
         /\ i \in Left(g) /\ ~IsSimple(g, i)
         /\ \A j \in DOMAIN Stmts(g) : IsGroupStmt(g, j, h) => j = i
         /\ \A j \in DOMAIN Stmts(g) : \A k : IsGroupStmt(g, j, k) /\ i < j => h < k
<1>1. g \in Groups /\ Group(g).name \in Supported \cup {"library"}
  BY BuiltIs, BuiltNest
<1>2. IsStatement(file, g, Stmts(g)[i]) /\ Stmts(g)[i].kind = "group" /\ Stmts(g)[i].group = h
  BY <1>1, GroupsOfFile DEF IsGroupStmt
<1>3. h \in Groups /\ Parent(h) = g
  BY <1>1, <1>2 DEF IsStatement, Groups, Group, Parent
<1>4. h # 1 /\ g < h
  BY <1>1, <1>3, Numbered
<1>5. i \in Left(g) /\ ~IsSimple(g, i)
  BY <1>2 DEF Left, IsSimple
<1>6. \A j, k \in DOMAIN Stmts(g) :
        j < k /\ Stmts(g)[j].kind = "group" /\ Stmts(g)[k].kind = "group" =>
          Stmts(g)[j].group < Stmts(g)[k].group
  BY <1>1, Numbered
<1>7. ASSUME NEW j \in DOMAIN Stmts(g), IsGroupStmt(g, j, h) PROVE j = i
  <2>1. i \in Nat /\ j \in Nat /\ h \in Nat
    BY <1>1, <1>3, GroupsOfFile
  <2>2. ~(i < j) /\ ~(j < i)
    BY <1>2, <1>6, <1>7, <2>1 DEF IsGroupStmt
  <2> QED BY <2>1, <2>2
<1>8. ASSUME NEW j \in DOMAIN Stmts(g), NEW k, IsGroupStmt(g, j, k), i < j PROVE h < k
  BY <1>2, <1>6, <1>8 DEF IsGroupStmt
<1> QED BY <1>3, <1>4, <1>5, <1>7, <1>8

\* The group the walk enters is the first of those that are left.
NextIs(v) ==
  /\ stack # << >> /\ v \in BuiltGroups \ {1} /\ Parent(v) = Top.g
  /\ Current \in Top.left /\ Top.left \subseteq DOMAIN Stmts(Top.g) /\ IsGroupStmt(Top.g, Current, v)
  /\ \A i \in Top.left : ~IsSimple(Top.g, i) /\ Current <= i
  /\ ~Broken(Top.g, Current)

LEMMA OpenIsBuilt ==
  ASSUME OnlyBuilt, OpenSeen
  PROVE  \A f \in Frames : f.g \in BuiltGroups /\ Seen(f.g)
  BY DEF OpenSeen, Seen

\* A pin of no ports is in a cell or a bus, which have objects.
LEMMA NoObjectIs ==
  ASSUME file \in LibFiles, NEW g \in BuiltGroups, NoObject(g)
  PROVE  /\ g # 1 /\ g \in Groups /\ Parent(g) \in BuiltGroups /\ ~NoObject(Parent(g))
         /\ Parent(g) < g /\ Is(Parent(g), {"cell", "bus", "bundle"})
<1>1. g # 1
  BY GroupsOfFile DEF NoObject, Is
<1>2. /\ g \in Groups /\ Parent(g) \in BuiltGroups /\ Parent(g) < g
      /\ <<Group(g).name, Group(Parent(g)).name>> \in Nesting
  BY <1>1, BuiltNest
<1>3. Group(Parent(g)).name \in {"cell", "bus", "bundle"}
  BY <1>2, ParentOf DEF NoObject, Is
<1> QED BY <1>1, <1>2, <1>3 DEF NoObject, Is

LEMMA SeenHasObject ==
  ASSUME NEW g, Seen(g), ~NoObject(g) PROVE <<g, 1>> \in DOMAIN kinds /\ kinds # << >>
<1>1. <<g, 1>> \in DOMAIN kinds
  BY DEF Seen
<1>2. SUFFICES ASSUME kinds = << >> PROVE FALSE
  BY <1>1
<1> QED BY <1>1, <1>2

LEMMA SeenBegun ==
  ASSUME NEW g, Seen(g) PROVE kinds # << >>
<1>1. \E o : o \in DOMAIN kinds
  BY DEF Seen
<1>2. SUFFICES ASSUME kinds = << >> PROVE FALSE
  OBVIOUS
<1> QED BY <1>1, <1>2

LEMMA FirstLeft ==
  ASSUME file \in LibFiles, TypeOK, WalkOK, NEW v, NextIs(v)
  PROVE  /\ ~Seen(v) /\ Top.g < v
         /\ \A h \in BuiltGroups : Seen(h) => h < v
         /\ \A g \in BuiltGroups : ~Seen(g) => v <= g
<1>1. /\ \A f \in Frames : f.g \in BuiltGroups /\ Seen(f.g)
      /\ Top \in Frames /\ Top.g \in BuiltGroups
      /\ \A f \in Frames : f = Top \/ f.g < Top.g
  BY OpenFrames, OpenIsBuilt DEF WalkOK, NextIs
<1>2. BuiltGroups \subseteq Nat
  BY BuiltIs, GroupsOfFile
<1>3. ~Seen(v) /\ v \in Nat
  BY <1>1, <1>2 DEF WalkOK, NotYet, NextIs
<1>4. Top.g < v /\ \A h \in BuiltGroups : Seen(h) => h < v
  BY <1>1, <1>3 DEF WalkOK, InOrder, NextIs
<1> DEFINE Bad == {g \in BuiltGroups : ~Seen(g) /\ g < v}
<1>5. Bad = {}
  <2> SUFFICES ASSUME Bad # {} PROVE FALSE
    OBVIOUS
  <2>1. PICK m \in Bad : \A y \in Bad : ~ (<<y, m>> \in OpToRel(<, Nat))
    BY <1>2, NatLessThanWellFounded, WFMin
  <2>2. m \in BuiltGroups /\ ~Seen(m) /\ m < v /\ m \in Nat
    BY <1>2, <2>1
  <2>3. ASSUME NEW y \in BuiltGroups, y < m PROVE Seen(y)
    <3>1. <<y, m>> \in Nat \X Nat /\ <<y, m>>[1] < <<y, m>>[2] /\ y < v
      BY <1>2, <1>3, <2>2, <2>3
    <3>2. <<y, m>> \in OpToRel(<, Nat)
      BY <3>1, Zenon DEF OpToRel
    <3> QED BY <2>1, <2>3, <3>1, <3>2
  <2>4. m # 1
    <3>1. Top.g \in Nat \ {0}
      BY <1>1, BuiltIs, Numbered
    <3>2. Top.g < m
      BY <1>1, <2>2 DEF WalkOK, InOrder
    <3> QED BY <3>1, <3>2
  <2>5. PICK p : p = Parent(m)
    OBVIOUS
  <2>6. p \in BuiltGroups /\ p < m /\ Seen(p)
    BY <2>2, <2>3, <2>4, <2>5, BuiltNest
  <2>7. PICK f \in Frames : f.g = p /\ \E i \in f.left : IsGroupStmt(p, i, m)
    BY <2>2, <2>4, <2>5, <2>6 DEF WalkOK, StillLeft
  <2>8. CASE f = Top
    <3>1. PICK i \in Top.left : IsGroupStmt(Top.g, i, m)
      BY <2>7, <2>8
    <3>2. i \in DOMAIN Stmts(Top.g) /\ Current \in DOMAIN Stmts(Top.g) /\ Current <= i
      BY DEF NextIs
    <3>3. i # Current
      BY <2>2, <3>1 DEF NextIs, IsGroupStmt
    <3>4. Current < i
      BY <1>1, <3>2, <3>3, BuiltIs, GroupsOfFile
    <3>5. v < m
      BY <1>1, <3>1, <3>2, <3>4, StatementTells DEF NextIs
    <3> QED BY <1>3, <2>2, <3>5
  <2>9. CASE f # Top
    <3>1. p < Top.g
      BY <1>1, <2>7, <2>9
    <3>2. Top.g < m
      BY <1>1, <2>2 DEF WalkOK, InOrder
    <3>3. v \in Groups \ {1} /\ Parent(v) = Top.g /\ m \in Groups /\ Top.g \in Nat /\ p \in Nat
      BY <1>1, <1>2, <2>2, <2>6, BuiltIs DEF NextIs
    <3>4. Top.g <= p
      BY <2>2, <2>5, <3>2, <3>3, Numbered
    <3> QED BY <3>1, <3>3, <3>4
  <2> QED BY <2>8, <2>9
<1> QED BY <1>2, <1>3, <1>4, <1>5

\* What entering a group adds to the objects.
Grows(v) ==
  /\ DOMAIN kinds \subseteq DOMAIN kinds'
  /\ NoObject(v) \/ <<v, 1>> \in DOMAIN kinds'
  /\ \A o \in DOMAIN kinds' : o \in DOMAIN kinds \/ o[1] = v \/ o = <<Top.g, 0>>

LEMMA SeenAfterEntering ==
  ASSUME file \in LibFiles, TypeOK, WalkOK, NEW v, NextIs(v), Enters(v), UNCHANGED file, Grows(v)
  PROVE  \A g : Seen(g)' <=> Seen(g) \/ g = v
<1>1. /\ BuiltGroups' = BuiltGroups
      /\ \A g : Parent(g)' = Parent(g) /\ NoObject(g)' = NoObject(g)
      /\ \A g, i, h : IsGroupStmt(g, i, h)' = IsGroupStmt(g, i, h)
  BY FileStays
<1>2. /\ Top \in Frames /\ stack # << >> /\ v \in BuiltGroups \ {1} /\ v \in Groups
      /\ Parent(v) = Top.g /\ Top.g # v
      /\ \A f \in Frames : f.g \in BuiltGroups /\ Seen(f.g) /\ f.g < v
      /\ \A f, e \in Frames : f.g = e.g => f = e
      /\ \A f \in Frames : f.left \subseteq Left(f.g)
      /\ ~Seen(v)
  <2>1. ~Seen(v) /\ \A h \in BuiltGroups : Seen(h) => h < v
    BY FirstLeft
  <2>2. \A f \in Frames : f.g \in BuiltGroups /\ Seen(f.g)
    BY OpenIsBuilt DEF WalkOK
  <2> QED BY <2>1, <2>2, OpenFrames, BuiltIs DEF NextIs, WalkOK
<1> DEFINE entered == [g |-> v, left |-> Left(v)]
<1>3. /\ Frames' = (Frames \ {Top}) \cup {Rest, entered}
      /\ Rest.g = Top.g /\ Rest.left = Top.left \ {Current}
  BY <1>2, FramesAfterEntering, AdvancedIs DEF WalkOK
<1>4. entered.g = v /\ entered.left = Left(v)
  OBVIOUS
<1> HIDE DEF entered
<1>5. \A g \in BuiltGroups : \A i \in DOMAIN Stmts(g) : \A h : IsGroupStmt(g, i, h) =>
        /\ Parent(h) = g
        /\ \A j \in DOMAIN Stmts(g) : IsGroupStmt(g, j, h) => j = i
  BY StatementTells
<1>6. \A f \in Frames \cup {entered} : f.left \subseteq DOMAIN Stmts(f.g)
  BY <1>2, <1>4 DEF Left
<1>7. Current \in Top.left /\ IsGroupStmt(Top.g, Current, v)
  BY DEF NextIs
<1>8. ASSUME NEW g \in BuiltGroups, ~NoObject(g) PROVE Seen(g)' <=> Seen(g) \/ g = v
  <2>1. <<g, 1>>[1] = g /\ <<g, 1>> # <<Top.g, 0>>
    OBVIOUS
  <2>2. <<g, 1>> \in DOMAIN kinds' <=> <<g, 1>> \in DOMAIN kinds \/ g = v
    BY <1>8, <2>1 DEF Grows
  <2> QED BY <1>1, <1>8, <2>2 DEF Seen
<1>9. ASSUME NEW g \in BuiltGroups, NoObject(g) PROVE Seen(g)' <=> Seen(g) \/ g = v
  <2>1. PICK p : p = Parent(g)
    OBVIOUS
  <2>2. /\ p \in BuiltGroups /\ ~NoObject(p) /\ g \in Groups \ {1}
        /\ Seen(p)' <=> Seen(p) \/ p = v
    BY <1>8, <1>9, <2>1, NoObjectIs
  <2>3. /\ Seen(p) <=> <<p, 1>> \in DOMAIN kinds
        /\ Seen(p)' <=> (<<p, 1>> \in DOMAIN kinds)'
    BY <1>1, <2>2 DEF Seen
  <2>4. /\ Seen(g) <=> <<p, 1>> \in DOMAIN kinds /\ ~Waits(g)
        /\ Seen(g)' <=> (<<p, 1>> \in DOMAIN kinds)' /\ ~Waits(g)'
    BY <1>1, <1>9, <2>1 DEF Seen
  <2>5. Waits(g)' <=> \E f \in Frames' : \E i \in f.left : IsGroupStmt(f.g, i, g)
    BY <1>1 DEF Waits
  <2>6. CASE g = v
    <3>1. Seen(p)
      BY <1>2, <2>1, <2>6
    <3>2. ~\E f \in Frames' : \E i \in f.left : IsGroupStmt(f.g, i, g)
      <4> SUFFICES ASSUME NEW f \in Frames', NEW i \in f.left, IsGroupStmt(f.g, i, v) PROVE FALSE
        BY <2>6
      <4>1. CASE f = Rest
        BY <1>2, <1>3, <1>5, <1>6, <1>7, <4>1
      <4>2. CASE f = entered
        BY <1>2, <1>4, <1>5, <1>6, <4>2
      <4>3. CASE f \in Frames \ {Top}
        BY <1>2, <1>5, <1>6, <4>3
      <4> QED BY <1>3, <4>1, <4>2, <4>3
    <3> QED BY <2>2, <2>3, <2>4, <2>5, <2>6, <3>1, <3>2
  <2>7. CASE g # v /\ p = v
    <3>1. ~Seen(g)
      BY <1>2, <2>3, <2>4, <2>7
    <3>2. PICK i \in DOMAIN Stmts(v) : IsGroupStmt(v, i, g)
      BY <2>1, <2>2, <2>7, Numbered
    <3>3. i \in Left(v)
      BY <1>2, <3>2, StatementTells
    <3> QED BY <1>3, <1>4, <2>4, <2>5, <2>7, <3>1, <3>2, <3>3
  <2>8. CASE g # v /\ p # v
    <3>1. ASSUME NEW f \in Frames', NEW i \in f.left, IsGroupStmt(f.g, i, g) PROVE Waits(g)
      <4>1. CASE f = Rest
        BY <1>2, <1>3, <3>1, <4>1 DEF Waits
      <4>2. CASE f = entered
        BY <1>2, <1>4, <1>5, <1>6, <2>1, <2>8, <3>1, <4>2
      <4>3. CASE f \in Frames
        BY <3>1, <4>3 DEF Waits
      <4> QED BY <1>3, <4>1, <4>2, <4>3
    <3>2. ASSUME NEW f \in Frames, NEW i \in f.left, IsGroupStmt(f.g, i, g)
          PROVE  \E e \in Frames' : \E j \in e.left : IsGroupStmt(e.g, j, g)
      <4>1. CASE f = Top
        <5>1. i # Current
          BY <1>7, <2>8, <3>2, <4>1 DEF IsGroupStmt
        <5> QED BY <1>3, <3>2, <4>1, <5>1
      <4> QED BY <1>3, <3>2, <4>1
    <3>3. Waits(g)' <=> Waits(g)
      BY <2>5, <3>1, <3>2 DEF Waits
    <3> QED BY <2>2, <2>3, <2>4, <2>8, <3>3
  <2> QED BY <2>6, <2>7, <2>8
<1>10. ASSUME NEW g, g \notin BuiltGroups PROVE ~Seen(g)' /\ ~Seen(g) /\ g # v
  BY <1>1, <1>2, <1>10 DEF Seen
<1> QED BY <1>8, <1>9, <1>10

\* Groups wait for no other group when no statement of a group that is built is taken.
LEMMA SeenAfterAdvancing ==
  ASSUME file \in LibFiles, TypeOK, Increasing, stack # << >>, stack' = Advanced,
         UNCHANGED <<file, kinds>>, \A g \in BuiltGroups : ~IsGroupStmt(Top.g, Current, g)
  PROVE  \A g : Seen(g)' <=> Seen(g)
<1>1. /\ BuiltGroups' = BuiltGroups
      /\ \A g : Parent(g)' = Parent(g) /\ NoObject(g)' = NoObject(g)
      /\ \A g, i, h : IsGroupStmt(g, i, h)' = IsGroupStmt(g, i, h)
  BY FileStays
<1>2. /\ Frames' = (Frames \ {Top}) \cup {Rest} /\ Top \in Frames
      /\ Rest.g = Top.g /\ Rest.left = Top.left \ {Current}
  BY FramesAfterAdvancing, AdvancedIs, OpenFrames
<1>3. ASSUME NEW g \in BuiltGroups PROVE Waits(g)' <=> Waits(g)
  <2>1. ASSUME NEW f \in Frames, NEW i \in f.left, IsGroupStmt(f.g, i, g)
        PROVE  \E e \in Frames' : \E j \in e.left : IsGroupStmt(e.g, j, g)
    <3>1. CASE f = Top
      BY <1>2, <2>1, <3>1
    <3> QED BY <1>2, <2>1, <3>1
  <2>2. ASSUME NEW e \in Frames', NEW j \in e.left, IsGroupStmt(e.g, j, g) PROVE Waits(g)
    BY <1>2, <2>2 DEF Waits
  <2> QED BY <1>1, <2>1, <2>2 DEF Waits
<1> QED BY <1>1, <1>3 DEF Seen

LEMMA SeenAfterLeaving ==
  ASSUME file \in LibFiles, TypeOK, Increasing, NEW names, Leaves(names), UNCHANGED <<file, kinds>>
  PROVE  \A g : Seen(g)' <=> Seen(g)
<1>1. /\ BuiltGroups' = BuiltGroups
      /\ \A g : Parent(g)' = Parent(g) /\ NoObject(g)' = NoObject(g)
      /\ \A g, i, h : IsGroupStmt(g, i, h)' = IsGroupStmt(g, i, h)
  BY FileStays
<1>2. Frames' = Frames \ {Top} /\ Top.left = {}
  BY FramesAfterLeaving DEF Leaves
<1>3. \A g : Waits(g)' <=> Waits(g)
  BY <1>1, <1>2 DEF Waits
<1> QED BY <1>1, <1>3 DEF Seen

LEMMA SeenSame ==
  ASSUME UNCHANGED <<file, stack, kinds>> PROVE \A g : Seen(g)' <=> Seen(g)
<1>1. /\ BuiltGroups' = BuiltGroups
      /\ \A g : Parent(g)' = Parent(g) /\ NoObject(g)' = NoObject(g)
      /\ \A g, i, h : IsGroupStmt(g, i, h)' = IsGroupStmt(g, i, h)
  BY FileStays
<1> QED BY <1>1 DEF Seen, Waits, Frames

LEMMA WalkEnters ==
  ASSUME file \in LibFiles, TypeOK, WalkOK, NEW v, NextIs(v), Enters(v), UNCHANGED file, Grows(v)
  PROVE  WalkOK'
<1> DEFINE entered == [g |-> v, left |-> Left(v)]
<1>1. /\ \A f \in Frames : f.g \in BuiltGroups /\ Seen(f.g)
      /\ Top \in Frames /\ Top.g \in BuiltGroups /\ stack # << >> /\ v \in BuiltGroups \ {1}
      /\ \A f \in Frames : f = Top \/ f.g < Top.g
      /\ \A f, e \in Frames : f.g = e.g => f = e
      /\ \A f \in Frames : f.left \subseteq Left(f.g)
  BY OpenFrames, OpenIsBuilt DEF WalkOK, NextIs
<1>2. BuiltGroups \subseteq Nat /\ BuiltGroups \subseteq Groups
  BY BuiltIs, GroupsOfFile
<1>3. /\ ~Seen(v) /\ Top.g < v
      /\ \A h \in BuiltGroups : Seen(h) => h < v
      /\ \A g \in BuiltGroups : ~Seen(g) => v <= g
  BY FirstLeft
<1>4. \A g : Seen(g)' <=> Seen(g) \/ g = v
  BY SeenAfterEntering
<1>5. /\ Frames' = (Frames \ {Top}) \cup {Rest, entered} /\ Increasing'
      /\ Rest.g = Top.g /\ Rest.left = Top.left \ {Current}
  <2>1. \A f \in Frames : f.g < v
    BY <1>1, <1>3
  <2> QED BY <1>1, <1>2, <2>1, FramesAfterEntering, AdvancedIs DEF WalkOK
<1>6. entered.g = v /\ entered.left = Left(v)
  OBVIOUS
<1> HIDE DEF entered
<1>7. /\ BuiltGroups' = BuiltGroups
      /\ \A g : Parent(g)' = Parent(g) /\ Stmts(g)' = Stmts(g) /\ Left(g)' = Left(g)
      /\ \A g, i : IsSimple(g, i)' = IsSimple(g, i) /\ IsGroupStmt(g, i, v)' = IsGroupStmt(g, i, v)
      /\ \A g, i, h : IsGroupStmt(g, i, h)' = IsGroupStmt(g, i, h)
  BY FileStays DEF IsGroupStmt
<1>8. ASSUME NEW f \in Frames'
      PROVE  \/ f = entered
             \/ f = Rest
             \/ f \in Frames /\ f # Top /\ f.g # Top.g
  BY <1>1, <1>5
<1>9. ASSUME NEW i \in Top.left, i # Current
      PROVE  Current < i /\ \A g : IsGroupStmt(Top.g, i, g) => g # v
  <2>1. Current <= i /\ Current \in Nat /\ i \in Nat
    BY <1>1, <1>2, <1>9, GroupsOfFile DEF NextIs
  <2> QED BY <1>1, <1>9, <2>1, StatementTells DEF NextIs
<1>10. Started'
  <2>1. kinds # << >>
    BY <1>1, SeenBegun
  <2> QED BY <1>4, <2>1 DEF WalkOK, Started
<1>11. OnlyBuilt'
  BY <1>1, <1>7 DEF WalkOK, OnlyBuilt, Grows
<1>12. InOrder'
  <2> SUFFICES ASSUME NEW h \in BuiltGroups, NEW g \in BuiltGroups, Seen(h)', ~Seen(g)' PROVE h < g
    BY <1>7 DEF InOrder
  <2>1. ~Seen(g) /\ g # v /\ v <= g /\ h \in Nat /\ g \in Nat /\ v \in Nat
    BY <1>1, <1>2, <1>3, <1>4
  <2>2. h = v \/ Seen(h)
    BY <1>4
  <2> QED BY <2>1, <2>2 DEF WalkOK, InOrder
<1>13. OpenSeen'
  BY <1>1, <1>4, <1>5, <1>6, <1>8 DEF OpenSeen
<1>14. StillLeft'
  <2> SUFFICES ASSUME NEW g \in BuiltGroups \ {1}, ~Seen(g)', NEW p, p = Parent(g), Seen(p)'
               PROVE  \E f \in Frames' : f.g = p /\ \E i \in f.left : IsGroupStmt(f.g, i, g)
    BY <1>7 DEF StillLeft
  <2>1. ~Seen(g) /\ g # v /\ g \in Groups \ {1}
    BY <1>2, <1>4
  <2>2. CASE p = v
    <3>1. PICK i \in DOMAIN Stmts(v) : IsGroupStmt(v, i, g)
      BY <2>1, <2>2, Numbered
    <3>2. i \in Left(v)
      BY <1>1, <3>1, StatementTells
    <3> QED BY <1>5, <1>6, <2>2, <3>1, <3>2
  <2>3. CASE Seen(p)
    <3>1. PICK f \in Frames : f.g = p /\ \E i \in f.left : IsGroupStmt(f.g, i, g)
      BY <2>1, <2>3 DEF WalkOK, StillLeft
    <3>2. PICK i \in f.left : IsGroupStmt(f.g, i, g)
      BY <3>1
    <3>3. CASE f = Top
      <4>1. i # Current
        BY <2>1, <3>2, <3>3 DEF NextIs, IsGroupStmt
      <4> QED BY <1>5, <3>1, <3>2, <3>3, <4>1
    <3> QED BY <1>5, <3>1, <3>2, <3>3
  <2> QED BY <1>4, <2>2, <2>3
<1>15. NotYet'
  <2> SUFFICES ASSUME NEW f \in Frames', NEW i \in f.left, NEW g \in BuiltGroups, IsGroupStmt(f.g, i, g)
               PROVE  ~Seen(g) /\ g # v
    BY <1>4, <1>7 DEF NotYet
  <2>1. CASE f = entered
    <3>1. i \in DOMAIN Stmts(v) /\ IsGroupStmt(v, i, g)
      BY <1>6, <2>1 DEF Left
    <3>2. v < g
      BY <1>1, <3>1, StatementTells
    <3> QED BY <1>1, <1>2, <1>3, <3>2
  <2>2. CASE f = Rest
    <3>1. i \in Top.left /\ i # Current /\ IsGroupStmt(Top.g, i, g)
      BY <1>5, <2>2
    <3> QED BY <1>1, <1>9, <3>1 DEF WalkOK, NotYet
  <2>3. CASE f \in Frames /\ f.g # Top.g
    <3>1. f.g \in BuiltGroups /\ i \in DOMAIN Stmts(f.g)
      BY <1>1, <2>3 DEF Left
    <3>2. Parent(g) = f.g
      BY <3>1, StatementTells
    <3> QED BY <2>3, <3>2 DEF WalkOK, NotYet, NextIs
  <2> QED BY <1>8, <2>1, <2>2, <2>3
<1>16. SimpleFirst'
  <2> SUFFICES ASSUME NEW f \in Frames', NEW i \in f.left, NEW j \in Left(f.g) \ f.left, ~IsSimple(f.g, j)
               PROVE  ~IsSimple(f.g, i) /\ j < i
    BY <1>7 DEF SimpleFirst
  <2>1. CASE f = entered
    BY <1>6, <2>1
  <2>2. CASE f = Rest
    <3>1. i \in Top.left /\ i # Current /\ (j = Current \/ j \in Left(Top.g) \ Top.left)
      BY <1>5, <2>2
    <3>2. Current < i /\ ~IsSimple(Top.g, i)
      BY <1>9, <3>1 DEF NextIs
    <3>3. j \in Left(Top.g) \ Top.left => j < i
      BY <1>1, <1>5, <2>2, <3>1 DEF WalkOK, SimpleFirst
    <3> QED BY <1>5, <2>2, <3>1, <3>2, <3>3
  <2>3. CASE f \in Frames
    BY <2>3 DEF WalkOK, SimpleFirst
  <2> QED BY <1>8, <2>1, <2>2, <2>3
<1>17. Inside'
  <2> SUFFICES ASSUME NEW f \in Frames', NEW h \in BuiltGroups, Seen(h)', f.g < h PROVE f.g <= Parent(h)
    BY <1>7 DEF Inside
  <2>1. CASE f = entered
    <3>1. h \in Nat /\ v \in Nat /\ v < h
      BY <1>1, <1>2, <1>6, <2>1
    <3>2. h = v \/ h < v
      BY <1>3, <1>4
    <3> QED BY <3>1, <3>2
  <2>2. CASE f = Rest \/ f \in Frames
    <3>1. Seen(h) => f.g <= Parent(h)
      BY <1>1, <1>5, <2>2 DEF WalkOK, Inside
    <3>2. f.g <= Top.g
      BY <1>1, <1>2, <1>5, <2>2
    <3> QED BY <1>4, <3>1, <3>2 DEF NextIs
  <2> QED BY <1>8, <2>1, <2>2
<1> QED BY <1>5, <1>10, <1>11, <1>12, <1>13, <1>14, <1>15, <1>16, <1>17 DEF WalkOK

\* What is taken from a group's statements without entering a group that is built.
LEMMA WalkAdvances ==
  ASSUME file \in LibFiles, TypeOK, WalkOK, stack # << >>, Top.left # {}, stack' = Advanced,
         UNCHANGED <<file, kinds>>,
         \A g \in BuiltGroups : ~IsGroupStmt(Top.g, Current, g)
  PROVE  WalkOK'
<1>1. /\ Top \in Frames /\ \A f \in Frames : f.left \subseteq Left(f.g)
  BY OpenFrames DEF WalkOK
<1>2. /\ Frames' = (Frames \ {Top}) \cup {Rest} /\ Increasing'
      /\ Rest.g = Top.g /\ Rest.left = Top.left \ {Current}
  BY FramesAfterAdvancing, AdvancedIs DEF WalkOK
<1>3. /\ BuiltGroups' = BuiltGroups
      /\ \A g : Parent(g)' = Parent(g) /\ Stmts(g)' = Stmts(g) /\ Left(g)' = Left(g)
      /\ \A g, i : IsSimple(g, i)' = IsSimple(g, i)
      /\ \A g, i, h : IsGroupStmt(g, i, h)' = IsGroupStmt(g, i, h)
  BY FileStays DEF IsGroupStmt
<1>4. \A g : Seen(g)' <=> Seen(g)
  BY SeenAfterAdvancing DEF WalkOK
<1>5. /\ Current \in Top.left /\ Top.left \subseteq Nat
      /\ IsSimple(Top.g, Current) \/ \A i \in Top.left : ~IsSimple(Top.g, i) /\ Current <= i
  BY CurrentIs
<1>6. Started' /\ OnlyBuilt' /\ InOrder'
  <2>1. Started /\ OnlyBuilt /\ InOrder
    BY DEF WalkOK
  <2>2. Started'
    BY <1>4, <2>1 DEF Started
  <2>3. OnlyBuilt' /\ InOrder'
    BY <1>3, <1>4, <2>1 DEF OnlyBuilt, InOrder
  <2> QED BY <2>2, <2>3
<1>7. OpenSeen' /\ Inside'
  BY <1>1, <1>2, <1>3, <1>4 DEF WalkOK, OpenSeen, Inside
<1>8. StillLeft'
  <2> SUFFICES ASSUME NEW g \in BuiltGroups \ {1}, ~Seen(g), NEW p, p = Parent(g), Seen(p)
               PROVE  \E f \in Frames' : f.g = p /\ \E i \in f.left : IsGroupStmt(f.g, i, g)
    BY <1>3, <1>4 DEF StillLeft
  <2>1. PICK f \in Frames : f.g = p /\ \E i \in f.left : IsGroupStmt(f.g, i, g)
    BY DEF WalkOK, StillLeft
  <2>2. CASE f = Top
    BY <1>2, <2>1, <2>2
  <2> QED BY <1>2, <2>1, <2>2
<1>9. NotYet'
  <2> SUFFICES ASSUME NEW f \in Frames', NEW i \in f.left, NEW g \in BuiltGroups, IsGroupStmt(f.g, i, g)
               PROVE  ~Seen(g)
    BY <1>3, <1>4 DEF NotYet
  <2> QED BY <1>1, <1>2 DEF WalkOK, NotYet
<1>10. SimpleFirst'
  <2> SUFFICES ASSUME NEW f \in Frames', NEW i \in f.left, NEW j \in Left(f.g) \ f.left, ~IsSimple(f.g, j)
               PROVE  ~IsSimple(f.g, i) /\ j < i
    BY <1>3 DEF SimpleFirst
  <2>1. CASE f = Rest
    <3>1. i \in Top.left /\ i # Current /\ (j = Current \/ j \in Left(Top.g) \ Top.left)
      BY <1>2, <2>1
    <3>2. j = Current => ~IsSimple(Top.g, i) /\ j < i
      BY <1>2, <1>5, <2>1, <3>1
    <3>3. j \in Left(Top.g) \ Top.left => ~IsSimple(Top.g, i) /\ j < i
      BY <1>1, <1>2, <2>1, <3>1 DEF WalkOK, SimpleFirst
    <3> QED BY <1>2, <2>1, <3>1, <3>2, <3>3
  <2>2. CASE f \in Frames
    BY <2>2 DEF WalkOK, SimpleFirst
  <2> QED BY <1>2, <2>1, <2>2
<1> QED BY <1>2, <1>6, <1>7, <1>8, <1>9, <1>10 DEF WalkOK

LEMMA WalkLeaves ==
  ASSUME file \in LibFiles, TypeOK, WalkOK, NEW names, Leaves(names), UNCHANGED <<file, kinds>>
  PROVE  WalkOK'
<1>1. Top.left = {} /\ Frames' = Frames \ {Top} /\ Increasing'
  BY FramesAfterLeaving DEF WalkOK, Leaves
<1>2. /\ BuiltGroups' = BuiltGroups
      /\ \A g : Parent(g)' = Parent(g) /\ Stmts(g)' = Stmts(g) /\ Left(g)' = Left(g)
      /\ \A g, i : IsSimple(g, i)' = IsSimple(g, i)
      /\ \A g, i, h : IsGroupStmt(g, i, h)' = IsGroupStmt(g, i, h)
  BY FileStays DEF IsGroupStmt
<1>3. \A g : Seen(g)' <=> Seen(g)
  BY SeenAfterLeaving DEF WalkOK
<1>4. Started'
  BY <1>3 DEF WalkOK, Started
<1>5. OnlyBuilt' /\ InOrder'
  <2>1. OnlyBuilt /\ InOrder
    BY DEF WalkOK
  <2> QED BY <1>2, <1>3, <2>1 DEF OnlyBuilt, InOrder
<1>6. OpenSeen' /\ Inside'
  BY <1>1, <1>2, <1>3 DEF WalkOK, OpenSeen, Inside
<1>7. StillLeft'
  <2> SUFFICES ASSUME NEW g \in BuiltGroups \ {1}, ~Seen(g), NEW p, p = Parent(g), Seen(p)
               PROVE  \E f \in Frames' : f.g = p /\ \E i \in f.left : IsGroupStmt(f.g, i, g)
    BY <1>2, <1>3 DEF StillLeft
  <2> QED BY <1>1 DEF WalkOK, StillLeft
<1>8. NotYet'
  BY <1>1, <1>2, <1>3 DEF WalkOK, NotYet
<1>9. SimpleFirst'
  BY <1>1, <1>2 DEF WalkOK, SimpleFirst
<1> QED BY <1>1, <1>4, <1>5, <1>6, <1>7, <1>8, <1>9 DEF WalkOK

\* The walk begins.
LEMMA NothingYet ==
  ASSUME TypeOK, kinds = << >>, Begun
  PROVE  builder = LibBuilder /\ stack = << >> /\ \A o : o \notin DOMAIN kinds
  BY DEF Begun

LEMMA WalkBegins ==
  ASSUME file \in LibFiles, TypeOK, Begun, visitLibrary
  PROVE  /\ WalkOK' /\ UNCHANGED file
         /\ Frames' = {[g |-> 1, left |-> Left(1)]} /\ \A g : Seen(g)' <=> g = 1
<1> DEFINE entered == [g |-> 1, left |-> Left(1)]
<1>1. /\ stack' = <<entered>> /\ file' = file /\ kinds = << >>
      /\ kinds' = (<<1, 1>> :> "library") @@ kinds
  BY Zenon DEF visitLibrary, Creates, Library
<1>2. entered.g = 1 /\ entered.left = Left(1) /\ 1 \in BuiltGroups
  BY BuiltIs
<1> HIDE DEF entered
<1>3. DOMAIN kinds' = {<<1, 1>>}
  <2>1. DOMAIN kinds = {}
    BY <1>1
  <2>2. PICK new : new = <<1, 1>> :> "library"
    OBVIOUS
  <2>3. DOMAIN new = {<<1, 1>>}
    BY <2>2, OnlyIs
  <2>4. DOMAIN (new @@ kinds) = DOMAIN new \cup DOMAIN kinds
    BY MergeIs, Zenon
  <2>5. kinds' = new @@ kinds
    BY <1>1, <2>2, Zenon
  <2> QED BY <2>1, <2>3, <2>4, <2>5
<1>5. Len(stack') = 1 /\ stack'[1] = entered
  BY <1>1
<1>6. Frames' = {entered} /\ Increasing'
  BY <1>2, <1>5 DEF Frames, Increasing
<1>7. /\ BuiltGroups' = BuiltGroups
      /\ \A g : Parent(g)' = Parent(g) /\ Stmts(g)' = Stmts(g) /\ Left(g)' = Left(g)
      /\ \A g : NoObject(g)' = NoObject(g)
      /\ \A g, i : IsSimple(g, i)' = IsSimple(g, i)
      /\ \A g, i, h : IsGroupStmt(g, i, h)' = IsGroupStmt(g, i, h)
  BY <1>1, FileStays
<1>4. \A g : Seen(g)' <=> g = 1
  <2>1. ~NoObject(1)
    BY GroupsOfFile DEF NoObject, Is
  <2>2. \A g : <<g, 1>> \in DOMAIN kinds' <=> g = 1
    BY <1>3
  <2>3. ASSUME NEW g \in BuiltGroups, NoObject(g) PROVE ~Seen(g)'
    <3>1. PICK p : p = Parent(g)
      OBVIOUS
    <3>2. /\ p \in BuiltGroups /\ g \in Groups \ {1} /\ Is(p, {"cell", "bus", "bundle"})
      BY <2>3, <3>1, NoObjectIs
    <3>3. p # 1
      BY <3>2, GroupsOfFile DEF Is
    <3> QED BY <1>7, <2>2, <2>3, <3>1, <3>3 DEF Seen
  <2>4. ASSUME NEW g, ~(g \in BuiltGroups /\ NoObject(g)) PROVE Seen(g)' <=> g = 1
    BY <1>2, <1>7, <2>1, <2>2, <2>4 DEF Seen
  <2> QED BY <2>1, <2>3, <2>4
<1>8. \A g \in BuiltGroups \ {1} : g \in Groups \ {1} /\ 1 < g
  <2>1. \A g \in BuiltGroups : g \in Groups
    BY BuiltIs
  <2>2. \A g \in Groups : g \in Nat /\ g # 0
    BY Numbered
  <2> QED BY <2>1, <2>2
<1>9. Started' /\ OnlyBuilt' /\ InOrder' /\ OpenSeen'
  <2>1. Started' /\ OpenSeen'
    BY <1>2, <1>4, <1>6 DEF Started, OpenSeen
  <2>2. OnlyBuilt'
    BY <1>2, <1>3, <1>7 DEF OnlyBuilt
  <2>3. InOrder'
    BY <1>4, <1>7, <1>8 DEF InOrder
  <2> QED BY <2>1, <2>2, <2>3
<1>10. StillLeft'
  <2> SUFFICES ASSUME NEW g \in BuiltGroups \ {1}, Parent(g) = 1
               PROVE  \E i \in Left(1) : IsGroupStmt(1, i, g)
    BY <1>2, <1>4, <1>6, <1>7 DEF StillLeft
  <2>1. PICK p : p = Parent(g)
    OBVIOUS
  <2>2. PICK i \in DOMAIN Stmts(p) : IsGroupStmt(p, i, g)
    BY <1>8, <2>1, Numbered
  <2> QED BY <1>2, <2>1, <2>2, StatementTells
<1>11. NotYet'
  <2> SUFFICES ASSUME NEW i \in Left(1), NEW g \in BuiltGroups, IsGroupStmt(1, i, g) PROVE g # 1
    BY <1>2, <1>4, <1>6, <1>7 DEF NotYet
  <2>1. i \in DOMAIN Stmts(1)
    BY DEF Left
  <2> QED BY <1>2, <2>1, StatementTells
<1>12. SimpleFirst' /\ Inside'
  BY <1>2, <1>4, <1>6, <1>7 DEF SimpleFirst, Inside
<1> QED BY <1>1, <1>4, <1>6, <1>9, <1>10, <1>11, <1>12 DEF WalkOK, entered

-----------------------------------------------------------------------------
(***************************************************************************)
(* What a step leaves as it was.                                           *)
(***************************************************************************)
\* What is set elsewhere leaves a key alone.
LEMMA KeyStays ==
  ASSUME NEW f, NEW w, NEW key, key \notin DOMAIN w
  PROVE  /\ key \in DOMAIN (w @@ f) <=> key \in DOMAIN f
         /\ key \in DOMAIN f => (w @@ f)[key] = f[key]
<1>1. /\ DOMAIN (w @@ f) = DOMAIN w \cup DOMAIN f
      /\ \A z \in DOMAIN f \ DOMAIN w : (w @@ f)[z] = f[z]
  BY MergeIs, Zenon
<1> QED BY <1>1, Zenon

\* The second part of every key of a map.
Fields(w, S) == \A k \in DOMAIN w : k[2] \in S

LEMMA PairField ==
  ASSUME NEW o, NEW c, NEW n, NEW x, NEW S, c \in S PROVE Fields(<<o, c, n>> :> x, S)
<1>1. DOMAIN (<<o, c, n>> :> x) = {<<o, c, n>>}
  BY OnlyIs, Zenon
<1>2. <<o, c, n>>[2] = c
  OBVIOUS
<1> QED BY <1>1, <1>2, Zenon DEF Fields

LEMMA MergeFields ==
  ASSUME NEW f, NEW g, NEW S, Fields(f, S), Fields(g, S) PROVE Fields(f @@ g, S)
<1>1. DOMAIN (f @@ g) = DOMAIN f \cup DOMAIN g
  BY MergeIs, Zenon
<1> QED BY <1>1, Zenon DEF Fields

LEMMA NoFields == \A S : Fields(<< >>, S)
  BY DEF Fields

LEMMA AddsField == \A o, c, n, x, S : c \in S => Fields(Adds(o, c, n, x), S) /\ Fields(Puts(o, c, n, x), S)
  BY PairField, Zenon DEF Adds, Puts

\* The types of the arcs stay.
ChecksStay == \A a : isCheckArc(a)' <=> isCheckArc(a)
LEMMA ChecksAfter ==
  ASSUME NEW w, NEW S, "timing_type" \notin S, Fields(w, S), attrs' = w @@ attrs
  PROVE  ChecksStay
<1>1. PICK e : e = ""
  BY Zenon
<1>2. ASSUME NEW a PROVE /\ (<<a, "timing_type", e>> \in DOMAIN attrs)' <=> <<a, "timing_type", e>> \in DOMAIN attrs
                         /\ <<a, "timing_type", e>> \in DOMAIN attrs =>
                              attrs'[<<a, "timing_type", e>>] = attrs[<<a, "timing_type", e>>]
  <2>1. <<a, "timing_type", e>>[2] = "timing_type"
    OBVIOUS
  <2>2. <<a, "timing_type", e>> \notin DOMAIN w
    BY <2>1, Zenon DEF Fields
  <2> QED BY <2>2, KeyStays, Zenon
<1>3. ASSUME NEW a PROVE isCheckArc(a)' <=> isCheckArc(a)
  BY <1>1, <1>2, Zenon DEF isCheckArc, Attr
<1> QED BY <1>3 DEF ChecksStay

LEMMA ChecksSame == ASSUME UNCHANGED attrs PROVE ChecksStay
  BY Zenon DEF ChecksStay, isCheckArc, Attr

\* The templates of the library stay.
LEMMA TemplatesAfter ==
  ASSUME NEW w, NEW S, "lut_templates" \notin S, Fields(w, S), members' = w @@ members
  PROVE  UNCHANGED HeldTemplates
<1>1. PICK key : key = <<Library, "lut_templates", "">>
  BY Zenon
<1>2. key \notin DOMAIN w
  <2>1. PICK e : e = ""
    BY Zenon
  <2>2. key = <<Library, "lut_templates", e>>
    BY <1>1, <2>1, Zenon
  <2>3. key[2] = "lut_templates"
    BY <2>2
  <2> QED BY <2>3, Zenon DEF Fields
<1>3. /\ key \in DOMAIN members' <=> key \in DOMAIN members
      /\ key \in DOMAIN members => members'[key] = members[key]
  BY <1>2, KeyStays, Zenon
<1> QED BY <1>1, <1>3, Zenon DEF HeldTemplates, Held, Library

LEMMA TemplatesSame == ASSUME UNCHANGED members PROVE UNCHANGED HeldTemplates
  BY Zenon DEF HeldTemplates, Held, Library

-----------------------------------------------------------------------------
(***************************************************************************)
(* What entering a group does, as far as the walk depends on it.           *)
(***************************************************************************)
KindsAfter(v) ==
  /\ \A o \in DOMAIN kinds : o[1] # v /\ (o[2] # 0 \/ ~Is(v, DelayTables \cup PowerTables)) =>
       kinds'[o] = kinds[o]
  /\ Is(v, Objects) => kinds'[<<v, 1>>] = ObjectClass[Group(v).name]
PointersAfter(v) ==
  /\ Is(v, {"leakage_power"}) =>
       builder'.own_pg_or_when_type = "leakage_power" /\ builder'.leakage_power = <<v, 1>>
  /\ Is(v, {"internal_power"}) => builder'.own_pg_or_when_type = "power_arc"
  /\ ~Is(v, PowerGroups) => builder'.own_pg_or_when_type = builder.own_pg_or_when_type
  /\ ~Is(v, {"leakage_power"}) => builder'.leakage_power = builder.leakage_power
  /\ Is(v, {"bus", "bundle"}) => builder'.port = <<v, 1>>
  /\ ~Is(v, {"bus", "bundle", "pin", "lu_table_template", "power_lut_template", "type"}) =>
       builder'.port = builder.port
  /\ Is(v, {"pin"}) /\ builder.port_bus # None => builder'.port = builder.port
  /\ Is(v, {"timing"}) => builder'.table_model = None
  /\ ~Is(v, {"timing", "internal_power"} \cup DelayTables \cup PowerTables) =>
       builder'.table_model = builder.table_model
EntersAs(v) ==
  /\ error = None /\ NextIs(v) /\ Enters(v)
  /\ Grows(v) /\ KindsAfter(v) /\ PointersAfter(v) /\ ChecksStay
  /\ UNCHANGED <<file, error, HeldTemplates>>

LEMMA OnVisiting ==
  ASSUME file \in LibFiles, IInv, WalkOK, NEW names \in SUBSET Supported, Visits(names),
         NEW v, v = Visited, "cell" \in names => isNeedBuild(v),
         "timing" \in names => ~Portless(Top.g)
  PROVE  /\ NextIs(v) /\ error = None /\ Is(v, names)
         /\ <<Group(v).name, Group(Top.g).name>> \in Nesting /\ AtHome(Top.g, TRUE)
<1>1. /\ stack # << >> /\ Top.left # {} /\ error = None /\ ~Flawed(Statement)
      /\ Statement.kind = "group" /\ Statement.group = v /\ Group(v).name \in names
  BY DEF Visits, At, Reaches, Visited
<1>2. v \in Groups /\ Parent(v) = Top.g /\ <<Group(v).name, Group(Top.g).name>> \in Nesting
  BY VisitedGroup DEF IInv
<1>3. Top.g \in BuiltGroups /\ TypeOK
  BY <1>1, OpenFrames, OpenIsBuilt DEF WalkOK, IInv
<1>4. v # 1 /\ Is(v, names) /\ (Is(v, {"cell"}) => isNeedBuild(v))
  BY <1>1, GroupsOfFile DEF Is, Supported, DelayTables, PowerTables, CurrentTables
<1>5. v \in BuiltGroups \ {1}
  BY <1>2, <1>3, <1>4, BuiltIs DEF Is
<1>6. IsGroupStmt(Top.g, Current, v) /\ ~IsSimple(Top.g, Current)
  BY <1>1 DEF IsGroupStmt, IsSimple, Statement
<1>7. /\ Current \in Top.left /\ Top.left \subseteq DOMAIN Stmts(Top.g)
      /\ \A i \in Top.left : ~IsSimple(Top.g, i) /\ Current <= i
  BY <1>1, <1>3, <1>6, CurrentIs, TopGroup
<1>8. ~Broken(Top.g, Current)
  <2>1. Of(Statement) = "nobody"
    BY <1>1 DEF Of
  <2>2. Is(v, {"timing"}) => ~Portless(Top.g)
    BY <1>1 DEF Is
  <2> QED BY <1>1, <2>1, <2>2 DEF Broken, Statement
<1> QED BY <1>1, <1>2, <1>4, <1>5, <1>6, <1>7, <1>8, TopAtHome DEF NextIs

LEMMA CreatesKinds ==
  ASSUME NEW v, NEW kind, Creates(<<v, 1>>, kind),
         Is(v, Objects) => kind = ObjectClass[Group(v).name]
  PROVE  Grows(v) /\ KindsAfter(v)
<1>1. PICK new : new = <<v, 1>> :> kind
  BY Zenon
<1>2. DOMAIN new = {<<v, 1>>} /\ new[<<v, 1>>] = kind
  BY <1>1, OnlyIs, Zenon
<1>3. kinds' = new @@ kinds
  BY <1>1, Zenon DEF Creates
<1>4. /\ DOMAIN (new @@ kinds) = DOMAIN new \cup DOMAIN kinds
      /\ \A z \in DOMAIN new : (new @@ kinds)[z] = new[z]
      /\ \A z \in DOMAIN kinds \ DOMAIN new : (new @@ kinds)[z] = kinds[z]
  BY MergeIs, Zenon
<1>5. /\ DOMAIN kinds' = {<<v, 1>>} \cup DOMAIN kinds /\ kinds'[<<v, 1>>] = kind
      /\ \A z \in DOMAIN kinds : z # <<v, 1>> => kinds'[z] = kinds[z]
  BY <1>2, <1>3, <1>4, Zenon
<1> QED BY <1>5 DEF Grows, KindsAfter

LEMMA VisitsWireLoad ==
  ASSUME file \in LibFiles, IInv, WalkOK, visitWireLoad, NEW v, v = Visited PROVE EntersAs(v)
<1>1. Visits({"wire_load"}) /\ {"wire_load"} \in SUBSET Supported
  BY Zenon DEF visitWireLoad, Supported
<1>2. /\ Enters(v) /\ Creates(<<v, 1>>, "wire_load")
      /\ builder' = [builder EXCEPT !.obj = <<v, 1>>]
      /\ UNCHANGED <<file, error, attrs, members>>
  BY Zenon DEF visitWireLoad, Opens
<1>3. NextIs(v) /\ error = None /\ Is(v, {"wire_load"})
  BY <1>1, OnVisiting
<1>4. Is(v, Objects) => "wire_load" = ObjectClass[Group(v).name]
  BY <1>3 DEF Is, Objects, ObjectClass, DelayTables, PowerTables, CurrentTables
<1>5. PointersAfter(v)
  BY <1>2, <1>3 DEF PointersAfter, Is, PowerGroups, IInv, TypeOK, LibBuilder, DelayTables, PowerTables,
                    CurrentTables
<1> QED BY <1>2, <1>3, <1>4, <1>5, CreatesKinds, ChecksSame, TemplatesSame DEF EntersAs

LEMMA VisitsLuTableTemplate ==
  ASSUME file \in LibFiles, IInv, WalkOK, visitLuTableTemplate, NEW v, v = Visited PROVE EntersAs(v)
<1>1. Visits({"lu_table_template", "power_lut_template"}) /\ {"lu_table_template", "power_lut_template"} \in SUBSET Supported
  BY Zenon DEF visitLuTableTemplate, Supported
<1>2. /\ Enters(v) /\ Creates(<<v, 1>>, "lut_template")
      /\ builder' = [builder EXCEPT !.port = None, !.obj = <<v, 1>>]
      /\ UNCHANGED <<file, error, attrs, members>>
  BY Zenon DEF visitLuTableTemplate, Opens
<1>3. NextIs(v) /\ error = None /\ Is(v, {"lu_table_template", "power_lut_template"})
  BY <1>1, OnVisiting
<1>4. Is(v, Objects) => "lut_template" = ObjectClass[Group(v).name]
  BY <1>3 DEF Is, Objects, ObjectClass, DelayTables, PowerTables, CurrentTables
<1>5. PointersAfter(v)
  BY <1>2, <1>3 DEF PointersAfter, Is, PowerGroups, IInv, TypeOK, LibBuilder, DelayTables, PowerTables,
                    CurrentTables
<1> QED BY <1>2, <1>3, <1>4, <1>5, CreatesKinds, ChecksSame, TemplatesSame DEF EntersAs

LEMMA VisitsOutputCurrentTemplate ==
  ASSUME file \in LibFiles, IInv, WalkOK, visitOutputCurrentTemplate, NEW v, v = Visited PROVE EntersAs(v)
<1>1. Visits({"output_current_template"}) /\ {"output_current_template"} \in SUBSET Supported
  BY Zenon DEF visitOutputCurrentTemplate, Supported
<1>2. /\ Enters(v) /\ Creates(<<v, 1>>, "current_template")
      /\ builder' = [builder EXCEPT !.obj = <<v, 1>>]
      /\ UNCHANGED <<file, error, attrs, members>>
  BY Zenon DEF visitOutputCurrentTemplate, Opens
<1>3. NextIs(v) /\ error = None /\ Is(v, {"output_current_template"})
  BY <1>1, OnVisiting
<1>4. Is(v, Objects) => "current_template" = ObjectClass[Group(v).name]
  BY <1>3 DEF Is, Objects, ObjectClass, DelayTables, PowerTables, CurrentTables
<1>5. PointersAfter(v)
  BY <1>2, <1>3 DEF PointersAfter, Is, PowerGroups, IInv, TypeOK, LibBuilder, DelayTables, PowerTables,
                    CurrentTables
<1> QED BY <1>2, <1>3, <1>4, <1>5, CreatesKinds, ChecksSame, TemplatesSame DEF EntersAs

LEMMA VisitsType ==
  ASSUME file \in LibFiles, IInv, WalkOK, visitType, NEW v, v = Visited PROVE EntersAs(v)
<1>1. Visits({"type"}) /\ {"type"} \in SUBSET Supported
  BY Zenon DEF visitType, Supported
<1>2. /\ Enters(v) /\ Creates(<<v, 1>>, "type")
      /\ builder' = [builder EXCEPT !.port = None, !.obj = <<v, 1>>]
      /\ UNCHANGED <<file, error, attrs, members>>
  BY Zenon DEF visitType, Opens
<1>3. NextIs(v) /\ error = None /\ Is(v, {"type"})
  BY <1>1, OnVisiting
<1>4. Is(v, Objects) => "type" = ObjectClass[Group(v).name]
  BY <1>3 DEF Is, Objects, ObjectClass, DelayTables, PowerTables, CurrentTables
<1>5. PointersAfter(v)
  BY <1>2, <1>3 DEF PointersAfter, Is, PowerGroups, IInv, TypeOK, LibBuilder, DelayTables, PowerTables,
                    CurrentTables
<1> QED BY <1>2, <1>3, <1>4, <1>5, CreatesKinds, ChecksSame, TemplatesSame DEF EntersAs

LEMMA VisitsCell ==
  ASSUME file \in LibFiles, IInv, WalkOK, visitCell, NEW v, v = Visited PROVE EntersAs(v)
<1>1. Visits({"cell"}) /\ isNeedBuild(v) /\ {"cell"} \in SUBSET Supported
  BY Zenon DEF visitCell, Supported
<1>2. /\ Enters(v) /\ Creates(<<v, 1>>, "cell")
      /\ builder' = [builder EXCEPT !.obj = <<v, 1>>, !.cell = <<v, 1>>]
      /\ UNCHANGED <<file, error, attrs, members>>
  BY Zenon DEF visitCell, Opens
<1>3. NextIs(v) /\ error = None /\ Is(v, {"cell"})
  BY <1>1, OnVisiting
<1>4. Is(v, Objects) => "cell" = ObjectClass[Group(v).name]
  BY <1>3 DEF Is, Objects, ObjectClass, DelayTables, PowerTables, CurrentTables
<1>5. PointersAfter(v)
  BY <1>2, <1>3 DEF PointersAfter, Is, PowerGroups, IInv, TypeOK, LibBuilder, DelayTables, PowerTables,
                    CurrentTables
<1> QED BY <1>2, <1>3, <1>4, <1>5, CreatesKinds, ChecksSame, TemplatesSame DEF EntersAs

LEMMA VisitsLeakagePower ==
  ASSUME file \in LibFiles, IInv, WalkOK, visitLeakagePower, NEW v, v = Visited PROVE EntersAs(v)
<1>1. Visits({"leakage_power"}) /\ {"leakage_power"} \in SUBSET Supported
  BY Zenon DEF visitLeakagePower, Supported
<1>2. /\ Enters(v) /\ Creates(<<v, 1>>, "leakage_power")
      /\ builder' = [builder EXCEPT !.obj = <<v, 1>>, !.leakage_power = <<v, 1>>,
                           !.own_pg_or_when_type = "leakage_power"]
      /\ UNCHANGED <<file, error, attrs, members>>
  BY Zenon DEF visitLeakagePower, Opens
<1>3. NextIs(v) /\ error = None /\ Is(v, {"leakage_power"})
  BY <1>1, OnVisiting
<1>4. Is(v, Objects) => "leakage_power" = ObjectClass[Group(v).name]
  BY <1>3 DEF Is, Objects, ObjectClass, DelayTables, PowerTables, CurrentTables
<1>5. PointersAfter(v)
  BY <1>2, <1>3 DEF PointersAfter, Is, PowerGroups, IInv, TypeOK, LibBuilder, DelayTables, PowerTables,
                    CurrentTables
<1> QED BY <1>2, <1>3, <1>4, <1>5, CreatesKinds, ChecksSame, TemplatesSame DEF EntersAs

LEMMA VisitsCurrentTable ==
  ASSUME file \in LibFiles, IInv, WalkOK, visitCurrentTable, NEW v, v = Visited PROVE EntersAs(v)
<1>1. Visits(CurrentTables) /\ CurrentTables \in SUBSET Supported
  BY Zenon DEF visitCurrentTable, Supported
<1>2. /\ Enters(v) /\ Creates(<<v, 1>>, "current_table")
      /\ builder' = [builder EXCEPT !.current_table = <<v, 1>>]
      /\ UNCHANGED <<file, error, attrs, members>>
  BY Zenon DEF visitCurrentTable, Opens
<1>3. NextIs(v) /\ error = None /\ Is(v, CurrentTables)
  <2>1. "cell" \notin CurrentTables /\ "timing" \notin CurrentTables
    BY DEF CurrentTables
  <2> QED BY <1>1, <2>1, OnVisiting
<1>4. Is(v, Objects) => "current_table" = ObjectClass[Group(v).name]
  BY <1>3 DEF Is, Objects, ObjectClass, DelayTables, PowerTables, CurrentTables
<1>5. PointersAfter(v)
  BY <1>2, <1>3 DEF PointersAfter, Is, PowerGroups, IInv, TypeOK, LibBuilder, DelayTables, PowerTables,
                    CurrentTables
<1> QED BY <1>2, <1>3, <1>4, <1>5, CreatesKinds, ChecksSame, TemplatesSame DEF EntersAs

LEMMA VisitsBus ==
  ASSUME file \in LibFiles, IInv, WalkOK, visitBus, NEW v, v = Visited PROVE EntersAs(v)
<1>1. Visits({"bus", "bundle"}) /\ {"bus", "bundle"} \in SUBSET Supported
  BY Zenon DEF visitBus, Supported
<1>2. /\ Enters(v) /\ Creates(<<v, 1>>, "bus")
      /\ builder' = [builder EXCEPT !.obj = <<v, 1>>, !.port = <<v, 1>>, !.port_bus = <<v, 1>>]
      /\ UNCHANGED <<file, error, attrs>>
  BY Zenon DEF visitBus, Opens
<1>3. NextIs(v) /\ error = None /\ Is(v, {"bus", "bundle"})
  BY <1>1, OnVisiting
<1>4. ~Is(v, Objects)
  BY <1>3 DEF Is, Objects, DelayTables, PowerTables
<1>5. PointersAfter(v)
  BY <1>2, <1>3 DEF PointersAfter, Is, PowerGroups, IInv, TypeOK, LibBuilder, DelayTables, PowerTables
<1>6. UNCHANGED HeldTemplates
  <2>1. PICK w : w = Adds(builder.cell, "cell_port_buses", "", <<Visited, 1>>)
    BY Zenon
  <2>2. Fields(w, {"cell_port_buses"}) /\ members' = w @@ members
    BY <2>1, AddsField, Zenon DEF visitBus
  <2> QED BY <2>2, TemplatesAfter
<1> QED BY <1>2, <1>3, <1>4, <1>5, <1>6, CreatesKinds, ChecksSame DEF EntersAs

\* An arc is begun where there is a port.
LEMMA VisitsTiming ==
  ASSUME file \in LibFiles, IInv, WalkOK, visitTiming, PortInUse # None, NEW v, v = Visited
  PROVE  EntersAs(v)
<1>1. Visits({"timing"}) /\ {"timing"} \in SUBSET Supported
  BY Zenon DEF visitTiming, Supported
<1>0. ~Portless(Top.g)
  <2>1. error = None /\ stack # << >>
    BY <1>1 DEF Visits, At, Reaches
  <2>2. Portless(Top.g) => Is(Top.g, {"pin", "bus", "bundle"})
    BY DEF Portless, Is
  <2> QED BY <2>1, <2>2, Reached, HomeIsThere
<1>2. /\ Enters(v) /\ Creates(<<v, 1>>, "arc")
      /\ builder' = [builder EXCEPT !.obj = None, !.arc = <<v, 1>>, !.table_model = None,
                                    !.own_port_type = "arc"]
      /\ UNCHANGED <<file, error, members>>
  BY Zenon DEF visitTiming, Opens
<1>3. NextIs(v) /\ error = None /\ Is(v, {"timing"})
  BY <1>0, <1>1, OnVisiting
<1>4. ~Is(v, Objects)
  BY <1>3 DEF Is, Objects, DelayTables, PowerTables
<1>5. PointersAfter(v)
  BY <1>2, <1>3 DEF PointersAfter, Is, PowerGroups, IInv, TypeOK, LibBuilder
<1>6. ChecksStay
  <2>1. PICK w : w = <<<<Visited, 1>>, "snk_port", "">> :> Plain(Name(PortInUse))
    BY Zenon
  <2>2. Fields(w, {"snk_port"}) /\ attrs' = w @@ attrs
    BY <2>1, PairField, Zenon DEF visitTiming
  <2> QED BY <2>2, ChecksAfter
<1> QED BY <1>2, <1>3, <1>4, <1>5, <1>6, CreatesKinds, TemplatesSame DEF EntersAs

LEMMA VisitsInternalPower ==
  ASSUME file \in LibFiles, IInv, WalkOK, visitInternalPower, NEW v, v = Visited PROVE EntersAs(v)
<1>1. Visits({"internal_power"}) /\ {"internal_power"} \in SUBSET Supported
  BY Zenon DEF visitInternalPower, Supported
<1>2. /\ Enters(v) /\ Creates(<<v, 1>>, "power_arc")
      /\ builder' = [builder EXCEPT !.obj = None, !.power_arc = <<v, 1>>, !.table_model = None,
                       !.own_port_type = "power_arc", !.own_pg_or_when_type = "power_arc"]
      /\ UNCHANGED <<file, error, members>>
  BY Zenon DEF visitInternalPower, Opens
<1>3. NextIs(v) /\ error = None /\ Is(v, {"internal_power"})
  BY <1>1, OnVisiting
<1>4. ~Is(v, Objects)
  BY <1>3 DEF Is, Objects, DelayTables, PowerTables
<1>5. PointersAfter(v)
  BY <1>2, <1>3 DEF PointersAfter, Is, PowerGroups, IInv, TypeOK, LibBuilder
<1>6. ChecksStay
  <2>1. PICK w : w = <<<<Visited, 1>>, "snk_port", "">> :> Plain(Name(PortInUse))
    BY Zenon
  <2>2. Fields(w, {"snk_port"}) /\ (attrs' = attrs \/ attrs' = w @@ attrs)
    BY <2>1, PairField, Zenon DEF visitInternalPower
  <2> QED BY <2>2, ChecksAfter, ChecksSame
<1> QED BY <1>2, <1>3, <1>4, <1>5, <1>6, CreatesKinds, TemplatesSame DEF EntersAs

\* A vector is entered only with a template known by its name.
LEMMA VisitsVector ==
  ASSUME file \in LibFiles, IInv, WalkOK, visitVector, NEW v, v = Visited,
         getLutTemplate(Group(v).names[1])
  PROVE  EntersAs(v)
<1>1. Visits({"vector"}) /\ {"vector"} \in SUBSET Supported
  BY Zenon DEF visitVector, Supported
<1>2. /\ Enters(v) /\ Creates(<<v, 1>>, "vector")
      /\ builder' = [builder EXCEPT !.obj = <<v, 1>>]
      /\ UNCHANGED <<file, error>>
  BY Zenon DEF visitVector, Opens
<1>3. NextIs(v) /\ error = None /\ Is(v, {"vector"})
  BY <1>1, OnVisiting
<1>4. Is(v, Objects) => "vector" = ObjectClass[Group(v).name]
  BY <1>3 DEF Is, Objects, ObjectClass, DelayTables, PowerTables
<1>5. PointersAfter(v)
  BY <1>2, <1>3 DEF PointersAfter, Is, PowerGroups, IInv, TypeOK, LibBuilder, DelayTables, PowerTables
<1>6. ChecksStay
  <2>1. PICK w : w = <<<<Visited, 1>>, "table_template", "">> :> Plain(TemplateOf(Visited))
    BY Zenon
  <2>2. Fields(w, {"table_template"}) /\ attrs' = w @@ attrs
    BY <2>1, PairField, Zenon DEF visitVector
  <2> QED BY <2>2, ChecksAfter
<1>7. UNCHANGED HeldTemplates
  <2>1. PICK w : w = Adds(builder.current_table, "vector_tables", "", <<Visited, 1>>)
    BY Zenon
  <2>2. Fields(w, {"vector_tables"}) /\ members' = w @@ members
    BY <2>1, AddsField, Zenon DEF visitVector
  <2> QED BY <2>2, TemplatesAfter
<1> QED BY <1>2, <1>3, <1>4, <1>5, <1>6, <1>7, CreatesKinds DEF EntersAs

LEMMA VisitsPin ==
  ASSUME file \in LibFiles, IInv, WalkOK, visitPin, NEW v, v = Visited PROVE EntersAs(v)
<1>1. Visits({"pin"}) /\ {"pin"} \in SUBSET Supported
  BY Zenon DEF visitPin, Supported
<1>2. /\ Enters(v) /\ kinds' = [o \in Ports(v) |-> "port"] @@ kinds
      /\ UNCHANGED <<file, error>>
  BY Zenon DEF visitPin
<1>3. NextIs(v) /\ error = None /\ Is(v, {"pin"})
  BY <1>1, OnVisiting
<1>4. ~Is(v, Objects)
  BY <1>3 DEF Is, Objects, DelayTables, PowerTables
<1>5. Grows(v) /\ KindsAfter(v)
  <2>1. PICK new : new = [o \in Ports(v) |-> "port"]
    OBVIOUS
  <2>2. DOMAIN new = Ports(v) /\ kinds' = new @@ kinds
    BY <1>2, <2>1
  <2>3. /\ DOMAIN (new @@ kinds) = DOMAIN new \cup DOMAIN kinds
        /\ \A z \in DOMAIN kinds \ DOMAIN new : (new @@ kinds)[z] = kinds[z]
    BY MergeIs, Zenon
  <2>4. /\ DOMAIN kinds' = Ports(v) \cup DOMAIN kinds
        /\ \A z \in DOMAIN kinds \ Ports(v) : kinds'[z] = kinds[z]
    BY <2>2, <2>3, Zenon
  <2>5. \A o \in Ports(v) : o[1] = v
    BY DEF Ports
  <2>6. NoObject(v) \/ <<v, 1>> \in Ports(v)
    <3> SUFFICES ASSUME ~NoObject(v) PROVE <<v, 1>> \in Ports(v)
      OBVIOUS
    <3>1. v \in Groups
      BY <1>3, BuiltIs DEF NextIs
    <3>2. Group(v).names \in Seq(STRING) /\ Group(v).names # << >>
      BY <1>3, <3>1, FileAssumption DEF IsLibertyFile, Groups, Group, Is, NoObject
    <3>3. 1 \in DOMAIN Group(v).names
      BY <3>2
    <3> QED BY <3>3 DEF Ports
  <2> QED BY <1>4, <2>4, <2>5, <2>6 DEF Grows, KindsAfter
<1>6. PointersAfter(v)
  <2>1. \/ builder' = builder
        \/ /\ builder.port_bus = None
           /\ \E last : builder' = [builder EXCEPT !.obj = last, !.port = last]
    BY Zenon DEF visitPin
  <2>2. CASE builder' = builder
    BY <1>3, <2>2 DEF PointersAfter, Is, PowerGroups
  <2>3. ASSUME builder.port_bus = None, NEW last, builder' = [builder EXCEPT !.obj = last, !.port = last]
        PROVE  PointersAfter(v)
    BY <1>3, <2>3 DEF PointersAfter, Is, PowerGroups, IInv, TypeOK, LibBuilder, DelayTables, PowerTables
  <2> QED BY <2>1, <2>2, <2>3
<1>7. ChecksStay
  <2>1. PICK w : w = [k \in {<<o, "port_type", "">> : o \in Ports(Visited)}
                        |-> Plain(Attr(builder.port_bus, "port_type"))]
    BY Zenon
  <2>2. PICK e : e = ""
    BY Zenon
  <2>3. DOMAIN w = {<<o, "port_type", e>> : o \in Ports(Visited)}
    BY <2>1, <2>2, Zenon
  <2>4. Fields(w, {"port_type"})
    BY <2>3 DEF Fields
  <2>5. attrs' = attrs \/ attrs' = w @@ attrs
    BY <2>1, Zenon DEF visitPin
  <2> QED BY <2>4, <2>5, ChecksAfter, ChecksSame
<1>8. UNCHANGED HeldTemplates
  <2>1. ASSUME NEW o, NEW x, members' = (<<o, "cell_ports", "">> :> x) @@ members
        PROVE  UNCHANGED HeldTemplates
    <3>1. PICK w : w = <<o, "cell_ports", "">> :> x
      BY Zenon
    <3>2. Fields(w, {"cell_ports"}) /\ members' = w @@ members
      BY <2>1, <3>1, PairField, Zenon
    <3> QED BY <3>2, TemplatesAfter
  <2>2. ASSUME NEW o, NEW x, members' = (<<o, "ports", "">> :> x) @@ members
        PROVE  UNCHANGED HeldTemplates
    <3>1. PICK w : w = <<o, "ports", "">> :> x
      BY Zenon
    <3>2. Fields(w, {"ports"}) /\ members' = w @@ members
      BY <2>2, <3>1, PairField, Zenon
    <3> QED BY <3>2, TemplatesAfter
  <2>3. \/ \E o, x : members' = (<<o, "cell_ports", "">> :> x) @@ members
        \/ \E o, x : members' = (<<o, "ports", "">> :> x) @@ members
    BY Zenon DEF visitPin
  <2> QED BY <2>1, <2>2, <2>3, Zenon
<1> QED BY <1>2, <1>3, <1>5, <1>6, <1>7, <1>8 DEF EntersAs

\* The objects a table adds: itself, and its model if it is the first.
MakesTable(v, m, kind, k) ==
  /\ DOMAIN k \subseteq {m} /\ \A z \in DOMAIN k : k[z] = kind
  /\ k # << >> => m = <<Top.g, 0>>
  /\ kinds' = (<<v, 1>> :> "table") @@ k @@ kinds
LEMMA TableKinds ==
  ASSUME NEW v, NEW m, NEW kind, NEW k, MakesTable(v, m, kind, k),
         Is(v, Objects) => ObjectClass[Group(v).name] = "table", Is(v, DelayTables \cup PowerTables)
  PROVE  /\ Grows(v) /\ KindsAfter(v)
         /\ m \in DOMAIN k => kinds'[m] = kind /\ m \in DOMAIN kinds'
         /\ \A z \in DOMAIN kinds : z # <<v, 1>> /\ z \notin DOMAIN k => kinds'[z] = kinds[z]
<1>1. PICK t : t = <<v, 1>> :> "table"
  BY Zenon
<1>2. DOMAIN t = {<<v, 1>>} /\ t[<<v, 1>>] = "table"
  BY <1>1, OnlyIs, Zenon
<1>3. kinds' = t @@ k @@ kinds
  BY <1>1, Zenon DEF MakesTable
<1>4. PICK w : w = t @@ k
  BY Zenon
<1>5. /\ DOMAIN w = DOMAIN t \cup DOMAIN k
      /\ \A z \in DOMAIN t : w[z] = t[z]
      /\ \A z \in DOMAIN k \ DOMAIN t : w[z] = k[z]
  <2>1. /\ DOMAIN (t @@ k) = DOMAIN t \cup DOMAIN k
        /\ \A z \in DOMAIN t : (t @@ k)[z] = t[z]
        /\ \A z \in DOMAIN k \ DOMAIN t : (t @@ k)[z] = k[z]
    BY MergeIs, Zenon
  <2> QED BY <1>4, <2>1
<1>6. /\ DOMAIN (w @@ kinds) = DOMAIN w \cup DOMAIN kinds
      /\ \A z \in DOMAIN w : (w @@ kinds)[z] = w[z]
      /\ \A z \in DOMAIN kinds \ DOMAIN w : (w @@ kinds)[z] = kinds[z]
  BY MergeIs, Zenon
<1>7. kinds' = w @@ kinds
  BY <1>3, <1>4, Zenon
<1>8. /\ DOMAIN kinds' = DOMAIN w \cup DOMAIN kinds
      /\ \A z \in DOMAIN w : kinds'[z] = w[z]
      /\ \A z \in DOMAIN kinds \ DOMAIN w : kinds'[z] = kinds[z]
  BY <1>6, <1>7, Zenon
<1>9. \A z \in DOMAIN k : z = m /\ m = <<Top.g, 0>> /\ z # <<v, 1>>
  <2> SUFFICES ASSUME NEW z \in DOMAIN k PROVE z = m /\ m = <<Top.g, 0>> /\ z # <<v, 1>>
    OBVIOUS
  <2>0. DOMAIN k \subseteq {m} /\ (k # << >> => m = <<Top.g, 0>>)
    BY DEF MakesTable
  <2>1. k # << >>
    <3> SUFFICES ASSUME k = << >> PROVE FALSE
      OBVIOUS
    <3> QED OBVIOUS
  <2> QED BY <2>0, <2>1
<1>10. <<v, 1>> \in DOMAIN w /\ w[<<v, 1>>] = "table"
  BY <1>2, <1>5
<1>11. \A o \in DOMAIN kinds' : o \in DOMAIN kinds \/ o = <<v, 1>> \/ o = <<Top.g, 0>>
  BY <1>2, <1>5, <1>8, <1>9, Zenon
<1>12. Grows(v)
  BY <1>8, <1>10, <1>11 DEF Grows
<1>13. ASSUME NEW o \in DOMAIN kinds, o[1] # v, o[2] # 0 PROVE kinds'[o] = kinds[o]
  <2>1. o # <<v, 1>> /\ o # <<Top.g, 0>>
    BY <1>13
  <2> QED BY <1>2, <1>5, <1>8, <1>9, <2>1
<1>14. KindsAfter(v)
  <2>1. kinds'[<<v, 1>>] = "table"
    BY <1>8, <1>10, Zenon
  <2> QED BY <1>13, <2>1 DEF KindsAfter
<1>15. m \in DOMAIN k => kinds'[m] = kind /\ m \in DOMAIN kinds'
  <2>1. \A z \in DOMAIN k : k[z] = kind
    BY DEF MakesTable
  <2> QED BY <1>2, <1>5, <1>8, <1>9, <2>1
<1>16. \A z \in DOMAIN kinds : z # <<v, 1>> /\ z \notin DOMAIN k => kinds'[z] = kinds[z]
  BY <1>2, <1>5, <1>8
<1> QED BY <1>12, <1>14, <1>15, <1>16

LEMMA AddedTable ==
  ASSUME file \in LibFiles, IInv, WalkOK, NEW names \in {DelayTables, PowerTables}, Visits(names),
         NEW v, v = Visited, NEW m, NEW kind, NEW owner, NEW field \in {"table_model", "power_table_model"},
         AddsTable(m, kind, owner, field), builder.table_model = None => m = <<Top.g, 0>>
  PROVE  /\ EntersAs(v) /\ builder'.table_model = m
         /\ builder.table_model = None => kinds'[m] = kind /\ m \in DOMAIN kinds'
         /\ builder.table_model # None => \A z \in DOMAIN kinds : z # <<v, 1>> => kinds'[z] = kinds[z]
<1>1. names \in SUBSET Supported /\ "cell" \notin names /\ "timing" \notin names
  BY Zenon DEF Supported, DelayTables, PowerTables
<1>2. PICK first : first = (builder.table_model = None)
  OBVIOUS
<1>3. PICK k : k = IF first THEN m :> kind ELSE << >>
  BY Zenon
<1>4. /\ Enters(v) /\ kinds' = (<<v, 1>> :> "table") @@ k @@ kinds
      /\ UNCHANGED <<file, error>>
  BY <1>2, <1>3, Zenon DEF AddsTable
<1>5. builder' = [builder EXCEPT !.obj = <<v, 1>>, !.table_model = m]
  BY Zenon DEF AddsTable
<1>6. NextIs(v) /\ error = None /\ Is(v, names)
  BY <1>1, OnVisiting
<1>7. /\ Is(v, DelayTables \cup PowerTables)
      /\ Is(v, Objects) => ObjectClass[Group(v).name] = "table"
  BY <1>6 DEF Is, Objects, ObjectClass, DelayTables, PowerTables
<1>8. /\ first => k = m :> kind
      /\ ~first => k = << >>
  BY <1>3, Zenon
<1>9. /\ first => DOMAIN k = {m} /\ k[m] = kind
      /\ ~first => DOMAIN k = {}
  <2>1. DOMAIN (m :> kind) = {m} /\ (m :> kind)[m] = kind
    BY OnlyIs
  <2>2. ASSUME k = << >> PROVE DOMAIN k = {}
    BY <2>2
  <2> QED BY <1>8, <2>1, <2>2, Zenon
<1>10. /\ DOMAIN k \subseteq {m} /\ \A z \in DOMAIN k : k[z] = kind
       /\ k # << >> => m = <<Top.g, 0>>
  BY <1>2, <1>8, <1>9
<1>11. /\ Grows(v) /\ KindsAfter(v)
       /\ m \in DOMAIN k => kinds'[m] = kind /\ m \in DOMAIN kinds'
       /\ \A z \in DOMAIN kinds : z # <<v, 1>> /\ z \notin DOMAIN k => kinds'[z] = kinds[z]
  <2>1. DOMAIN k \subseteq {m}
    BY <1>10
  <2>2. \A z \in DOMAIN k : k[z] = kind
    BY <1>10
  <2>3. k # << >> => m = <<Top.g, 0>>
    BY <1>10
  <2>4. Is(v, Objects) => ObjectClass[Group(v).name] = "table"
    BY <1>7
  <2>5. Is(v, DelayTables \cup PowerTables)
    BY <1>7
  <2>6. kinds' = (<<v, 1>> :> "table") @@ k @@ kinds
    BY <1>4, Zenon
  <2>7. MakesTable(v, m, kind, k)
    BY <2>1, <2>2, <2>3, <2>6, Zenon DEF MakesTable
  <2> QED BY <2>4, <2>5, <2>7, TableKinds
<1>12. PointersAfter(v)
  BY <1>5, <1>7 DEF PointersAfter, Is, PowerGroups, IInv, TypeOK, LibBuilder, DelayTables, PowerTables
<1>13. ChecksStay
  <2>1. PICK w : w = <<<<Visited, 1>>, "table_template", "">> :> Plain(TemplateOf(Visited))
    BY Zenon
  <2>2. Fields(w, {"table_template"}) /\ attrs' = w @@ attrs
    BY <2>1, PairField, Zenon DEF AddsTable
  <2> QED BY <2>2, ChecksAfter
<1>14. UNCHANGED HeldTemplates
  <2>1. PICK a, b : /\ a = Puts(m, "tables", Place[Group(Visited).name], <<Visited, 1>>)
                    /\ b = IF first THEN Puts(owner, field, "", m) ELSE << >>
    BY Zenon
  <2>2. PICK S : S = {"tables", "table_model", "power_table_model"}
    OBVIOUS
  <2>3. field \in S /\ "tables" \in S /\ "lut_templates" \notin S
    BY <2>2
  <2>4. Fields(a, S)
    BY <2>1, <2>3, AddsField, Zenon
  <2>5. Fields(b, S)
    <3>1. Fields(Puts(owner, field, "", m), S) /\ Fields(<< >>, S)
      BY <2>3, AddsField, NoFields, Zenon
    <3>2. b = Puts(owner, field, "", m) \/ b = << >>
      BY <2>1, Zenon
    <3> QED BY <3>1, <3>2, Zenon
  <2>6. members' = a @@ b @@ members
    BY <1>2, <2>1, Zenon DEF AddsTable
  <2>7. Fields(a @@ b, S)
    BY <2>4, <2>5, MergeFields, Zenon
  <2> QED BY <2>3, <2>6, <2>7, TemplatesAfter, Zenon
<1>15. builder'.table_model = m
  BY <1>5 DEF IInv, TypeOK, LibBuilder
<1>16. EntersAs(v)
  BY <1>4, <1>6, <1>11, <1>12, <1>13, <1>14 DEF EntersAs
<1> QED BY <1>2, <1>9, <1>11, <1>15, <1>16

\* A delay table goes to the model of its arc, which has the class of the arc.
ModelFor(g) == IF isCheckArc(<<g, 1>>) THEN "check_model" ELSE "delay_model"
LEMMA VisitsTable ==
  ASSUME file \in LibFiles, IInv, WalkOK, ModelOK, visitTable, NEW v, v = Visited
  PROVE  /\ NextIs(v) /\ error = None /\ Is(v, DelayTables) /\ Is(Top.g, {"timing"})
         /\ \/ /\ isCheckArc(<<Top.g, 1>>) /\ ~FitsCheckModel(Group(v).name)
               /\ Stop("out of bounds")
            \/ /\ EntersAs(v)
               /\ isCheckArc(<<Top.g, 1>>) => FitsCheckModel(Group(v).name)
               /\ builder'.table_model = <<Top.g, 0>> /\ <<Top.g, 0>> \in DOMAIN kinds'
               /\ kinds'[<<Top.g, 0>>] = ModelFor(Top.g)
<1>1. /\ Visits(DelayTables) /\ DelayTables \in SUBSET Supported
      /\ "cell" \notin DelayTables /\ "timing" \notin DelayTables
  BY Zenon DEF visitTable, Supported, DelayTables
<1>2. /\ NextIs(v) /\ error = None /\ Is(v, DelayTables) /\ AtHome(Top.g, TRUE)
      /\ <<Group(v).name, Group(Top.g).name>> \in Nesting
  BY <1>1, OnVisiting
<1>3. Is(Top.g, {"timing"}) /\ Top \in Frames
  BY <1>2, ParentOf, OpenFrames DEF Is, NextIs, IInv, WalkOK
<1>4. builder.arc = <<Top.g, 1>>
  BY <1>2, <1>3 DEF AtHome
<1>5. \/ builder.table_model = None
      \/ /\ builder.table_model = <<Top.g, 0>> /\ <<Top.g, 0>> \in DOMAIN kinds
         /\ kinds[<<Top.g, 0>>] = ModelFor(Top.g)
  BY <1>3 DEF ModelOK, ModelFor
<1>6. PICK a, m, kind : /\ a = builder.arc /\ m = ModelOf(a)
                        /\ kind = ModelKind(m, IF isCheckArc(a) THEN "check_model" ELSE "delay_model")
  BY Zenon
<1>7. /\ m = <<Top.g, 0>> /\ kind = ModelFor(Top.g) /\ a = <<Top.g, 1>>
  BY <1>4, <1>5, <1>6 DEF ModelOf, ModelKind, ModelFor
<1>8. kind = "check_model" <=> isCheckArc(<<Top.g, 1>>)
  BY <1>7 DEF ModelFor
<1>9. \/ kind = "check_model" /\ ~FitsCheckModel(Group(v).name) /\ Stop("out of bounds")
      \/ /\ kind = "check_model" => FitsCheckModel(Group(v).name)
         /\ AddsTable(m, kind, a, "table_model")
  BY <1>6, Zenon DEF visitTable
<1>10. ASSUME AddsTable(m, kind, a, "table_model")
       PROVE  /\ EntersAs(v) /\ builder'.table_model = <<Top.g, 0>> /\ <<Top.g, 0>> \in DOMAIN kinds'
              /\ kinds'[<<Top.g, 0>>] = ModelFor(Top.g)
  <2>1. /\ EntersAs(v) /\ builder'.table_model = m
        /\ builder.table_model = None => kinds'[m] = kind /\ m \in DOMAIN kinds'
        /\ builder.table_model # None => \A z \in DOMAIN kinds : z # <<v, 1>> => kinds'[z] = kinds[z]
    BY <1>1, <1>7, <1>10, AddedTable
  <2>2. <<Top.g, 0>> # <<v, 1>>
    OBVIOUS
  <2>3. DOMAIN kinds \subseteq DOMAIN kinds'
    BY <2>1 DEF EntersAs, Grows
  <2> QED BY <1>5, <1>7, <2>1, <2>2, <2>3
<1> QED BY <1>2, <1>3, <1>8, <1>9, <1>10

LEMMA VisitsPowerTable ==
  ASSUME file \in LibFiles, IInv, WalkOK, visitPowerTable, NEW v, v = Visited
  PROVE  EntersAs(v) /\ Is(v, PowerTables)
<1>1. /\ Visits(PowerTables) /\ PowerTables \in SUBSET Supported
      /\ "cell" \notin PowerTables /\ "timing" \notin PowerTables
  BY Zenon DEF visitPowerTable, Supported, PowerTables
<1>2. /\ NextIs(v) /\ error = None /\ Is(v, PowerTables) /\ AtHome(Top.g, TRUE)
      /\ <<Group(v).name, Group(Top.g).name>> \in Nesting
  BY <1>1, OnVisiting
<1>3. Is(Top.g, {"internal_power"})
  BY <1>2, ParentOf DEF Is
<1>4. builder.power_arc = <<Top.g, 1>>
  BY <1>2, <1>3 DEF AtHome
<1>5. PICK a, m, kind : /\ a = builder.power_arc /\ m = ModelOf(a)
                        /\ kind = ModelKind(m, "power_model")
  BY Zenon
<1>6. builder.table_model = None => m = <<Top.g, 0>>
  BY <1>4, <1>5 DEF ModelOf
<1>7. AddsTable(m, kind, a, "power_table_model")
  BY <1>5, Zenon DEF visitPowerTable
<1> QED BY <1>1, <1>2, <1>6, <1>7, AddedTable

-----------------------------------------------------------------------------
(***************************************************************************)
(* A fault is of the file, but for the type of an arc, which is set before *)
(* the first group of the arc is entered.                                  *)
(***************************************************************************)
LEMMA FaultsStay ==
  ASSUME UNCHANGED file
  PROVE  /\ \A g, i : Broken(g, i)' <=> Broken(g, i)
         /\ \A g, i : Blocks(g, i)' <=> Blocks(g, i)
         /\ \A g : Unknown(g)' <=> Unknown(g)
         /\ \A g : Unset(g)' <=> Unset(g)
         /\ \A g : NoName(g)' <=> NoName(g)
         /\ \A g : (isCheckArc(<<Parent(g), 1>>)' <=> isCheckArc(<<Parent(g), 1>>)) =>
              (NoDelay(g)' <=> NoDelay(g)) /\ (Slew(g)' <=> Slew(g))
<1>1. /\ BuiltGroups' = BuiltGroups
      /\ \A g : Group(g)' = Group(g) /\ Parent(g)' = Parent(g) /\ Stmts(g)' = Stmts(g)
      /\ \A g : Left(g)' = Left(g) /\ InBus(g)' = InBus(g) /\ GroupStmts(g)' = GroupStmts(g)
      /\ \A g, names : Is(g, names)' = Is(g, names)
      /\ \A names, p : Children(names, p)' = Children(names, p)
  BY FileStays
<1>2. ASSUME NEW g, NEW i
      PROVE  (Broken(g, i)' <=> Broken(g, i)) /\ (Blocks(g, i)' <=> Blocks(g, i))
  <2>1. Late(g, i)' <=> Late(g, i)
    BY <1>1, Zenon DEF Late
  <2>2. \A s : Flawed(s)' <=> Flawed(s)
    BY <1>1, Zenon DEF Flawed, Nameless
  <2>3. Portless(g)' <=> Portless(g)
    BY <1>1, Zenon DEF Portless
  <2>4. Broken(g, i)' <=> Broken(g, i)
    BY <1>1, <2>2, <2>3, Zenon DEF Broken
  <2> QED BY <2>1, <2>4, Zenon DEF Blocks
<1>3. ASSUME NEW g PROVE Unknown(g)' <=> Unknown(g)
  BY <1>1, Zenon DEF Unknown
<1>4. ASSUME NEW g PROVE (Unset(g)' <=> Unset(g)) /\ (NoName(g)' <=> NoName(g))
  BY <1>1, Zenon DEF Unset, HasStmt, NoName, Nameless
<1>5. ASSUME NEW g, isCheckArc(<<Parent(g), 1>>)' <=> isCheckArc(<<Parent(g), 1>>)
      PROVE  (NoDelay(g)' <=> NoDelay(g)) /\ (Slew(g)' <=> Slew(g))
  BY <1>1, <1>5, Zenon DEF NoDelay, Slew
<1> QED BY <1>2, <1>3, <1>4, <1>5

\* The types of the arcs stay but for the one whose own statement is visited.
ArcsStay ==
  \A a : (isCheckArc(a)' <=> isCheckArc(a)) \/ (a = <<Top.g, 1>> /\ IsSimple(Top.g, Current))

LEMMA ChecksOfSeen ==
  ASSUME file \in LibFiles, TypeOK, WalkOK, stack # << >>, Top.left # {}, ArcsStay,
         NEW g \in BuiltGroups \ {1}, Seen(g), NEW p, p = Parent(g)
  PROVE  isCheckArc(<<p, 1>>)' <=> isCheckArc(<<p, 1>>)
<1> SUFFICES ASSUME p = Top.g, IsSimple(Top.g, Current) PROVE FALSE
  BY DEF ArcsStay
<1>1. p \in BuiltGroups /\ g \in Groups \ {1} /\ Top \in Frames
  BY BuiltNest, OpenFrames DEF WalkOK
<1>2. PICK i \in DOMAIN Stmts(p) : IsGroupStmt(p, i, g)
  BY <1>1, Numbered
<1>3. i \in Left(p) /\ ~IsSimple(p, i)
  BY <1>1, <1>2, StatementTells
<1>4. i \notin Top.left
  BY <1>1, <1>2 DEF WalkOK, NotYet
<1>5. Current \in Top.left
  BY CurrentIs
<1> QED BY <1>1, <1>3, <1>4, <1>5 DEF WalkOK, SimpleFirst

LEMMA SameArcs == ASSUME ChecksStay PROVE ArcsStay
  BY DEF ChecksStay, ArcsStay

\* The faults of a group that was entered stay what they are.
LEMMA SeenFaults ==
  ASSUME file \in LibFiles, TypeOK, WalkOK, UNCHANGED file,
         ChecksStay \/ (stack # << >> /\ Top.left # {} /\ ArcsStay),
         NEW g \in BuiltGroups, Seen(g)
  PROVE  /\ \A i : Blocks(g, i)' <=> Blocks(g, i)
         /\ (Unknown(g)' <=> Unknown(g)) /\ (NoName(g)' <=> NoName(g))
         /\ NoDelay(g)' <=> NoDelay(g)
         /\ Slew(g)' <=> Slew(g)
<1>1. PICK p : p = Parent(g)
  OBVIOUS
<1>2. CASE g = 1
  <2>1. ~Is(1, CurrentTables) /\ ~Is(1, {"rise_transition", "fall_transition"})
    BY GroupsOfFile DEF Is, CurrentTables
  <2>2. ~Is(1, CurrentTables)' /\ ~Is(1, {"rise_transition", "fall_transition"})'
    BY <2>1 DEF Is, Group
  <2> QED BY <1>2, <2>1, <2>2, FaultsStay DEF NoDelay, Slew
<1>3. CASE g # 1
  <2>1. isCheckArc(<<p, 1>>)' <=> isCheckArc(<<p, 1>>)
    BY <1>1, <1>3, ChecksOfSeen DEF ChecksStay
  <2>2. isCheckArc(<<Parent(g), 1>>)' <=> isCheckArc(<<Parent(g), 1>>)
    <3>1. Parent(g)' = p
      BY <1>1 DEF Parent, Group
    <3>2. isCheckArc(<<Parent(g), 1>>)' <=> isCheckArc(<<p, 1>>)'
      BY <3>1, Zenon DEF isCheckArc, Attr
    <3> QED BY <1>1, <2>1, <3>2
  <2> QED BY <2>2, FaultsStay
<1> QED BY <1>2, <1>3

-----------------------------------------------------------------------------
(***************************************************************************)
(* Entering a group.                                                       *)
(***************************************************************************)
LEMMA Entered ==
  ASSUME file \in LibFiles, IInv, WalkOK, NEW v, EntersAs(v)
  PROVE  /\ WalkOK'
         /\ v \in BuiltGroups \ {1} /\ Parent(v) = Top.g /\ Top \in Frames /\ stack # << >>
         /\ <<Group(v).name, Group(Top.g).name>> \in Nesting
         /\ Frames' = (Frames \ {Top}) \cup {Rest, [g |-> v, left |-> Left(v)]}
         /\ Rest.g = Top.g /\ Rest.left = Top.left \ {Current}
         /\ \A g : Seen(g)' <=> Seen(g) \/ g = v
         /\ \A g : Open(g)' <=> Open(g) \/ g = v
         /\ ~Seen(v) /\ ~Open(v) /\ Open(Top.g)
         /\ \A h \in BuiltGroups : Seen(h) => h < v
         /\ \A g \in BuiltGroups : ~Seen(g) => v <= g
         /\ \A f \in Frames : f.g \in BuiltGroups /\ Seen(f.g)
<1>1. /\ NextIs(v) /\ Enters(v) /\ Grows(v) /\ UNCHANGED file /\ TypeOK
  BY DEF EntersAs, IInv
<1>2. /\ v \in BuiltGroups \ {1} /\ Parent(v) = Top.g /\ stack # << >>
  BY <1>1 DEF NextIs
<1>3. /\ Top \in Frames /\ \A f \in Frames : f = Top \/ f.g < Top.g
      /\ \A f \in Frames : f.g \in BuiltGroups /\ Seen(f.g)
  BY <1>1, <1>2, OpenFrames, OpenIsBuilt DEF WalkOK
<1>4. /\ ~Seen(v) /\ Top.g < v
      /\ \A h \in BuiltGroups : Seen(h) => h < v
      /\ \A g \in BuiltGroups : ~Seen(g) => v <= g
  BY <1>1, FirstLeft
<1>5. v \in Groups /\ <<Group(v).name, Group(Top.g).name>> \in Nesting
  BY <1>2, BuiltIs, BuiltNest
<1>6. /\ Frames' = (Frames \ {Top}) \cup {Rest, [g |-> v, left |-> Left(v)]}
      /\ Rest.g = Top.g /\ Rest.left = Top.left \ {Current}
  <2>1. \A f \in Frames : f.g < v
    BY <1>3, <1>4
  <2> QED BY <1>1, <1>2, <1>5, <2>1, FramesAfterEntering, AdvancedIs DEF WalkOK
<1>7. \A g : Seen(g)' <=> Seen(g) \/ g = v
  BY <1>1, SeenAfterEntering
<1> DEFINE entered == [g |-> v, left |-> Left(v)]
<1>8. entered = [g |-> v, left |-> Left(v)] /\ entered.g = v
  OBVIOUS
<1> HIDE DEF entered
<1>9. \A f : f \in Frames' <=> (f \in Frames /\ f # Top) \/ f = Rest \/ f = entered
  BY <1>6, <1>8
<1>10. ASSUME NEW g PROVE Open(g)' <=> Open(g) \/ g = v
  <2>1. ASSUME NEW f \in Frames', f.g = g PROVE Open(g) \/ g = v
    BY <1>3, <1>6, <1>8, <1>9, <2>1 DEF Open
  <2>2. ASSUME NEW f \in Frames, f.g = g PROVE Open(g)'
    BY <1>3, <1>6, <1>8, <1>9, <2>2 DEF Open
  <2>3. Open(v)'
    BY <1>8, <1>9 DEF Open
  <2> QED BY <2>1, <2>2, <2>3 DEF Open
<1>11. ~Open(v) /\ Open(Top.g)
  BY <1>3, <1>4 DEF Open
<1>12. WalkOK'
  BY <1>1, WalkEnters
<1> QED BY <1>2, <1>3, <1>4, <1>5, <1>6, <1>7, <1>10, <1>11, <1>12

LEMMA KindsAfterEntering ==
  ASSUME file \in LibFiles, IInv, WalkOK, KindsByName, NEW v, EntersAs(v) PROVE KindsByName'
<1>1. /\ BuiltGroups' = BuiltGroups /\ \A g : Group(g)' = Group(g)
      /\ \A g, names : Is(g, names)' = Is(g, names)
  BY FileStays DEF EntersAs
<1>2. KindsAfter(v) /\ \A g : Seen(g)' <=> Seen(g) \/ g = v
  BY Entered DEF EntersAs
<1> SUFFICES ASSUME NEW g \in BuiltGroups, Seen(g) \/ g = v, Is(g, Objects)
             PROVE  kinds'[<<g, 1>>] = ObjectClass[Group(g).name]
  BY <1>1, <1>2 DEF KindsByName, ObjectClass
<1>3. CASE g = v
  BY <1>2, <1>3 DEF KindsAfter
<1>4. CASE g # v
  <2>0. ~NoObject(g)
    BY DEF NoObject, Is, Objects, DelayTables, PowerTables
  <2>1. <<g, 1>> \in DOMAIN kinds /\ <<g, 1>>[1] # v /\ <<g, 1>>[2] # 0
    BY <1>4, <2>0, SeenHasObject
  <2>2. kinds'[<<g, 1>>] = kinds[<<g, 1>>]
    BY <1>2, <2>1 DEF KindsAfter
  <2> QED BY <1>4, <2>2 DEF KindsByName
<1> QED BY <1>3, <1>4

LEMMA FlagAfterEntering ==
  ASSUME file \in LibFiles, IInv, WalkOK, FlagOK, NEW v, EntersAs(v) PROVE FlagOK'
<1>1. /\ BuiltGroups' = BuiltGroups /\ \A g, names : Is(g, names)' = Is(g, names)
  BY FileStays DEF EntersAs
<1>2. PointersAfter(v) /\ (\A g : Seen(g)' <=> Seen(g) \/ g = v) /\ v \in BuiltGroups
  BY Entered DEF EntersAs
<1>3. <<v, 1>> # None
  BY <1>2, BuiltIs, GroupsOfFile, NoneAssumption
<1>4. /\ Is(v, {"leakage_power"}) =>
           builder'.own_pg_or_when_type = "leakage_power" /\ builder'.leakage_power = <<v, 1>>
      /\ Is(v, {"internal_power"}) => builder'.own_pg_or_when_type = "power_arc"
      /\ ~Is(v, PowerGroups) => builder'.own_pg_or_when_type = builder.own_pg_or_when_type
      /\ ~Is(v, {"leakage_power"}) => builder'.leakage_power = builder.leakage_power
      /\ Is(v, PowerGroups) <=> Is(v, {"leakage_power"}) \/ Is(v, {"internal_power"})
  BY <1>2 DEF PointersAfter, Is, PowerGroups
<1>5. (builder.own_pg_or_when_type \in {"unset", "leakage_power", "power_arc"})'
  BY <1>4 DEF FlagOK
<1>6. builder'.own_pg_or_when_type = "leakage_power" => builder'.leakage_power # None
  BY <1>3, <1>4 DEF FlagOK
<1>7. ASSUME builder'.own_pg_or_when_type = "unset", NEW g \in BuiltGroups, Is(g, PowerGroups), Seen(g) \/ g = v
      PROVE  FALSE
  BY <1>4, <1>7 DEF FlagOK
<1> QED BY <1>1, <1>2, <1>5, <1>6, <1>7 DEF FlagOK

LEMMA TemplatesAfterEntering ==
  ASSUME file \in LibFiles, IInv, WalkOK, TemplatesOK, NEW v, EntersAs(v) PROVE TemplatesOK'
<1>1. /\ BuiltGroups' = BuiltGroups /\ \A g, names : Is(g, names)' = Is(g, names)
  BY FileStays DEF EntersAs
<1>2. /\ \A g : Seen(g)' <=> Seen(g) \/ g = v
      /\ \A g : Open(g)' <=> Open(g) \/ g = v
      /\ HeldTemplates' = HeldTemplates
  BY Entered DEF EntersAs
<1> QED BY <1>1, <1>2 DEF TemplatesOK

\* The arc whose model it is, as it is open.
ModelIs(g) ==
  IF SeenTables(g) = {} THEN builder.table_model = None
  ELSE /\ builder.table_model = <<g, 0>> /\ <<g, 0>> \in DOMAIN kinds
       /\ kinds[<<g, 0>>] = ModelFor(g)
LEMMA ModelOKIs == ModelOK <=> \A g : Open(g) /\ Is(g, {"timing"}) => ModelIs(g)
  BY DEF ModelOK, ModelIs, ModelFor, Open

\* Only one group of a level is open.
LEMMA OneOfLevel ==
  ASSUME file \in LibFiles, TypeOK, WalkOK, stack # << >>, NEW g, Open(g)
  PROVE  /\ g \in BuiltGroups /\ Seen(g) /\ g <= Top.g
         /\ Level[Group(g).name] \in 0 .. 6 /\ Level[Group(Top.g).name] \in 0 .. 6
         /\ g = Top.g \/ Level[Group(g).name] < Level[Group(Top.g).name]
         /\ \A h : Open(h) /\ Level[Group(h).name] = Level[Group(g).name] => h = g
<1>1. PICK f \in Frames : f.g = g
  BY DEF Open
<1>2. Increasing
  BY DEF WalkOK
<1>3. /\ Top \in Frames
      /\ \A e \in Frames : /\ e.g \in Nat /\ Group(e.g).name \in Supported \cup {"library"}
                           /\ e = Top \/ (e.g < Top.g /\ Level[Group(e.g).name] < Level[Group(Top.g).name])
      /\ \A e, h \in Frames : e.g = h.g \/ Level[Group(e.g).name] = Level[Group(h.g).name] => e = h
  BY <1>2, OpenFrames
<1>4. f.g \in BuiltGroups /\ Seen(f.g)
  BY OpenIsBuilt DEF WalkOK
<1>5. Level[Group(f.g).name] \in 0 .. 6 /\ Level[Group(Top.g).name] \in 0 .. 6
  BY <1>3, LevelIsNat
<1>6. \A h : Open(h) /\ Level[Group(h).name] = Level[Group(g).name] => h = g
  BY <1>1, <1>3 DEF Open
<1> QED BY <1>1, <1>3, <1>4, <1>5, <1>6

LEMMA ModelAfterEntering ==
  ASSUME file \in LibFiles, IInv, WalkOK, ModelOK, NEW v, EntersAs(v),
         Is(v, DelayTables) =>
           /\ builder'.table_model = <<Top.g, 0>> /\ <<Top.g, 0>> \in DOMAIN kinds'
           /\ kinds'[<<Top.g, 0>>] = ModelFor(Top.g)
  PROVE  ModelOK'
<1>1. /\ BuiltGroups' = BuiltGroups
      /\ \A g, names : Is(g, names)' = Is(g, names)
      /\ \A names, p : Children(names, p)' = Children(names, p)
  BY FileStays DEF EntersAs
<1>2. /\ v \in BuiltGroups \ {1} /\ Parent(v) = Top.g /\ stack # << >>
      /\ <<Group(v).name, Group(Top.g).name>> \in Nesting
      /\ \A g : Seen(g)' <=> Seen(g) \/ g = v
      /\ \A g : Open(g)' <=> Open(g) \/ g = v
      /\ Open(Top.g) /\ ~Seen(v) /\ \A h \in BuiltGroups : Seen(h) => h < v
  BY Entered
<1>3. /\ KindsAfter(v) /\ PointersAfter(v) /\ DOMAIN kinds \subseteq DOMAIN kinds' /\ TypeOK
  BY DEF EntersAs, IInv, Grows
<1>4. \A g : ModelFor(g)' = ModelFor(g)
  BY Zenon DEF EntersAs, ChecksStay, ModelFor
<1>5. \A g : SeenTables(g)' = {h \in Children(DelayTables, g) : Seen(h) \/ h = v}
  BY <1>1, <1>2 DEF SeenTables, DelayTables
<1>6. SUFFICES ASSUME NEW g, Open(g)', Is(g, {"timing"}) PROVE ModelIs(g)'
  BY <1>1 DEF ModelOK, ModelIs, ModelFor, Open
<1>7. CASE g = v
  <2>1. builder'.table_model = None
    BY <1>3, <1>6, <1>7 DEF PointersAfter
  <2>2. ASSUME NEW h \in BuiltGroups, Parent(h) = v, Seen(h) \/ h = v PROVE FALSE
    <3>1. h # 1
      <4>1. Parent(1) = 0 /\ 0 \notin Groups
        BY Numbered
      <4> QED BY <1>2, <2>2, <4>1, BuiltIs
    <3>2. v < h /\ h \in Nat /\ v \in Nat
      BY <1>2, <2>2, <3>1, BuiltNest, BuiltIs, GroupsOfFile
    <3> QED BY <1>2, <2>2, <3>2
  <2>3. SeenTables(v)' = {}
    BY <1>5, <2>2 DEF Children
  <2> QED BY <1>7, <2>1, <2>3 DEF ModelIs
<1>8. CASE g # v
  <2>1. Open(g)
    BY <1>2, <1>6, <1>8
  <2>2. /\ g = Top.g \/ Level[Group(g).name] < Level[Group(Top.g).name]
        /\ Level[Group(g).name] = 4 /\ Level[Group(Top.g).name] \in 0 .. 6
        /\ \A h : Open(h) /\ Level[Group(h).name] = 4 => h = g
    BY <1>2, <1>3, <1>6, <2>1, OneOfLevel, Levels DEF Is
  <2>3. CASE Is(v, DelayTables)
    <3>1. Group(Top.g).name = "timing"
      BY <1>2, <2>3, ParentOf DEF Is
    <3>2. Top.g = g
      BY <1>2, <2>2, <3>1, Levels
    <3>3. v \in SeenTables(g)'
      BY <1>2, <1>5, <2>3, <3>2 DEF Children
    <3> QED BY <1>4, <2>3, <3>2, <3>3 DEF ModelIs
  <2>4. CASE ~Is(v, DelayTables)
    <3>1. ~Is(v, {"timing", "internal_power"} \cup PowerTables)
      <4>1. PICK a, b : a = Group(v).name /\ b = Group(Top.g).name /\ <<a, b>> \in Nesting
        BY <1>2
      <4>2. a # "timing" /\ a # "internal_power"
        <5>1. Level[b] < Level[a] /\ Level[b] >= 4
          BY <1>6, <2>2, <4>1, Deeper, Levels DEF Is
        <5> QED BY <5>1, <4>1, <2>2, Levels
      <4>3. ASSUME a \in PowerTables PROVE FALSE
        <5>1. b = "internal_power"
          BY <4>1, <4>3, ParentOf
        <5>2. Top.g = g
          BY <1>2, <2>2, <4>1, <5>1, Levels
        <5> QED BY <1>6, <4>1, <5>1, <5>2 DEF Is
      <4> QED BY <4>1, <4>2, <4>3 DEF Is
    <3>2. builder'.table_model = builder.table_model
      BY <1>3, <2>4, <3>1 DEF PointersAfter, Is
    <3>3. SeenTables(g)' = SeenTables(g)
      BY <1>5, <2>4 DEF SeenTables, Children
    <3>4. ModelIs(g)
      BY <1>6, <2>1, ModelOKIs
    <3>5. <<g, 0>> \in DOMAIN kinds => <<g, 0>> \in DOMAIN kinds' /\ kinds'[<<g, 0>>] = kinds[<<g, 0>>]
      <4>1. <<g, 0>>[1] # v /\ ~Is(v, DelayTables \cup PowerTables)
        BY <1>8, <2>4, <3>1 DEF Is
      <4> QED BY <1>3, <4>1 DEF KindsAfter
    <3> QED BY <1>4, <3>2, <3>3, <3>4, <3>5 DEF ModelIs
  <2> QED BY <2>3, <2>4
<1> QED BY <1>7, <1>8

LEMMA OpenAtHome ==
  ASSUME file \in LibFiles, IInv, error = None, NEW g, Open(g) PROVE AtHome(g, FALSE)
<1>1. PICK k \in 1 .. Len(stack) : stack[k].g = g
  BY DEF Open, Frames
<1>2. AtHome(stack[k].g, k = Len(stack))
  BY DEF IInv, PointersAtHome
<1> QED BY <1>1, <1>2, NotOnTop

\* A group that was not entered has no group of its own that was.
LEMMA NoneInside ==
  ASSUME file \in LibFiles, TypeOK, WalkOK, NEW v \in BuiltGroups, ~Seen(v),
         NEW h \in BuiltGroups, Parent(h) = v
  PROVE  ~Seen(h) /\ h # v
<1>1. h # 1
  <2>1. Parent(1) = 0 /\ 0 \notin Groups
    BY Numbered
  <2> QED BY <2>1, BuiltIs
<1>2. v < h /\ h \in Nat /\ v \in Nat
  BY <1>1, BuiltNest, BuiltIs, GroupsOfFile
<1>3. Seen(h) => h < v
  BY DEF WalkOK, InOrder
<1> QED BY <1>2, <1>3

BusIs(g) == builder.port = None <=> LeftPins(g) # {}
LEMMA BusAfterEntering ==
  ASSUME file \in LibFiles, IInv, WalkOK, BusOK, NEW v, EntersAs(v) PROVE BusOK'
<1>1. /\ BuiltGroups' = BuiltGroups
      /\ \A g, names : Is(g, names)' = Is(g, names)
      /\ \A names, p : Children(names, p)' = Children(names, p)
  BY FileStays DEF EntersAs
<1>2. /\ v \in BuiltGroups \ {1} /\ Parent(v) = Top.g /\ stack # << >>
      /\ <<Group(v).name, Group(Top.g).name>> \in Nesting
      /\ \A g : Seen(g)' <=> Seen(g) \/ g = v
      /\ \A g : Open(g)' <=> Open(g) \/ g = v
      /\ Open(Top.g) /\ ~Seen(v)
  BY Entered
<1>3. PointersAfter(v) /\ TypeOK /\ error = None
  BY DEF EntersAs, IInv
<1>4. \A g : LeftPins(g)' = {h \in Children({"pin"}, g) : Seen(h) /\ ~Open(h) /\ h # v}
  <2>1. \A h : Seen(h)' /\ ~Open(h)' <=> Seen(h) /\ ~Open(h) /\ h # v
    BY <1>2
  <2> QED BY <1>1, <2>1 DEF LeftPins
<1>5. SUFFICES ASSUME NEW g, Open(g)', Is(g, {"bus", "bundle"}) PROVE BusIs(g)'
  BY <1>1 DEF BusOK, BusIs, Open
<1>6. CASE g = v
  <2>1. builder'.port = <<v, 1>>
    BY <1>3, <1>5, <1>6 DEF PointersAfter
  <2>2. <<v, 1>> # None
    BY <1>2, BuiltIs, GroupsOfFile, NoneAssumption
  <2>3. LeftPins(v)' = {}
    BY <1>2, <1>3, <1>4, NoneInside DEF Children
  <2> QED BY <1>6, <2>1, <2>2, <2>3 DEF BusIs
<1>7. CASE g # v
  <2>1. Open(g)
    BY <1>2, <1>5, <1>7
  <2>2. /\ g = Top.g \/ Level[Group(g).name] < Level[Group(Top.g).name]
        /\ Level[Group(g).name] = 2 /\ Level[Group(Top.g).name] \in 0 .. 6
        /\ g \in BuiltGroups
    BY <1>2, <1>3, <1>5, <2>1, OneOfLevel, Levels DEF Is
  <2>3. ~Is(v, {"bus", "bundle", "lu_table_template", "power_lut_template", "type"})
    <3>1. PICK a, b : a = Group(v).name /\ b = Group(Top.g).name /\ <<a, b>> \in Nesting
      BY <1>2
    <3>2. Level[b] < Level[a] /\ Level[b] >= 2
      BY <2>2, <3>1, Deeper
    <3>3. a \notin {"bus", "bundle"}
      BY <2>2, <3>1, <3>2, Levels
    <3>4. a \in {"lu_table_template", "power_lut_template", "type"} => b = "library"
      BY <3>1, ParentOf
    <3> QED BY <3>1, <3>2, <3>3, <3>4, Levels DEF Is
  <2>4. builder.port_bus # None
    <3>1. builder.port_bus = <<g, 1>>
      BY <1>3, <1>5, <2>1, OpenAtHome DEF AtHome
    <3> QED BY <2>2, <3>1, BuiltIs, GroupsOfFile, NoneAssumption
  <2>5. builder'.port = builder.port
    BY <1>3, <2>3, <2>4 DEF PointersAfter, Is
  <2>6. LeftPins(g)' = LeftPins(g)
    BY <1>2, <1>4 DEF LeftPins
  <2>7. BusIs(g)
    BY <1>5, <2>1 DEF BusOK, BusIs, Open
  <2> QED BY <2>5, <2>6, <2>7 DEF BusIs
<1> QED BY <1>6, <1>7

LEMMA FaultsAfterEntering ==
  ASSUME file \in LibFiles, IInv, WalkOK, BlocksAhead, CurrentsAhead, TablesAhead,
         NEW v, EntersAs(v), ~Slew(v), ~Unknown(v)
  PROVE  BlocksAhead' /\ CurrentsAhead' /\ TablesAhead'
<1>1. BuiltGroups' = BuiltGroups /\ \A g : Left(g)' = Left(g)
  BY FileStays DEF EntersAs
<1>2. /\ Frames' = (Frames \ {Top}) \cup {Rest, [g |-> v, left |-> Left(v)]}
      /\ Rest.g = Top.g /\ Rest.left = Top.left \ {Current}
      /\ \A g : Seen(g)' <=> Seen(g) \/ g = v
      /\ \A g : Open(g)' <=> Open(g) \/ g = v
  BY Entered
<1>3. /\ UNCHANGED file /\ ChecksStay /\ TypeOK /\ Stmts(Top.g)[Current].kind = "group"
  BY DEF EntersAs, IInv, NextIs, IsGroupStmt
<1>0. ~Broken(Top.g, Current) /\ v # 1
  BY DEF EntersAs, NextIs
<1>4. ASSUME NEW g \in BuiltGroups, Seen(g)
      PROVE  /\ \A i : Blocks(g, i)' <=> Blocks(g, i)
             /\ (Unknown(g)' <=> Unknown(g)) /\ (NoName(g)' <=> NoName(g))
             /\ NoDelay(g)' <=> NoDelay(g)
             /\ Slew(g)' <=> Slew(g)
  BY <1>3, <1>4, SeenFaults
<1>5. ~Slew(v)' /\ ~Unknown(v)' /\ ~NoName(v)'
  <2>1. PICK p : p = Parent(v)
    OBVIOUS
  <2>2. Parent(v)' = p
    BY <1>3, <2>1 DEF Parent, Group
  <2>3. isCheckArc(<<Parent(v), 1>>)' <=> isCheckArc(<<p, 1>>)'
    BY <2>2, Zenon DEF isCheckArc, Attr
  <2>4. isCheckArc(<<p, 1>>)' <=> isCheckArc(<<p, 1>>)
    BY <1>3 DEF ChecksStay
  <2>5. isCheckArc(<<Parent(v), 1>>)' <=> isCheckArc(<<Parent(v), 1>>)
    BY <2>1, <2>3, <2>4
  <2>6. (Unknown(v)' <=> Unknown(v)) /\ (Slew(v)' <=> Slew(v))
    BY <1>3, <2>5, FaultsStay
  <2>7. ~NoName(v)'
    BY <1>0 DEF NoName
  <2> QED BY <2>6, <2>7
<1>6. BlocksAhead'
  <2> SUFFICES ASSUME NEW g \in BuiltGroups, NEW i \in Left(g), Seen(g) \/ g = v, Blocks(g, i)'
               PROVE  \E f \in Frames' : f.g = g /\ i \in f.left
    BY <1>1, <1>2 DEF BlocksAhead
  <2>1. CASE g = v
    <3>1. PICK f : f = [g |-> v, left |-> Left(v)]
      OBVIOUS
    <3>2. f \in Frames' /\ f.g = v /\ f.left = Left(v)
      BY <1>2, <3>1
    <3> QED BY <2>1, <3>2
  <2>2. CASE Seen(g)
    <3>1. Blocks(g, i)
      BY <1>4, <2>2
    <3>2. PICK f \in Frames : f.g = g /\ i \in f.left
      BY <2>2, <3>1 DEF BlocksAhead
    <3>3. f = Top => i # Current
      BY <1>0, <1>3, <3>1, <3>2 DEF Blocks, Late
    <3> QED BY <1>2, <3>2, <3>3
  <2> QED BY <2>1, <2>2
<1>7. CurrentsAhead'
  BY <1>1, <1>2, <1>4 DEF CurrentsAhead
<1>8. TablesAhead'
  BY <1>1, <1>2, <1>4, <1>5 DEF TablesAhead
<1> QED BY <1>6, <1>7, <1>8

-----------------------------------------------------------------------------
(***************************************************************************)
(* What visiting a group can meet.                                         *)
(***************************************************************************)
LEMMA WhoVisits ==
  ASSUME visitGroup
  PROVE  \/ visitLibrary \/ pass_over \/ visitTable \/ visitVector
         \/ ~Is(Visited, DelayTables \cup {"vector"})
<1>1. \/ visitLibrary \/ pass_over \/ visitTable \/ visitVector
      \/ Visits({"wire_load"}) \/ Visits({"lu_table_template", "power_lut_template"})
      \/ Visits({"output_current_template"}) \/ Visits({"type"}) \/ Visits({"cell"})
      \/ Visits({"leakage_power"}) \/ Visits({"bus", "bundle"}) \/ Visits({"pin"}) \/ Visits({"timing"})
      \/ Visits({"internal_power"}) \/ Visits(PowerTables) \/ Visits(CurrentTables)
  BY Zenon
     DEF visitGroup, visitWireLoad, visitLuTableTemplate, visitOutputCurrentTemplate, visitType,
         visitCell, visitLeakagePower, visitBus, visitPin, visitTiming, visitInternalPower,
         visitPowerTable, visitCurrentTable
<1>2. \A names : Visits(names) => Group(Visited).name \in names
  BY DEF Visits, Visited
<1> QED BY <1>1, <1>2 DEF Is, DelayTables, PowerTables, CurrentTables

LEMMA VisitsGroup ==
  ASSUME file \in LibFiles, IInv, WalkOK, visitGroup, NEW v, v = Visited
  PROVE  \/ visitLibrary \/ pass_over \/ visitTable \/ visitVector
         \/ (visitTiming /\ PortInUse = None)
         \/ (EntersAs(v) /\ ~Is(v, DelayTables \cup {"vector"}))
<1>1. \/ visitLibrary \/ pass_over \/ visitTable \/ visitVector
      \/ (visitTiming /\ PortInUse = None) \/ EntersAs(v)
  BY VisitsWireLoad, VisitsLuTableTemplate, VisitsOutputCurrentTemplate, VisitsType,
     VisitsCell, VisitsLeakagePower, VisitsBus, VisitsPin, VisitsTiming, VisitsInternalPower,
     VisitsPowerTable, VisitsCurrentTable
  DEF visitGroup
<1> QED BY <1>1, WhoVisits

\* An arc stands in a pin or a bus, and finds no port only in a pin of none.
LEMMA TimingStops ==
  ASSUME file \in LibFiles, IInv, WalkOK, visitTiming, PortInUse = None
  PROVE  Top.g \in BuiltGroups /\ Broken(Top.g, Current) /\ Stop("null pointer")
<1>1. Visits({"timing"}) /\ Stop("null pointer")
  BY Zenon DEF visitTiming
<1>2. /\ stack # << >> /\ Top.left # {} /\ error = None
      /\ Statement.kind = "group" /\ Group(Statement.group).name = "timing"
  BY <1>1 DEF Visits, At, Reaches
<1>3. <<"timing", Group(Top.g).name>> \in Nesting
  <2>1. {"timing"} \in SUBSET Supported
    BY DEF Supported
  <2> QED BY <1>1, <1>2, <2>1, VisitedGroup DEF IInv, Visited
<1>4. Is(Top.g, {"pin", "bus", "bundle"})
  BY <1>3, ParentOf DEF Is
<1>5. Portless(Top.g)
  BY <1>2, <1>4, Reached, HomeIsThere
<1>6. Top.g \in BuiltGroups
  BY <1>2, OpenFrames, OpenIsBuilt DEF WalkOK, IInv
<1> QED BY <1>1, <1>2, <1>5, <1>6 DEF Broken, Statement, Is

LEMMA TemplateIs == \A name : getLutTemplate(name) <=> \E n \in DOMAIN HeldTemplates : Name(HeldTemplates[n]) = name
  BY Zenon DEF getLutTemplate, HeldTemplates

\* A vector finds its template if one stands before it.
LEMMA FindsTemplate ==
  ASSUME file \in LibFiles, IInv, WalkOK, TemplatesOK, NEW v, NextIs(v), Is(v, {"vector"})
  PROVE  getLutTemplate(Group(v).names[1]) <=> ~Unknown(v)
<1>1. /\ v \in BuiltGroups \ {1} /\ Parent(v) = Top.g /\ stack # << >> /\ TypeOK
      /\ <<Group(v).name, Group(Top.g).name>> \in Nesting
  BY BuiltNest DEF NextIs, IInv
<1>2. /\ \A h \in BuiltGroups : Seen(h) => h < v
      /\ \A g \in BuiltGroups : ~Seen(g) => v <= g
  BY <1>1, FirstLeft
<1>3. ASSUME NEW n \in DOMAIN HeldTemplates
      PROVE  /\ HeldTemplates[n][1] \in BuiltGroups /\ Seen(HeldTemplates[n][1])
             /\ Is(HeldTemplates[n][1], LutTemplates)
             /\ Name(HeldTemplates[n]) = Group(HeldTemplates[n][1]).names[1]
  <2>1. HeldTemplates[n] \in BuiltGroups \X {1}
    <3>1. HeldTemplates \in Seq(BuiltGroups \X {1})
      BY DEF TemplatesOK
    <3> QED BY <3>1, ElementOfSeq, LenProperties
  <2> QED BY <2>1 DEF TemplatesOK, Name
<1>4. ASSUME getLutTemplate(Group(v).names[1]) PROVE ~Unknown(v)
  <2>1. PICK n \in DOMAIN HeldTemplates : Name(HeldTemplates[n]) = Group(v).names[1]
    BY <1>4, TemplateIs
  <2>2. PICK h : h = HeldTemplates[n][1]
    OBVIOUS
  <2>3. h \in BuiltGroups /\ Is(h, LutTemplates) /\ h < v /\ Group(h).names[1] = Group(v).names[1]
    BY <1>2, <1>3, <2>1, <2>2
  <2> QED BY <2>3 DEF Unknown
<1>5. ASSUME NEW h \in BuiltGroups, Is(h, LutTemplates), h < v, Group(h).names[1] = Group(v).names[1]
      PROVE  getLutTemplate(Group(v).names[1])
  <2>1. Seen(h)
    <3>1. h \in Nat /\ v \in Nat
      BY <1>1, BuiltIs, GroupsOfFile
    <3> QED BY <1>2, <1>5, <3>1
  <2>2. ~Open(h)
    <3>1. SUFFICES ASSUME Open(h) PROVE FALSE
      OBVIOUS
    <3>2. h = Top.g \/ Level[Group(h).name] < Level[Group(Top.g).name]
      BY <1>1, <3>1, OneOfLevel
    <3>3. Group(Top.g).name \in CurrentTables
      BY <1>1, ParentOf DEF Is
    <3>4. Level[Group(h).name] = 6 /\ Level[Group(Top.g).name] = 5
      BY <1>5, <3>3, Levels DEF Level, Is, LutTemplates, Supported, CurrentTables
    <3> QED BY <3>2, <3>4
  <2>3. PICK n \in DOMAIN HeldTemplates : HeldTemplates[n] = <<h, 1>>
    BY <1>5, <2>1, <2>2 DEF TemplatesOK
  <2>4. Name(HeldTemplates[n]) = Group(v).names[1]
    BY <1>5, <2>3 DEF Name
  <2> QED BY <2>4, TemplateIs
<1> QED BY <1>4, <1>5 DEF Unknown

LEMMA SlewIs ==
  ASSUME NEW v, Is(v, DelayTables)
  PROVE  /\ ~Unknown(v)
         /\ ~FitsCheckModel(Group(v).name) => Is(v, {"rise_transition", "fall_transition"})
         /\ FitsCheckModel(Group(v).name) => ~Is(v, {"rise_transition", "fall_transition"})
  BY DEF Unknown, Is, DelayTables, FitsCheckModel, Place

\* A group that is passed over is none that is built.
LEMMA PassesOver ==
  ASSUME file \in LibFiles, IInv, WalkOK, pass_over
  PROVE  /\ stack # << >> /\ Top.left # {} /\ stack' = Advanced /\ error = None
         /\ UNCHANGED <<file, builder, kinds, members, error>> /\ ChecksStay
         /\ ~IsSimple(Top.g, Current) /\ Statement.kind # "complex"
         /\ \A g \in BuiltGroups : ~IsGroupStmt(Top.g, Current, g)
         /\ ~Blocks(Top.g, Current)
<1>1. /\ stack # << >> /\ Top.left # {} /\ stack' = Advanced /\ error = None
      /\ UNCHANGED <<file, builder, kinds, members, error>> /\ attrs' = << >> @@ attrs
      /\ Statement.kind = "group" /\ ~Flawed(Statement)
      /\ Group(Visited).name \notin Supported \/ (Group(Visited).name = "cell" /\ ~isNeedBuild(Visited))
  BY Zenon DEF pass_over, At, Reaches, Sets
<1>2. Top.g \in BuiltGroups /\ TypeOK
  BY <1>1, OpenFrames, OpenIsBuilt DEF WalkOK, IInv
<1>3. ASSUME NEW g \in BuiltGroups, IsGroupStmt(Top.g, Current, g) PROVE FALSE
  <2>1. g = Visited /\ Current \in DOMAIN Stmts(Top.g)
    BY <1>1, <1>2, <1>3, CurrentIs DEF IsGroupStmt, Visited, Statement
  <2>2. g # 1
    BY <1>2, <1>3, <2>1, StatementTells
  <2>3. Is(g, Supported) /\ (Is(g, {"cell"}) => isNeedBuild(g))
    BY <1>3, <2>2, BuiltIs
  <2> QED BY <1>1, <2>1, <2>3 DEF Is
<1>4. ChecksStay
  <2>1. Fields(<< >>, {"cap_unit"})
    BY NoFields
  <2> QED BY <1>1, <2>1, ChecksAfter
<1>5. ~Blocks(Top.g, Current)
  <2>1. Of(Statement) = "nobody"
    BY <1>1 DEF Of
  <2>2. ~Is(Statement.group, {"timing"})
    BY <1>1 DEF Is, Visited, Supported
  <2> QED BY <1>1, <2>1, <2>2 DEF Blocks, Late, Broken, Statement
<1> QED BY <1>1, <1>3, <1>4, <1>5 DEF IsSimple, Statement

-----------------------------------------------------------------------------
(***************************************************************************)
(* Taking a statement that opens no group.                                 *)
(***************************************************************************)
Advances ==
  /\ error = None /\ stack # << >> /\ Top.left # {} /\ stack' = Advanced
  /\ UNCHANGED <<file, builder, kinds, error, HeldTemplates>> /\ ArcsStay
  /\ \A g \in BuiltGroups : ~IsGroupStmt(Top.g, Current, g)
  /\ ~Blocks(Top.g, Current)

LEMMA AdvanceKeeps ==
  ASSUME file \in LibFiles, IInv, Invariants, Advances PROVE Invariants'
<1>1. /\ BuiltGroups' = BuiltGroups
      /\ \A g : Group(g)' = Group(g) /\ Parent(g)' = Parent(g) /\ Left(g)' = Left(g)
      /\ \A g, names : Is(g, names)' = Is(g, names)
      /\ \A names, p : Children(names, p)' = Children(names, p)
  BY FileStays DEF Advances
<1>2. /\ error = None /\ stack # << >> /\ Top.left # {} /\ stack' = Advanced
      /\ UNCHANGED <<file, builder, kinds, error, HeldTemplates>> /\ ArcsStay
      /\ \A g \in BuiltGroups : ~IsGroupStmt(Top.g, Current, g)
      /\ ~Blocks(Top.g, Current) /\ WalkOK /\ TypeOK /\ Increasing
  BY DEF Advances, Invariants, IInv, WalkOK
<1>3. WalkOK'
  BY <1>2, WalkAdvances
<1>4. /\ Frames' = (Frames \ {Top}) \cup {Rest} /\ Top \in Frames
      /\ Rest.g = Top.g /\ Rest.left = Top.left \ {Current}
  BY <1>2, FramesAfterAdvancing, AdvancedIs, OpenFrames
<1>5. /\ \A g : Open(g)' <=> Open(g)
      /\ \A g : Seen(g)' <=> Seen(g)
  <2>1. \A g : Open(g)' <=> Open(g)
    BY <1>4 DEF Open
  <2> QED BY <1>2, <2>1, SeenAfterAdvancing
<1>6. KindsByName' /\ FlagOK'
  BY <1>1, <1>2, <1>5 DEF KindsByName, FlagOK, Invariants
<1>7. ModelOK'
  <2>1. \A g : SeenTables(g)' = SeenTables(g)
    BY <1>1, <1>5 DEF SeenTables, DelayTables
  <2>2. SUFFICES ASSUME NEW g, Open(g), Is(g, {"timing"}) PROVE ModelIs(g)'
    BY <1>1, <1>5 DEF ModelOK, ModelIs, ModelFor, Open
  <2>3. ModelIs(g)
    BY <2>2, ModelOKIs DEF Invariants
  <2>4. CASE SeenTables(g) = {}
    BY <1>2, <2>1, <2>3, <2>4 DEF ModelIs
  <2>5. CASE SeenTables(g) # {}
    <3>1. PICK h : h \in BuiltGroups /\ Parent(h) = g /\ Seen(h)
      BY <2>5 DEF SeenTables, Children
    <3>2. h # 1
      <4>1. g \in BuiltGroups
        BY <1>2, <2>2, OneOfLevel
      <4> QED BY <3>1, <4>1, BuiltIs, Numbered
    <3>3. isCheckArc(<<g, 1>>)' <=> isCheckArc(<<g, 1>>)
      BY <1>2, <3>1, <3>2, ChecksOfSeen
    <3>4. ModelFor(g)' = ModelFor(g)
      BY <3>3, Zenon DEF ModelFor
    <3> QED BY <1>2, <2>1, <2>3, <3>4 DEF ModelIs
  <2> QED BY <2>4, <2>5
<1>8. BusOK'
  <2>1. \A g : LeftPins(g)' = LeftPins(g)
    BY <1>1, <1>5 DEF LeftPins
  <2>2. SUFFICES ASSUME NEW g, Open(g), Is(g, {"bus", "bundle"}) PROVE BusIs(g)'
    BY <1>1, <1>5 DEF BusOK, BusIs, Open
  <2>3. BusIs(g)
    BY <2>2 DEF BusOK, BusIs, Open, Invariants
  <2> QED BY <1>2, <2>1, <2>3 DEF BusIs
<1>9. TemplatesOK'
  BY <1>1, <1>2, <1>5 DEF TemplatesOK, Invariants
<1>10. ASSUME NEW g \in BuiltGroups, Seen(g)
       PROVE  /\ \A i : Blocks(g, i)' <=> Blocks(g, i)
              /\ (Unknown(g)' <=> Unknown(g)) /\ (NoName(g)' <=> NoName(g))
              /\ NoDelay(g)' <=> NoDelay(g)
              /\ Slew(g)' <=> Slew(g)
  BY <1>2, <1>10, SeenFaults
<1>11. BlocksAhead'
  <2> SUFFICES ASSUME NEW g \in BuiltGroups, NEW i \in Left(g), Seen(g), Blocks(g, i)'
               PROVE  \E f \in Frames' : f.g = g /\ i \in f.left
    BY <1>1, <1>5 DEF BlocksAhead
  <2>1. Blocks(g, i)
    BY <1>10
  <2>2. PICK f \in Frames : f.g = g /\ i \in f.left
    BY <2>1 DEF BlocksAhead, Invariants
  <2>3. f = Top => i # Current
    BY <1>2, <2>1, <2>2
  <2> QED BY <1>4, <2>2, <2>3
<1>12. CurrentsAhead' /\ TablesAhead'
  BY <1>1, <1>5, <1>10 DEF CurrentsAhead, TablesAhead, Invariants
<1> QED BY <1>3, <1>6, <1>7, <1>8, <1>9, <1>11, <1>12 DEF Invariants

-----------------------------------------------------------------------------
(***************************************************************************)
(* Visiting a group.                                                       *)
(***************************************************************************)
LEMMA EnteringKeeps ==
  ASSUME file \in LibFiles, IInv, Invariants, NEW v, EntersAs(v), ~Slew(v), ~Unknown(v),
         Is(v, DelayTables) =>
           /\ builder'.table_model = <<Top.g, 0>> /\ <<Top.g, 0>> \in DOMAIN kinds'
           /\ kinds'[<<Top.g, 0>>] = ModelFor(Top.g)
  PROVE  Invariants'
<1>1. /\ WalkOK /\ KindsByName /\ FlagOK /\ ModelOK /\ BusOK /\ TemplatesOK
      /\ BlocksAhead /\ CurrentsAhead /\ TablesAhead
  BY DEF Invariants
<1>2. WalkOK'
  BY <1>1, Entered
<1>3. KindsByName' /\ FlagOK' /\ TemplatesOK' /\ BusOK'
  BY <1>1, KindsAfterEntering, FlagAfterEntering, TemplatesAfterEntering, BusAfterEntering
<1>4. ModelOK'
  BY <1>1, ModelAfterEntering
<1>5. BlocksAhead' /\ CurrentsAhead' /\ TablesAhead'
  BY <1>1, FaultsAfterEntering
<1> QED BY <1>2, <1>3, <1>4, <1>5 DEF Invariants

\* The library is entered first, and nothing is known yet.
LEMMA LibraryKeeps ==
  ASSUME file \in LibFiles, IInv, Begun, Invariants, visitLibrary PROVE Invariants'
<1>1. /\ WalkOK' /\ UNCHANGED file
      /\ Frames' = {[g |-> 1, left |-> Left(1)]} /\ \A g : Seen(g)' <=> g = 1
  BY WalkBegins DEF IInv, Invariants
<1>2. /\ kinds = << >> /\ UNCHANGED <<builder, members>> /\ TypeOK
  BY DEF visitLibrary, IInv
<1>3. builder = LibBuilder /\ \A o : o \notin DOMAIN kinds
  BY <1>2, NothingYet
<1>4. /\ BuiltGroups' = BuiltGroups
      /\ \A g : Group(g)' = Group(g) /\ Parent(g)' = Parent(g) /\ Left(g)' = Left(g)
      /\ \A g, names : Is(g, names)' = Is(g, names)
      /\ \A names, p : Children(names, p)' = Children(names, p)
  BY <1>1, FileStays
<1>5. Group(1).name = "library" /\ 1 \in BuiltGroups
  BY GroupsOfFile, BuiltIs
<1>6. ~Is(1, Objects) /\ ~Is(1, PowerGroups) /\ ~Is(1, {"timing"}) /\ ~Is(1, {"bus", "bundle"})
      /\ ~Is(1, LutTemplates) /\ ~Is(1, CurrentTables) /\ ~Is(1, {"pin"})
      /\ ~Is(1, {"rise_transition", "fall_transition"}) /\ ~Is(1, {"vector"})
  BY <1>5 DEF Is, Objects, DelayTables, PowerTables, PowerGroups, LutTemplates, CurrentTables
<1>7. KindsByName'
  BY <1>1, <1>4, <1>6 DEF KindsByName
<1>8. FlagOK'
  BY <1>1, <1>2, <1>3, <1>4, <1>6 DEF FlagOK, LibBuilder
<1>9. \A f \in Frames' : f.g = 1 /\ f.left = Left(1)
  BY <1>1
<1>10. ModelOK' /\ BusOK'
  BY <1>4, <1>6, <1>9 DEF ModelOK, BusOK
<1>11. TemplatesOK'
  <2>1. HeldTemplates' = HeldTemplates
    BY <1>2, TemplatesSame
  <2>2. TemplatesOK /\ \A g : ~Seen(g)
    <3>1. \A g : ~Seen(g)
      BY <1>2, SeenBegun
    <3> QED BY <3>1 DEF Invariants
  <2> QED BY <1>1, <1>4, <1>6, <2>1, <2>2 DEF TemplatesOK
<1>12. BlocksAhead'
  <2>1. PICK f : f = [g |-> 1, left |-> Left(1)]
    OBVIOUS
  <2>2. f \in Frames' /\ f.g = 1 /\ f.left = Left(1)
    BY <1>1, <2>1
  <2> QED BY <1>1, <1>4, <2>2 DEF BlocksAhead
<1>13. CurrentsAhead' /\ TablesAhead'
  <2>1. ~NoName(1)'
    BY <1>1 DEF visitLibrary, NoName, Nameless, Group
  <2> QED BY <1>1, <1>4, <1>6, <2>1 DEF CurrentsAhead, TablesAhead, NoDelay, Slew, Unknown
<1> QED BY <1>1, <1>7, <1>8, <1>10, <1>11, <1>12, <1>13 DEF Invariants

\* Visiting a group goes on with the walk, or stops it at a table that does not
\* fit its model, a vector whose template is not known or an arc without a port.
OnlyStops == UNCHANGED <<file, stack, builder, kinds, attrs, members>>
LEMMA Stopping == ASSUME NEW what, Stop(what) PROVE OnlyStops
  BY DEF Stop, OnlyStops

LEMMA VisitingGroup ==
  ASSUME file \in LibFiles, IInv, Begun, Invariants, visitGroup
  PROVE  \/ Invariants' /\ UNCHANGED <<file, error>>
         \/ OnlyStops /\ \E g \in BuiltGroups : Cause(g)
<1>1. WalkOK /\ ModelOK /\ TemplatesOK
  BY DEF Invariants
<1>2. PICK v : v = Visited
  OBVIOUS
<1>3. CASE visitLibrary
  <2>1. UNCHANGED <<file, error>>
    BY <1>3 DEF visitLibrary
  <2> QED BY <1>3, <2>1, LibraryKeeps
<1>4. CASE pass_over
  <2>1. /\ stack # << >> /\ Top.left # {} /\ stack' = Advanced /\ error = None
        /\ UNCHANGED <<file, builder, kinds, members, error>> /\ ChecksStay
        /\ ~IsSimple(Top.g, Current) /\ Statement.kind # "complex"
        /\ \A g \in BuiltGroups : ~IsGroupStmt(Top.g, Current, g)
        /\ ~Blocks(Top.g, Current)
    BY <1>1, <1>4, PassesOver
  <2>3. Advances
    BY <2>1, SameArcs, TemplatesSame DEF Advances
  <2> QED BY <2>1, <2>3, AdvanceKeeps
<1>5. CASE visitTable
  <2>1. /\ NextIs(v) /\ error = None /\ Is(v, DelayTables) /\ Is(Top.g, {"timing"})
        /\ \/ /\ isCheckArc(<<Top.g, 1>>) /\ ~FitsCheckModel(Group(v).name)
              /\ Stop("out of bounds")
           \/ /\ EntersAs(v)
              /\ isCheckArc(<<Top.g, 1>>) => FitsCheckModel(Group(v).name)
              /\ builder'.table_model = <<Top.g, 0>> /\ <<Top.g, 0>> \in DOMAIN kinds'
              /\ kinds'[<<Top.g, 0>>] = ModelFor(Top.g)
    BY <1>1, <1>2, <1>5, VisitsTable
  <2>2. v \in BuiltGroups /\ Parent(v) = Top.g
    BY <2>1 DEF NextIs
  <2>3. isCheckArc(<<Parent(v), 1>>) <=> isCheckArc(<<Top.g, 1>>)
    BY <2>2, Zenon
  <2>4. CASE Stop("out of bounds") /\ isCheckArc(<<Top.g, 1>>) /\ ~FitsCheckModel(Group(v).name)
    <3>1. Slew(v)
      BY <2>1, <2>3, <2>4, SlewIs DEF Slew
    <3> QED BY <2>2, <2>4, <3>1, Stopping DEF Cause
  <2>5. CASE EntersAs(v) /\ (isCheckArc(<<Top.g, 1>>) => FitsCheckModel(Group(v).name))
    <3>1. ~Slew(v) /\ ~Unknown(v)
      BY <2>1, <2>3, <2>5, SlewIs DEF Slew
    <3>2. UNCHANGED <<file, error>>
      BY <2>5 DEF EntersAs
    <3> QED BY <2>1, <2>5, <3>1, <3>2, EnteringKeeps
  <2> QED BY <2>1, <2>4, <2>5
<1>6. CASE visitVector
  <2>1. Visits({"vector"}) /\ {"vector"} \in SUBSET Supported
    BY <1>6, Zenon DEF visitVector, Supported
  <2>2. NextIs(v) /\ Is(v, {"vector"})
    BY <1>1, <1>2, <2>1, OnVisiting
  <2>3. CASE getLutTemplate(Group(v).names[1])
    <3>1. EntersAs(v)
      BY <1>1, <1>2, <1>6, <2>3, VisitsVector
    <3>2. ~Unknown(v) /\ ~Slew(v) /\ ~Is(v, DelayTables)
      BY <1>1, <2>2, <2>3, FindsTemplate DEF Slew, Is, DelayTables
    <3>3. UNCHANGED <<file, error>>
      BY <3>1 DEF EntersAs
    <3> QED BY <3>1, <3>2, <3>3, EnteringKeeps
  <2>4. CASE ~getLutTemplate(Group(v).names[1])
    <3>1. Stop("fatal")
      BY <1>2, <1>6, <2>4, Zenon DEF visitVector
    <3>2. v \in BuiltGroups /\ Unknown(v)
      BY <1>1, <2>2, <2>4, FindsTemplate DEF NextIs
    <3> QED BY <3>1, <3>2, Stopping DEF Cause
  <2> QED BY <2>3, <2>4
<1>7. CASE EntersAs(v) /\ ~Is(v, DelayTables \cup {"vector"})
  <2>1. ~Slew(v) /\ ~Unknown(v) /\ ~Is(v, DelayTables)
    BY <1>7 DEF Slew, Unknown, Is, DelayTables
  <2>2. UNCHANGED <<file, error>>
    BY <1>7 DEF EntersAs
  <2> QED BY <1>7, <2>1, <2>2, EnteringKeeps
<1>8. CASE visitTiming /\ PortInUse = None
  <2>1. Top.g \in BuiltGroups /\ Broken(Top.g, Current) /\ OnlyStops
    BY <1>1, <1>8, TimingStops, Stopping
  <2>2. Current \in Left(Top.g)
    BY <1>8, CurrentIs DEF visitTiming, Visits, At, Reaches, IInv
  <2> QED BY <2>1, <2>2 DEF Cause, Blocks
<1> QED BY <1>1, <1>2, <1>3, <1>4, <1>5, <1>6, <1>7, <1>8, VisitsGroup

-----------------------------------------------------------------------------
(***************************************************************************)
(* Visiting an attribute.                                                  *)
(***************************************************************************)
\* The port of a range is there unless a pin of the bus was left before.
LEMMA RangeOfPin ==
  ASSUME file \in LibFiles, IInv, Invariants, error = None, stack # << >>, NEW t, t = Top.g, InBus(t)
  PROVE  builder.port = None <=> \E h \in Children({"pin"}, Parent(t)) : h < t
<1>1. /\ WalkOK /\ BusOK /\ TypeOK /\ Increasing /\ OnlyBuilt /\ OpenSeen /\ Inside /\ InOrder
  BY DEF Invariants, WalkOK, IInv
<1>2. Top \in Frames /\ t \in BuiltGroups /\ Seen(t) /\ Open(t) /\ Open(Parent(t))
  <2>1. Top \in Frames
    BY <1>1, OpenFrames
  <2>2. t # 1
    BY GroupsOfFile DEF InBus, Is
  <2> QED BY <1>1, <2>1, <2>2, OpenFrames, OpenIsBuilt DEF Open
<1>3. PICK p : p = Parent(t)
  OBVIOUS
<1>4. p \in BuiltGroups /\ p < t /\ p \in Nat /\ t \in Nat
  <2>1. t # 1
    BY GroupsOfFile DEF InBus, Is
  <2> QED BY <1>2, <1>3, <2>1, BuiltNest, BuiltIs, GroupsOfFile
<1>5. builder.port = None <=> LeftPins(p) # {}
  <2>1. PICK f \in Frames : f.g = p
    BY <1>2, <1>3 DEF Open
  <2> QED BY <1>1, <1>3, <2>1 DEF BusOK, InBus
<1>6. ASSUME NEW h \in LeftPins(p) PROVE h \in Children({"pin"}, p) /\ h < t
  <2>1. h \in BuiltGroups /\ Parent(h) = p /\ Seen(h) /\ ~Open(h) /\ h \in Children({"pin"}, p)
    BY DEF LeftPins, Children
  <2>2. h \in Nat
    BY <2>1, BuiltIs, GroupsOfFile
  <2>3. h # t
    BY <1>2, <2>1
  <2>4. t < h => t <= p
    BY <1>1, <1>2, <2>1 DEF Inside
  <2> QED BY <1>4, <2>1, <2>2, <2>3, <2>4
<1>7. ASSUME NEW h \in Children({"pin"}, p), h < t PROVE h \in LeftPins(p)
  <2>1. h \in BuiltGroups /\ Group(h).name = "pin" /\ h \in Nat
    BY BuiltIs, GroupsOfFile DEF Children, Is
  <2>2. Seen(h)
    BY <1>1, <1>2, <1>4, <1>7, <2>1 DEF InOrder
  <2>3. ~Open(h)
    <3>1. Group(t).name = "pin"
      BY DEF InBus, Is
    <3> QED BY <1>1, <1>2, <1>4, <1>7, <2>1, <3>1, OneOfLevel
  <2> QED BY <2>2, <2>3 DEF LeftPins
<1> QED BY <1>3, <1>5, <1>6, <1>7

LEMMA RangeOfBus ==
  ASSUME file \in LibFiles, IInv, Invariants, error = None, stack # << >>, NEW t, t = Top.g,
         Is(t, {"bus", "bundle"}), Top.left # {}, ~IsSimple(t, Current)
  PROVE  builder.port = None <=>
           \E j \in GroupStmts(t) : j < Current /\ Is(Stmts(t)[j].group, {"pin"})
<1>1. /\ WalkOK /\ BusOK /\ TypeOK /\ Increasing /\ OnlyBuilt /\ OpenSeen /\ NotYet /\ StillLeft
      /\ SimpleFirst
  BY DEF Invariants, WalkOK, IInv
<1>2. Top \in Frames /\ t \in BuiltGroups /\ Seen(t) /\ t \in Nat
  <2>1. Top \in Frames
    BY <1>1, OpenFrames
  <2> QED BY <1>1, <2>1, OpenIsBuilt, BuiltIs, GroupsOfFile
<1>3. builder.port = None <=> LeftPins(t) # {}
  BY <1>1, <1>2 DEF BusOK
<1>4. /\ Current \in Top.left /\ Top.left \subseteq Nat
      /\ \A i \in Top.left : ~IsSimple(t, i) /\ Current <= i
  BY <1>1, CurrentIs
<1>5. ASSUME NEW h \in LeftPins(t)
      PROVE  \E j \in GroupStmts(t) : j < Current /\ Is(Stmts(t)[j].group, {"pin"})
  <2>1. h \in BuiltGroups /\ Parent(h) = t /\ Seen(h) /\ Is(h, {"pin"})
    BY DEF LeftPins, Children
  <2>2. h \in Groups \ {1}
    BY <1>2, <2>1, BuiltIs, Numbered
  <2>3. PICK j \in DOMAIN Stmts(t) : IsGroupStmt(t, j, h)
    BY <2>1, <2>2, Numbered
  <2>4. j \in Left(t) /\ ~IsSimple(t, j)
    BY <1>2, <2>3, StatementTells
  <2>5. j \notin Top.left
    BY <1>1, <1>2, <2>1, <2>3 DEF NotYet
  <2>6. j < Current
    BY <1>1, <1>2, <1>4, <2>4, <2>5 DEF SimpleFirst
  <2>7. j \in GroupStmts(t) /\ Stmts(t)[j].group = h
    BY <2>3 DEF GroupStmts, IsGroupStmt
  <2> QED BY <2>1, <2>6, <2>7
<1>6. ASSUME NEW j \in GroupStmts(t), j < Current, Is(Stmts(t)[j].group, {"pin"})
      PROVE  LeftPins(t) # {}
  <2>1. PICK h : h = Stmts(t)[j].group
    OBVIOUS
  <2>2. j \in DOMAIN Stmts(t) /\ IsGroupStmt(t, j, h)
    BY <2>1 DEF GroupStmts, IsGroupStmt
  <2>3. /\ h \in Groups /\ Parent(h) = t /\ h # 1 /\ t < h
        /\ \A i \in DOMAIN Stmts(t) : IsGroupStmt(t, i, h) => i = j
    BY <1>2, <2>2, StatementTells
  <2>4. Is(h, Supported) /\ ~Is(h, {"cell"}) /\ Is(h, {"pin"})
    BY <1>6, <2>1 DEF Is, Supported
  <2>5. h \in BuiltGroups
    BY <1>2, <2>3, <2>4, BuiltIs
  <2>6. j \notin Top.left
    <3>1. j \in Nat
      BY <1>2, <2>2, BuiltIs, GroupsOfFile
    <3> QED BY <1>4, <1>6, <3>1
  <2>7. Seen(h)
    <3>1. SUFFICES ASSUME ~Seen(h) PROVE FALSE
      OBVIOUS
    <3>2. PICK f \in Frames : f.g = t /\ \E i \in f.left : IsGroupStmt(t, i, h)
      BY <1>1, <1>2, <2>3, <2>5, <3>1 DEF StillLeft
    <3>3. f = Top
      BY <1>1, <1>2, <3>2, OpenFrames
    <3>4. Top.left \subseteq DOMAIN Stmts(t)
      BY <1>1, <1>2, OpenFrames DEF Left
    <3> QED BY <2>3, <2>6, <3>2, <3>3, <3>4
  <2>8. ~Open(h)
    <3>1. h \in Nat
      BY <2>5, BuiltIs, GroupsOfFile
    <3> QED BY <1>1, <1>2, <2>3, <3>1, OneOfLevel
  <2> QED BY <2>3, <2>4, <2>5, <2>7, <2>8 DEF LeftPins, Children
<1> QED BY <1>3, <1>5, <1>6

LEMMA RangeMeets ==
  ASSUME file \in LibFiles, IInv, Invariants, At("complex"), Statement.attr \in DOMAIN Ranges
  PROVE  builder.port = None <=> Blocks(Top.g, Current)
<1>1. PICK t : t = Top.g
  OBVIOUS
<1>2. /\ error = None /\ stack # << >> /\ Top.left # {} /\ Statement.kind = "complex"
      /\ ~Flawed(Statement)
  BY DEF At, Reaches
<1>3. Statement = Stmts(t)[Current]
  BY <1>1 DEF Statement
<1>8. Blocks(t, Current) <=> Late(t, Current) \/ Portless(t)
  <2>1. Of(Statement) = "port"
    BY <1>2, OfComplex
  <2> QED BY <1>2, <1>3, <2>1 DEF Blocks, Broken
<1>4. Is(t, {"pin", "bus", "bundle"})
  <2>1. <<"port", Group(t).name>> \in HomesOf
    BY <1>1, <1>2, HomeOfStatement, OfComplex
  <2> QED BY <2>1, HomesAre DEF Is
<1>5. CASE InBus(t)
  BY <1>1, <1>2, <1>3, <1>5, <1>8, RangeOfPin DEF Late, InBus, Is, Portless
<1>6. CASE Is(t, {"bus", "bundle"})
  <2>1. ~IsSimple(t, Current)
    BY <1>2, <1>3 DEF IsSimple
  <2>2. ~InBus(t)
    BY <1>6 DEF InBus, Is
  <2>3. ~Portless(t)
    BY <1>6 DEF Portless, Is
  <2> QED BY <1>1, <1>2, <1>3, <1>6, <1>8, <2>1, <2>2, <2>3, RangeOfBus DEF Late
<1>7. CASE Is(t, {"pin"}) /\ ~InBus(t)
  <2>1. builder.port = Home(t) /\ (Home(t) # None <=> ~Portless(t))
    BY <1>1, <1>2, <1>7, TopAtHome, HomeIsThere DEF AtHome
  <2>2. ~Is(t, {"bus", "bundle"})
    BY <1>7 DEF Is
  <2> QED BY <1>1, <1>7, <1>8, <2>1, <2>2 DEF Late
<1> QED BY <1>4, <1>5, <1>6, <1>7 DEF Is

\* A null pointer is followed for a condition where the flag that says whose it is
\* was never set, and for what a pin of no ports says of its port.
LEMMA ObjectThere ==
  ASSUME file \in LibFiles, IInv, Invariants, error = None, stack # << >>, NEW t, t = Top.g,
         Is(t, Objects), NEW classes, ObjectClass[Group(t).name] \in classes
  PROVE  Cast(classes) # None
<1>1. builder.obj = <<t, 1>> /\ AtHome(t, TRUE)
  BY TopAtHome DEF AtHome
<1>2. t \in BuiltGroups /\ Seen(t) /\ t \in Nat
  <2>1. Top \in Frames
    BY OpenFrames DEF Invariants, WalkOK, IInv
  <2> QED BY <2>1, OpenIsBuilt, BuiltIs, GroupsOfFile DEF Invariants, WalkOK
<1>3. kinds[<<t, 1>>] = ObjectClass[Group(t).name]
  BY <1>2 DEF Invariants, KindsByName
<1>4. <<t, 1>> # None
  BY <1>2, NoneAssumption
<1> QED BY <1>1, <1>3, <1>4 DEF Cast

LEMMA NullMeans ==
  ASSUME file \in LibFiles, IInv, Invariants, At("simple"), None \in Receivers(Statement)
  PROVE  Unset(Top.g) \/ Broken(Top.g, Current)
<1>0. PICK t : t = Top.g
  OBVIOUS
<1>1. error = None /\ stack # << >> /\ Top.left # {} /\ Statement.kind = "simple"
  BY DEF At, Reaches
<1>a. SUFFICES ASSUME ~Broken(t, Current) PROVE Unset(t)
  BY <1>0
<1>2. Library # None /\ Nobody # None /\ (~Portless(t) => Home(t) # None)
  BY <1>0, <1>1, HomeIsThere, NoneAssumption DEF Library
<1>3. Statement.attr \in DOMAIN Attributes
  BY <1>2 DEF Receivers
<1>4. PICK of : of = Attributes[Statement.attr].of
  OBVIOUS
<1>5. <<of, Group(t).name>> \in HomesOf /\ of \in Pointers
  BY <1>0, <1>1, <1>3, <1>4, HomeOfStatement, AttributesAre DEF DirectsAll, Directs
<1>b. ~(Portless(t) /\ of \in {"port", "port_or_wire_load"})
  <2>1. Of(Statement) = of
    BY <1>1, <1>3, <1>4 DEF Of
  <2> QED BY <1>0, <1>a, <2>1 DEF Broken, Statement
<1>c. Portless(t) => Is(t, {"pin"}) /\ ~Is(t, {"bus", "bundle"})
  BY DEF Portless, Is
<1>d. /\ Is(t, {"cell"}) \/ Is(t, {"timing"}) \/ Is(t, {"leakage_power"}) => ~Portless(t)
      /\ Is(t, {"timing", "internal_power"}) => ~Portless(t)
      /\ Is(t, {"leakage_power", "internal_power"}) => ~Portless(t)
  BY DEF Portless, Is
<1>6. None \in CASE of = "lib" -> {Library}
                 [] of = "port" -> {PortInUse}
                 [] of = "port_or_wire_load" ->
                      {IF PortInUse # None THEN PortInUse ELSE Cast({"wire_load"})}
                 [] of = "cell_if_any" -> {IF builder.cell = None THEN Nobody ELSE builder.cell}
                 [] of = "wire_load" -> {Cast({"wire_load"})}
                 [] of = "template" -> {Cast(Templates)}
                 [] of = "vector" -> {Cast({"vector"})}
                 [] of = "type" -> {Cast({"type"})}
                 [] of = "own_arc" -> OwnArcs
                 [] of = "own_power" -> OwnPowers
                 [] of = "own_power_if_any" -> OwnPowersIfAny
                 [] OTHER -> {builder[of]}
  BY <1>3, <1>4 DEF Receivers
<1>7. /\ Is(t, {"pin", "bus", "bundle"}) => PortInUse = Home(t)
      /\ Is(t, {"bus", "bundle"}) => builder.port_bus = Home(t)
      /\ Is(t, {"cell"}) => builder.cell = Home(t)
      /\ Is(t, {"leakage_power"}) =>
           builder.leakage_power = Home(t) /\ builder.own_pg_or_when_type = "leakage_power"
      /\ Is(t, {"timing"}) => builder.arc = Home(t) /\ builder.own_port_type = "arc"
      /\ Is(t, {"internal_power"}) =>
           /\ builder.power_arc = Home(t) /\ builder.own_port_type = "power_arc"
           /\ builder.own_pg_or_when_type = "power_arc"
  BY <1>0, <1>1, Reached
<1>8. \A classes : Is(t, Objects) /\ ObjectClass[Group(t).name] \in classes => Cast(classes) # None
  BY <1>0, <1>1, ObjectThere
<1>9. of = "own_power_if_any" /\ Is(t, {"timing"})
  <2>1. of # "lib"
    BY <1>2, <1>6
  <2>2. ~(of = "port" /\ Is(t, {"pin", "bus", "bundle"}))
    BY <1>b, <1>2, <1>6, <1>7
  <2>3. ~(of = "port_bus" /\ Is(t, {"bus", "bundle"}))
    BY <1>c, <1>2, <1>6, <1>7
  <2>4. ~(of = "port_or_wire_load" /\ Is(t, {"pin", "bus", "bundle"}))
    BY <1>b, <1>2, <1>6, <1>7
  <2>5. ~(of \in {"wire_load", "port_or_wire_load"} /\ Is(t, {"wire_load"}))
    <3>1. Is(t, {"wire_load"}) => Cast({"wire_load"}) # None
      BY <1>8 DEF Is, Objects, ObjectClass
    <3> QED BY <1>6, <3>1
  <2>6. ~(of \in {"cell", "cell_if_any"} /\ Is(t, {"cell"}))
    BY <1>d, <1>2, <1>6, <1>7
  <2>7. ~(of = "arc" /\ Is(t, {"timing"}))
    BY <1>d, <1>2, <1>6, <1>7
  <2>8. ~(of = "own_arc" /\ Is(t, {"timing", "internal_power"}))
    <3>1. SUFFICES ASSUME of = "own_arc", Is(t, {"timing", "internal_power"}) PROVE FALSE
      OBVIOUS
    <3>2. None \in OwnArcs
      BY <1>6, <3>1
    <3>3. \/ builder.own_port_type = "arc" /\ builder.arc = Home(t)
          \/ builder.own_port_type = "power_arc" /\ builder.power_arc = Home(t)
      BY <1>7, <3>1 DEF Is
    <3> QED BY <1>d, <1>2, <3>1, <3>2, <3>3 DEF OwnArcs, Read
  <2>9. ~(of = "leakage_power" /\ Is(t, {"leakage_power"}))
    BY <1>d, <1>2, <1>6, <1>7
  <2>10. ~(of \in {"own_power", "own_power_if_any"} /\ Is(t, {"leakage_power", "internal_power"}))
    <3>1. SUFFICES ASSUME of \in {"own_power", "own_power_if_any"}, Is(t, {"leakage_power", "internal_power"})
                   PROVE FALSE
      OBVIOUS
    <3>2. None \in OwnPowers \cup OwnPowersIfAny
      BY <1>6, <3>1
    <3>3. \/ builder.own_pg_or_when_type = "leakage_power" /\ builder.leakage_power = Home(t)
          \/ builder.own_pg_or_when_type = "power_arc" /\ builder.power_arc = Home(t)
      BY <1>7, <3>1 DEF Is
    <3> QED BY <1>d, <1>2, <3>1, <3>2, <3>3 DEF OwnPowers, OwnPowersIfAny, Read
  <2>11. ~(of = "template" /\ Is(t, {"lu_table_template", "power_lut_template", "output_current_template"}))
    <3>1. Is(t, {"lu_table_template", "power_lut_template", "output_current_template"}) => Cast(Templates) # None
      BY <1>8 DEF Is, Objects, ObjectClass, Templates
    <3> QED BY <1>6, <3>1
  <2>12. ~(of = "vector" /\ Is(t, {"vector"}))
    <3>1. Is(t, {"vector"}) => Cast({"vector"}) # None
      BY <1>8 DEF Is, Objects, ObjectClass
    <3> QED BY <1>6, <3>1
  <2>13. ~(of = "type" /\ Is(t, {"type"}))
    <3>1. Is(t, {"type"}) => Cast({"type"}) # None
      BY <1>8 DEF Is, Objects, ObjectClass
    <3> QED BY <1>6, <3>1
  <2>14. \/ of \in {"template", "vector", "type"}
         \/ of = "own_power_if_any" /\ Is(t, {"timing"})
    BY <1>5, <2>1, <2>2, <2>3, <2>4, <2>5, <2>6, <2>7, <2>8, <2>9, <2>10, HomesAre DEF Is, Pointers
  <2>15. /\ of = "template" => Is(t, {"lu_table_template", "power_lut_template", "output_current_template"})
         /\ of = "vector" => Is(t, {"vector"})
         /\ of = "type" => Is(t, {"type"})
    BY <1>5 DEF HomesOf, Is
  <2> QED BY <2>11, <2>12, <2>13, <2>14, <2>15
<1>10. Statement.attr = "when"
  BY <1>3, <1>4, <1>9, AttributesAre DEF DirectsAll, Directs
<1>11. builder.own_pg_or_when_type = "unset"
  <2>1. FlagOK
    BY DEF Invariants
  <2>2. None \in OwnPowersIfAny
    BY <1>6, <1>9
  <2> QED BY <1>2, <2>1, <2>2 DEF OwnPowersIfAny, Read, FlagOK
<1>12. t \in BuiltGroups /\ Seen(t) /\ t \in Nat /\ Current \in Left(t)
  <2>1. Top \in Frames
    BY <1>1, OpenFrames DEF Invariants, WalkOK, IInv
  <2>2. Current \in Left(t)
    BY <1>0, <1>1, CurrentIs DEF IInv
  <2> QED BY <1>0, <2>1, <2>2, OpenIsBuilt, BuiltIs, GroupsOfFile DEF Invariants, WalkOK
<1>13. HasStmt(t, "simple", "when")
  BY <1>0, <1>1, <1>10, <1>12 DEF HasStmt, Statement
<1>14. ASSUME NEW h \in BuiltGroups, Is(h, PowerGroups), h <= t PROVE FALSE
  <2>1. ~Seen(h)
    BY <1>11, <1>14 DEF FlagOK, Invariants
  <2>2. t < h
    BY <1>12, <2>1 DEF InOrder, WalkOK, Invariants
  <2>3. h \in Nat
    BY BuiltIs, GroupsOfFile
  <2> QED BY <1>12, <1>14, <2>2, <2>3
<1> QED BY <1>0, <1>13, <1>14 DEF Unset

LEMMA AttrStays ==
  ASSUME NEW w, attrs' = w @@ attrs, NEW key, key \notin DOMAIN w
  PROVE  /\ key \in DOMAIN attrs' <=> key \in DOMAIN attrs
         /\ key \in DOMAIN attrs => attrs'[key] = attrs[key]
<1>1. /\ key \in DOMAIN (w @@ attrs) <=> key \in DOMAIN attrs
      /\ key \in DOMAIN attrs => (w @@ attrs)[key] = attrs[key]
  BY KeyStays, Zenon
<1> QED BY <1>1, Zenon

\* Only an arc's own statement gives it a type.
LEMMA SimpleArcs ==
  ASSUME file \in LibFiles, IInv, At("simple"), NEW o \in Receivers(Statement),
         \/ attrs' = attrs
         \/ /\ Statement.attr \in DOMAIN Attributes
            /\ attrs' = [k \in {<<o, at[1], at[2]>> : at \in Attributes[Statement.attr].at}
                           |-> Stored(Statement)] @@ attrs
  PROVE  ArcsStay
<1>1. CASE attrs' = attrs
  BY <1>1, ChecksSame, SameArcs
<1>2. CASE attrs' # attrs
  <2>0. PICK at : at = Attributes[Statement.attr].at
    OBVIOUS
  <2>1. PICK w : w = [k \in {<<o, x[1], x[2]>> : x \in at} |-> Stored(Statement)]
    OBVIOUS
  <2>2. attrs' = w @@ attrs /\ Statement.attr \in DOMAIN Attributes
    BY <1>2, <2>0, <2>1, Zenon
  <2>3. DOMAIN w = {<<o, x[1], x[2]>> : x \in at}
    BY <2>1
  <2>4. error = None /\ stack # << >> /\ Statement.kind = "simple"
    BY DEF At, Reaches
  <2>5. SUFFICES ASSUME NEW a, a # <<Top.g, 1>> PROVE isCheckArc(a)' <=> isCheckArc(a)
    <3>1. IsSimple(Top.g, Current)
      BY <2>4 DEF IsSimple, Statement
    <3> QED BY <3>1 DEF ArcsStay
  <2>6. PICK e : e = ""
    BY Zenon
  <2>7. PICK key : key = <<a, "timing_type", e>>
    OBVIOUS
  <2>8. key \notin DOMAIN w
    <3>1. SUFFICES ASSUME NEW x \in at, key = <<o, x[1], x[2]>> PROVE FALSE
      BY <2>3
    <3>2. a = o /\ x[1] = "timing_type"
      BY <2>7, <3>1
    <3>3. Attributes[Statement.attr].of = "arc"
      BY <2>0, <2>2, <3>2, AttributesAre DEF DirectsAll, Directs
    <3>4. o = builder.arc
      BY <2>2, <3>3 DEF Receivers
    <3>5. <<"arc", Group(Top.g).name>> \in HomesOf
      BY <2>2, <2>4, <3>3, HomeOfStatement
    <3>6. Is(Top.g, {"timing"})
      BY <3>5, HomesAre DEF Is
    <3>7. builder.arc = <<Top.g, 1>>
      BY <2>4, <3>6, TopAtHome DEF AtHome
    <3> QED BY <2>5, <3>2, <3>4, <3>7
  <2>9. /\ key \in DOMAIN attrs' <=> key \in DOMAIN attrs
        /\ key \in DOMAIN attrs => attrs'[key] = attrs[key]
    BY <2>2, <2>8, AttrStays
  <2>10. Attr(a, "timing_type")' = Attr(a, "timing_type")
    BY <2>6, <2>7, <2>9, Zenon DEF Attr
  <2> QED BY <2>10, Zenon DEF isCheckArc
<1> QED BY <1>1, <1>2

\* What every attribute that is taken leaves as it was.
LEMMA TakingAdvances ==
  ASSUME file \in LibFiles, IInv, Invariants, At("simple") \/ At("complex"), stack' = Advanced,
         UNCHANGED <<file, builder, kinds, error, HeldTemplates>>, ArcsStay,
         Statement.kind = "complex" /\ Statement.attr \in DOMAIN Ranges => builder.port # None,
         Statement.kind = "simple" => ~Broken(Top.g, Current)
  PROVE  Invariants'
<1>1. /\ error = None /\ stack # << >> /\ Top.left # {} /\ Statement.kind \in {"simple", "complex"}
      /\ ~Flawed(Statement)
  BY DEF At, Reaches
<1>2. \A g \in BuiltGroups : ~IsGroupStmt(Top.g, Current, g)
  BY <1>1 DEF IsGroupStmt, Statement
<1>3. ~Blocks(Top.g, Current)
  <2>1. CASE Statement.kind = "complex" /\ Statement.attr \in DOMAIN Ranges
    BY <1>1, <2>1, RangeMeets DEF At
  <2>2. CASE Statement.kind = "complex" /\ Statement.attr \notin DOMAIN Ranges
    <3>1. Of(Statement) \notin {"port", "port_or_wire_load"}
      BY <2>2 DEF Of
    <3> QED BY <1>1, <2>2, <3>1 DEF Blocks, Broken, Late, Statement
  <2>3. CASE Statement.kind = "simple"
    BY <2>3 DEF Blocks, Late, Statement
  <2> QED BY <1>1, <2>1, <2>2, <2>3
<1>4. Advances
  BY <1>1, <1>2, <1>3 DEF Advances
<1> QED BY <1>4, AdvanceKeeps

\* What a pin of no ports says of its port finds nobody.
LEMMA PortlessTakesNothing ==
  ASSUME file \in LibFiles, IInv, NoWire, At("simple"), Portless(Top.g),
         Of(Statement) \in {"port", "port_or_wire_load"}
  PROVE  Receivers(Statement) = {None}
<1>1. error = None /\ stack # << >> /\ Statement.kind = "simple"
  BY DEF At, Reaches
<1>2. Statement.attr \in DOMAIN Attributes /\ Attributes[Statement.attr].of = Of(Statement)
  BY <1>1 DEF Of
<1>3. PortInUse = None
  BY <1>1, Reached, HomeIsThere DEF Portless, Is
<1>4. Cast({"wire_load"}) = None
  BY <1>1, NoWireLoad
<1> QED BY <1>2, <1>3, <1>4 DEF Receivers

LEMMA TakingSimple ==
  ASSUME file \in LibFiles, IInv, NoWire, Invariants, visitSimpleAttri
  PROVE  \/ Invariants' /\ UNCHANGED <<file, error>>
         \/ OnlyStops /\ \E g \in BuiltGroups : Cause(g)
<1>1. At("simple")
  BY Zenon DEF visitSimpleAttri
<1>2. PICK o \in Receivers(Statement) :
        \/ o = None /\ Stop("null pointer")
        \/ /\ o # None
           /\ attrs' = IF o = Nobody \/ ~Takes(Statement) THEN attrs
                       ELSE [k \in {<<o, at[1], at[2]>> : at \in Attributes[Statement.attr].at}
                               |-> Stored(Statement)] @@ attrs
           /\ stack' = Advanced
           /\ UNCHANGED <<file, builder, kinds, members, error>>
  BY Zenon DEF visitSimpleAttri
<1>3. CASE o = None /\ Stop("null pointer")
  <2>1. Unset(Top.g) \/ Broken(Top.g, Current)
    BY <1>1, <1>2, <1>3, NullMeans
  <2>2. Top.g \in BuiltGroups /\ Current \in Left(Top.g)
    <3>1. stack # << >> /\ Top.left # {}
      BY <1>1 DEF At, Reaches
    <3>2. Top \in Frames /\ Current \in Left(Top.g)
      BY <3>1, OpenFrames, CurrentIs DEF Invariants, WalkOK, IInv
    <3> QED BY <3>2, OpenIsBuilt DEF Invariants, WalkOK
  <2> QED BY <1>3, <2>1, <2>2, Stopping DEF Cause, Blocks
<1>4. CASE ~(o = None /\ Stop("null pointer"))
  <2>1. /\ stack' = Advanced
        /\ UNCHANGED <<file, builder, kinds, members, error>>
    BY <1>2, <1>4, Zenon
  <2>2. \/ attrs' = attrs
        \/ /\ Statement.attr \in DOMAIN Attributes
           /\ attrs' = [k \in {<<o, at[1], at[2]>> : at \in Attributes[Statement.attr].at}
                          |-> Stored(Statement)] @@ attrs
    <3>1. CASE Statement.attr \in DOMAIN Attributes
      BY <1>2, <1>4, <3>1, Zenon
    <3>2. CASE Statement.attr \notin DOMAIN Attributes
      <4>1. o = Nobody
        BY <3>2 DEF Receivers
      <4> QED BY <1>2, <1>4, <4>1, Zenon
    <3> QED BY <3>1, <3>2
  <2>3. ArcsStay
    BY <1>1, <2>2, SimpleArcs
  <2>4. UNCHANGED HeldTemplates
    BY <2>1, TemplatesSame
  <2>5. ~(Statement.kind = "complex") /\ Statement.kind = "simple" /\ ~Flawed(Statement)
    BY <1>1 DEF At
  <2>6. o # None
    BY <1>2, <1>4, Zenon
  <2>7. ~Broken(Top.g, Current)
    <3>1. ~(Portless(Top.g) /\ Of(Statement) \in {"port", "port_or_wire_load"})
      BY <1>1, <1>2, <2>6, PortlessTakesNothing
    <3> QED BY <2>5, <3>1 DEF Broken, Statement
  <2> QED BY <1>1, <2>1, <2>3, <2>4, <2>5, <2>7, TakingAdvances
<1> QED BY <1>3, <1>4

\* Where only attributes are set, and no type of an arc.
LEMMA TakingSets ==
  ASSUME file \in LibFiles, IInv, Invariants, At("complex"), NEW w, NEW S, Fields(w, S),
         "timing_type" \notin S, Sets(w), Statement.attr \in DOMAIN Ranges => builder.port # None
  PROVE  Invariants' /\ UNCHANGED <<file, error>>
<1>1. stack' = Advanced /\ UNCHANGED <<file, builder, kinds, members, error>> /\ attrs' = w @@ attrs
  BY Zenon DEF Sets
<1>2. ArcsStay
  BY <1>1, ChecksAfter, SameArcs
<1>3. UNCHANGED HeldTemplates
  BY <1>1, TemplatesSame
<1>4. Statement.kind = "complex"
  BY DEF At
<1> QED BY <1>1, <1>2, <1>3, <1>4, TakingAdvances

LEMMA TakingComplex ==
  ASSUME file \in LibFiles, IInv, Invariants, At("complex"), visitAttributes
  PROVE  \/ Invariants' /\ UNCHANGED <<file, error>>
         \/ OnlyStops /\ \E g \in BuiltGroups : Cause(g)
<1>0. PICK t : t = Top.g
  OBVIOUS
<1>1. error = None /\ stack # << >> /\ Top.left # {} /\ Statement.kind = "complex"
  BY DEF At, Reaches
<1>2. t \in BuiltGroups /\ Current \in Left(t)
  <2>1. Top \in Frames
    BY <1>1, OpenFrames DEF Invariants, WalkOK, IInv
  <2>2. Current \in Left(t)
    BY <1>0, <1>1, CurrentIs DEF IInv
  <2> QED BY <1>0, <2>1, <2>2, OpenIsBuilt DEF Invariants, WalkOK
<1>3. DOMAIN Ranges = {"rise_capacitance_range", "fall_capacitance_range"}
  BY DEF Ranges
<1>4. \A classes : Is(t, Objects) /\ ObjectClass[Group(t).name] \in classes => Cast(classes) # None
  BY <1>0, <1>1, ObjectThere
<1>5. /\ Of(Statement) # "nobody" => <<Of(Statement), Group(t).name>> \in HomesOf
  BY <1>0, <1>1, HomeOfStatement
<1>6. CASE capacitive_load_unit
  <2>1. PICK one : one = <<Library, "cap_unit", "">> :> Plain("pf")
    BY Zenon
  <2>2. Fields(one, {"cap_unit"})
    BY <2>1, PairField, Zenon
  <2>3. Fields(<< >>, {"cap_unit"})
    BY NoFields
  <2>4. PICK w : w \in {one, << >>} /\ Sets(w)
    BY <1>6, <2>1, Zenon DEF capacitive_load_unit
  <2>5. Statement.attr \notin DOMAIN Ranges
    BY <1>3, <1>6 DEF capacitive_load_unit
  <2>6. Fields(w, {"cap_unit"})
    BY <2>2, <2>3, <2>4
  <2> QED BY <2>4, <2>5, <2>6, TakingSets
<1>7. CASE capacitance_range
  <2>1. Statement.attr \in DOMAIN Ranges
    BY <1>7, Zenon DEF capacitance_range
  <2>2. CASE builder.port = None
    <3>1. Blocks(t, Current)
      BY <1>0, <2>1, <2>2, RangeMeets
    <3>2. Stop("null pointer")
      BY <1>7, <2>2, Zenon DEF capacitance_range
    <3> QED BY <1>2, <3>1, <3>2, Stopping DEF Cause
  <2>3. CASE builder.port # None
    <3>1. PICK a, b : /\ a = <<builder.port, "port_caps", Ranges[Statement.attr][1]>> :> Plain(Statement.key)
                      /\ b = <<builder.port, "port_caps", Ranges[Statement.attr][2]>> :> Plain(Statement.val)
      BY Zenon
    <3>2. Fields(a, {"port_caps"}) /\ Fields(b, {"port_caps"})
      BY <3>1, PairField, Zenon
    <3>3. PICK w : w = a @@ b
      BY Zenon
    <3>4. Fields(w, {"port_caps"})
      BY <3>2, <3>3, MergeFields, Zenon
    <3>5. Sets(w)
      BY <1>7, <2>3, <3>1, <3>3, Zenon DEF capacitance_range
    <3> QED BY <2>3, <3>4, <3>5, TakingSets
  <2> QED BY <2>2, <2>3
<1>8. CASE fanout_length
  <2>1. Statement.attr = "fanout_length" /\ Statement.attr \notin DOMAIN Ranges
    BY <1>3, <1>8 DEF fanout_length
  <2>2. Is(t, {"wire_load"})
    BY <1>1, <1>5, <2>1, OfComplex, HomesAre DEF Is
  <2>3. Cast({"wire_load"}) # None
    BY <1>4, <2>2 DEF Is, Objects, ObjectClass
  <2>4. PICK w : w = <<Cast({"wire_load"}), "fanout_to_length", Statement.key>> :> Plain(Statement.val)
    BY Zenon
  <2>5. Fields(w, {"fanout_to_length"})
    BY <2>4, PairField, Zenon
  <2>6. Sets(w) \/ Sets(<< >>)
    BY <1>8, <2>3, <2>4, Zenon DEF fanout_length
  <2>7. Fields(<< >>, {"fanout_to_length"})
    BY NoFields
  <2> QED BY <2>1, <2>5, <2>6, <2>7, TakingSets
<1>9. CASE visitAxisOrValues
  <2>1. Statement.attr \in Indices \cup {"values"} /\ Statement.attr \notin DOMAIN Ranges
    BY <1>3, <1>9 DEF visitAxisOrValues, Indices
  <2>2. PICK o : o = Cast(IF Statement.attr = "values" THEN Tables ELSE Tables \cup Templates)
    OBVIOUS
  <2>3. o # None
    <3>1. CASE Statement.attr = "values"
      <4>1. Of(Statement) = "table"
        BY <1>1, <1>3, <3>1 DEF Of, Indices
      <4>2. Is(t, DelayTables \cup PowerTables \cup {"vector"})
        BY <1>5, <4>1 DEF HomesOf, Is
      <4>3. Is(t, Objects) /\ ObjectClass[Group(t).name] \in Tables
        BY <4>2 DEF Is, Objects, ObjectClass, Tables, DelayTables, PowerTables
      <4>4. o = Cast(Tables)
        BY <2>2, <3>1
      <4> QED BY <1>4, <4>3, <4>4
    <3>2. CASE Statement.attr # "values"
      <4>1. Of(Statement) = "obj"
        BY <1>1, <1>3, <2>1, <3>2 DEF Of, Indices
      <4>2. Is(t, DelayTables \cup PowerTables \cup
                  {"vector", "lu_table_template", "power_lut_template", "output_current_template"})
        BY <1>5, <4>1 DEF HomesOf, Is
      <4>3. Is(t, Objects) /\ ObjectClass[Group(t).name] \in Tables \cup Templates
        BY <4>2 DEF Is, Objects, ObjectClass, Tables, Templates, DelayTables, PowerTables
      <4>4. o = Cast(Tables \cup Templates)
        BY <2>2, <3>2
      <4> QED BY <1>4, <4>3, <4>4
    <3> QED BY <3>1, <3>2
  <2>4. PICK w : w = <<o, "table_values", "">> :> Plain(Statement.val)
    BY Zenon
  <2>5. Fields(w, {"table_values"}) /\ Fields(<< >>, {"table_values"})
    BY <2>4, PairField, NoFields, Zenon
  <2>6. PICK k : k = Adds(o, "axes", "", <<Top.g, Current>>)
    BY Zenon
  <2>7. Fields(k, {"axes"})
    BY <2>6, AddsField, Zenon
  <2>8. \/ Sets(<< >>) \/ Sets(w)
        \/ /\ members' = k @@ members
           /\ stack' = Advanced
           /\ UNCHANGED <<file, builder, kinds, attrs, error>>
    BY <1>9, <2>2, <2>3, <2>4, <2>6, Zenon DEF visitAxisOrValues
  <2>9. CASE Sets(<< >>) \/ Sets(w)
    BY <2>1, <2>5, <2>9, TakingSets
  <2>10. CASE members' = k @@ members /\ stack' = Advanced /\ UNCHANGED <<file, builder, kinds, attrs, error>>
    <3>1. ArcsStay
      BY <2>10, ChecksSame, SameArcs
    <3>2. UNCHANGED HeldTemplates
      BY <2>7, <2>10, TemplatesAfter
    <3> QED BY <1>1, <2>1, <2>10, <3>1, <3>2, TakingAdvances
  <2> QED BY <2>8, <2>9, <2>10
<1>10. CASE other_complex
  <2>1. Statement.attr \notin DOMAIN Ranges /\ Sets(<< >>)
    BY <1>10 DEF other_complex
  <2>2. Fields(<< >>, {"cap_unit"})
    BY NoFields
  <2> QED BY <2>1, <2>2, TakingSets
<1>11. ~visitSimpleAttri
  BY <1>1 DEF visitSimpleAttri, At
<1> QED BY <1>6, <1>7, <1>8, <1>9, <1>10, <1>11 DEF visitAttributes

-----------------------------------------------------------------------------
(***************************************************************************)
(* Leaving a group.                                                        *)
(***************************************************************************)
PointersLeft(t) ==
  /\ builder'.own_pg_or_when_type = builder.own_pg_or_when_type
  /\ builder'.leakage_power = builder.leakage_power
  /\ builder'.table_model = builder.table_model
  /\ ~Is(t, {"pin", "bus", "bundle"}) => builder'.port = builder.port
  /\ Is(t, {"pin"}) => builder'.port = None
ModelThere == builder.table_model # None /\ kinds[builder.table_model] = "delay_model"
LeavesAs(t) ==
  /\ t = Top.g /\ Leaves({Group(t).name}) /\ UNCHANGED <<file, kinds, error>> /\ ChecksStay
  /\ PointersLeft(t)
  /\ Is(t, LutTemplates) => HeldTemplates' = Append(HeldTemplates, <<t, 1>>)
  /\ ~Is(t, LutTemplates) => HeldTemplates' = HeldTemplates
  /\ Is(t, CurrentTables) => ModelThere

\* An output current finds a delay model if a delay table came before it.
LEMMA ModelMeets ==
  ASSUME file \in LibFiles, IInv, Invariants, error = None, stack # << >>, NEW t, t = Top.g,
         Is(t, CurrentTables)
  PROVE  ModelThere <=> ~NoDelay(t)
<1>1. /\ WalkOK /\ ModelOK /\ TypeOK /\ Increasing /\ OnlyBuilt /\ OpenSeen /\ Inside /\ InOrder
  BY DEF Invariants, WalkOK, IInv
<1>2. t # 1 /\ Group(t).name # "library"
  BY GroupsOfFile DEF Is, CurrentTables
<1>3. PICK p : p = Parent(t)
  OBVIOUS
<1>4. Top \in Frames /\ t \in BuiltGroups /\ Seen(t) /\ Open(p)
  <2>1. Top \in Frames
    BY <1>1, OpenFrames
  <2> QED BY <1>1, <1>2, <1>3, <2>1, OpenFrames, OpenIsBuilt
<1>5. p \in BuiltGroups /\ p < t /\ p \in Nat /\ t \in Nat /\ Is(p, {"timing"})
  <2>1. <<Group(t).name, Group(p).name>> \in Nesting /\ p \in BuiltGroups /\ p < t
    BY <1>2, <1>3, <1>4, BuiltNest
  <2> QED BY <1>4, <2>1, ParentOf, BuiltIs, GroupsOfFile DEF Is
<1>6. ModelIs(p)
  BY <1>1, <1>4, <1>5, ModelOKIs
<1>7. <<p, 0>> # None
  BY <1>5, NoneAssumption
<1>8. ModelThere <=> SeenTables(p) # {} /\ ~isCheckArc(<<p, 1>>)
  <2>1. ModelFor(p) = "delay_model" <=> ~isCheckArc(<<p, 1>>)
    BY DEF ModelFor
  <2> QED BY <1>6, <1>7, <2>1 DEF ModelThere, ModelIs
<1>9. ASSUME NEW h \in SeenTables(p) PROVE h \in Children(DelayTables, p) /\ h < t
  <2>1. h \in BuiltGroups /\ Parent(h) = p /\ Seen(h) /\ h \in Children(DelayTables, p) /\ Is(h, DelayTables)
    BY DEF SeenTables, Children
  <2>2. h \in Nat
    BY <2>1, BuiltIs, GroupsOfFile
  <2>3. h # t
    BY <2>1 DEF Is, DelayTables, CurrentTables
  <2>4. t < h => t <= p
    BY <1>1, <1>4, <2>1 DEF Inside
  <2> QED BY <1>5, <2>1, <2>2, <2>3, <2>4
<1>10. ASSUME NEW h \in Children(DelayTables, p), h < t PROVE h \in SeenTables(p)
  <2>1. h \in BuiltGroups /\ h \in Nat
    BY BuiltIs, GroupsOfFile DEF Children
  <2>2. Seen(h)
    BY <1>1, <1>4, <1>5, <1>10, <2>1 DEF InOrder
  <2> QED BY <2>2 DEF SeenTables
<1>11. NoDelay(t) <=> isCheckArc(<<p, 1>>) \/ SeenTables(p) = {}
  <2>1. isCheckArc(<<Parent(t), 1>>) <=> isCheckArc(<<p, 1>>)
    BY <1>3, Zenon
  <2> QED BY <1>3, <1>9, <1>10, <2>1 DEF NoDelay
<1> QED BY <1>8, <1>11

LEMMA LeavingKeeps ==
  ASSUME file \in LibFiles, IInv, Invariants, NEW t, LeavesAs(t) PROVE Invariants'
<1>1. /\ BuiltGroups' = BuiltGroups
      /\ \A g : Group(g)' = Group(g) /\ Parent(g)' = Parent(g) /\ Left(g)' = Left(g)
      /\ \A g, names : Is(g, names)' = Is(g, names)
      /\ \A names, p : Children(names, p)' = Children(names, p)
  BY FileStays DEF LeavesAs
<1>2. /\ error = None /\ stack # << >> /\ t = Top.g /\ Top.left = {} /\ Leaves({Group(t).name})
      /\ UNCHANGED <<file, kinds, error>> /\ ChecksStay
      /\ WalkOK /\ TypeOK /\ Increasing /\ OnlyBuilt /\ OpenSeen
  BY DEF LeavesAs, Leaves, Invariants, IInv, WalkOK
<1>3. WalkOK'
  BY <1>2, WalkLeaves
<1>4. Frames' = Frames \ {Top} /\ Top \in Frames
  BY <1>2, FramesAfterLeaving, OpenFrames
<1>5. t \in BuiltGroups /\ Seen(t) /\ Open(t)
  BY <1>2, <1>4, OpenIsBuilt DEF Open
<1>6. /\ \A g : Open(g)' <=> Open(g) /\ g # t
      /\ \A g : Seen(g)' <=> Seen(g)
  <2>1. \A f \in Frames : f.g = t => f = Top
    BY <1>2, <1>4, OpenFrames
  <2>2. \A g : Open(g)' <=> Open(g) /\ g # t
    BY <1>2, <1>4, <2>1 DEF Open
  <2> QED BY <1>2, <2>2, SeenAfterLeaving
<1>7. PointersLeft(t)
  BY DEF LeavesAs
<1>8. KindsByName' /\ FlagOK'
  BY <1>1, <1>2, <1>6, <1>7 DEF KindsByName, FlagOK, Invariants, PointersLeft
<1>9. ModelOK'
  <2>1. \A g : SeenTables(g)' = SeenTables(g)
    BY <1>1, <1>6 DEF SeenTables, DelayTables
  <2>2. \A g : ModelFor(g)' = ModelFor(g)
    BY <1>2, Zenon DEF ChecksStay, ModelFor
  <2>3. SUFFICES ASSUME NEW g, Open(g), Is(g, {"timing"}) PROVE ModelIs(g)'
    BY <1>1, <1>6 DEF ModelOK, ModelIs, ModelFor, Open
  <2>4. ModelIs(g)
    BY <2>3, ModelOKIs DEF Invariants
  <2> QED BY <1>2, <1>7, <2>1, <2>2, <2>4 DEF ModelIs, PointersLeft
<1>10. BusOK'
  <2>1. \A g : LeftPins(g)' = {h \in Children({"pin"}, g) : Seen(h) /\ (~Open(h) \/ h = t)}
    BY <1>1, <1>6 DEF LeftPins
  <2>2. SUFFICES ASSUME NEW g, Open(g), g # t, Is(g, {"bus", "bundle"}) PROVE BusIs(g)'
    BY <1>1, <1>6 DEF BusOK, BusIs, Open
  <2>3. BusIs(g)
    BY <2>2 DEF BusOK, BusIs, Open, Invariants
  <2>4. /\ Level[Group(g).name] = 2 /\ g \in BuiltGroups
        /\ \A h : Open(h) /\ Level[Group(h).name] = 2 => h = g
    BY <1>2, <2>2, OneOfLevel, Levels DEF Is
  <2>5. CASE Is(t, {"pin"})
    <3>1. builder.port_bus = <<g, 1>> /\ <<g, 1>> # None
      BY <1>2, <2>2, <2>4, OpenAtHome, BuiltIs, GroupsOfFile, NoneAssumption DEF AtHome
    <3>2. InBus(t)
      BY <1>2, <2>5, <3>1, TopAtHome DEF AtHome
    <3>3. t # 1
      BY <2>5, GroupsOfFile DEF Is
    <3>4. Open(Parent(t))
      BY <1>2, <1>4, <3>3, OpenFrames
    <3>5. Parent(t) = g
      BY <2>4, <3>2, <3>4, Levels DEF InBus, Is
    <3>6. t \in LeftPins(g)'
      BY <1>5, <2>1, <2>5, <3>5 DEF Children
    <3>7. builder'.port = None
      BY <1>7, <2>5 DEF PointersLeft
    <3> QED BY <3>6, <3>7 DEF BusIs
  <2>6. CASE ~Is(t, {"pin"})
    <3>1. ~Is(t, {"bus", "bundle"})
      BY <1>5, <2>2, <2>4, Levels DEF Is
    <3>2. LeftPins(g)' = LeftPins(g)
      BY <2>1, <2>6 DEF LeftPins, Children
    <3>3. builder'.port = builder.port
      BY <1>7, <2>6, <3>1 DEF PointersLeft, Is
    <3> QED BY <2>3, <3>2, <3>3 DEF BusIs
  <2> QED BY <2>5, <2>6
<1>11. TemplatesOK'
  <2>1. /\ HeldTemplates \in Seq(BuiltGroups \X {1})
        /\ \A n \in DOMAIN HeldTemplates : Seen(HeldTemplates[n][1]) /\ Is(HeldTemplates[n][1], LutTemplates)
        /\ \A g \in BuiltGroups : Is(g, LutTemplates) /\ Seen(g) /\ ~Open(g) =>
             \E n \in DOMAIN HeldTemplates : HeldTemplates[n] = <<g, 1>>
    BY DEF Invariants, TemplatesOK
  <2>2. CASE Is(t, LutTemplates)
    <3>1. PICK s, h : s = HeldTemplates /\ h = HeldTemplates'
      OBVIOUS
    <3>2. h = Append(s, <<t, 1>>)
      BY <2>2, <3>1 DEF LeavesAs
    <3>3. s \in Seq(BuiltGroups \X {1})
      BY <2>1, <3>1
    <3>4. /\ h \in Seq(BuiltGroups \X {1}) /\ Len(h) = Len(s) + 1 /\ Len(s) \in Nat
          /\ \A n \in 1 .. Len(s) : h[n] = s[n]
          /\ h[Len(s) + 1] = <<t, 1>>
      BY <1>5, <3>2, <3>3, AppendProperties, LenProperties
    <3>5. DOMAIN s = 1 .. Len(s) /\ DOMAIN h = 1 .. Len(s) + 1
      BY <3>3, <3>4, LenProperties
    <3>6. ASSUME NEW n \in DOMAIN h PROVE Seen(h[n][1]) /\ Is(h[n][1], LutTemplates)
      <4>1. CASE n \in 1 .. Len(s)
        BY <2>1, <3>1, <3>4, <3>5, <4>1
      <4>2. CASE n = Len(s) + 1
        BY <1>5, <2>2, <3>4, <4>2
      <4> QED BY <3>4, <3>5, <4>1, <4>2
    <3>7. ASSUME NEW g \in BuiltGroups, Is(g, LutTemplates), Seen(g), ~(Open(g) /\ g # t)
          PROVE  \E n \in DOMAIN h : h[n] = <<g, 1>>
      <4>1. CASE g = t
        <5>1. Len(s) + 1 \in DOMAIN h
          BY <3>4, <3>5
        <5> QED BY <3>4, <4>1, <5>1
      <4>2. CASE g # t
        <5>1. PICK n \in DOMAIN s : s[n] = <<g, 1>>
          BY <2>1, <3>1, <3>7, <4>2
        <5>2. n \in DOMAIN h /\ n \in 1 .. Len(s)
          BY <3>4, <3>5, <5>1
        <5> QED BY <3>4, <5>1, <5>2
      <4> QED BY <4>1, <4>2
    <3> QED BY <1>1, <1>6, <3>1, <3>4, <3>6, <3>7 DEF TemplatesOK
  <2>3. CASE ~Is(t, LutTemplates)
    <3>1. HeldTemplates' = HeldTemplates
      BY <2>3 DEF LeavesAs
    <3>2. \A g : Is(g, LutTemplates) => (Open(g)' <=> Open(g))
      BY <1>6, <2>3
    <3> QED BY <1>1, <1>6, <2>1, <3>1, <3>2 DEF TemplatesOK
  <2> QED BY <2>2, <2>3
<1>12. ASSUME NEW g \in BuiltGroups, Seen(g)
       PROVE  /\ \A i : Blocks(g, i)' <=> Blocks(g, i)
              /\ (Unknown(g)' <=> Unknown(g)) /\ (NoName(g)' <=> NoName(g))
              /\ NoDelay(g)' <=> NoDelay(g)
              /\ Slew(g)' <=> Slew(g)
  BY <1>2, <1>12, SeenFaults
<1>13. BlocksAhead'
  <2> SUFFICES ASSUME NEW g \in BuiltGroups, NEW i \in Left(g), Seen(g), Blocks(g, i)'
               PROVE  \E f \in Frames' : f.g = g /\ i \in f.left
    BY <1>1, <1>6 DEF BlocksAhead
  <2>1. Blocks(g, i)
    BY <1>12
  <2>2. PICK f \in Frames : f.g = g /\ i \in f.left
    BY <2>1 DEF BlocksAhead, Invariants
  <2> QED BY <1>2, <1>4, <2>2
<1>14. CurrentsAhead'
  <2> SUFFICES ASSUME NEW g \in BuiltGroups, Seen(g), NoDelay(g)' PROVE Open(g) /\ g # t
    BY <1>1, <1>6 DEF CurrentsAhead
  <2>1. NoDelay(g)
    BY <1>12
  <2>2. g # t
    <3>1. Is(t, CurrentTables) => ~NoDelay(t)
      BY <1>2, ModelMeets DEF LeavesAs
    <3> QED BY <2>1, <3>1 DEF NoDelay
  <2> QED BY <2>1, <2>2 DEF CurrentsAhead, Invariants
<1>15. TablesAhead'
  BY <1>1, <1>6, <1>12 DEF TablesAhead, Invariants
<1> QED BY <1>3, <1>8, <1>9, <1>10, <1>11, <1>13, <1>14, <1>15 DEF Invariants

-----------------------------------------------------------------------------
\* What every handler that leaves a group does to what the walk depends on.
LEMMA OnLeave ==
  ASSUME NEW names, Leaves(names), NEW t, t = Top.g
  PROVE  Is(t, names) /\ Leaves({Group(t).name})
  BY DEF Leaves, Is

LEMMA ClosesAs ==
  ASSUME file \in LibFiles, IInv, NEW t, t = Top.g, NEW names, Leaves(names),
         names \cap (LutTemplates \cup CurrentTables \cup {"pin", "bus", "bundle"}) = {},
         NEW o, NEW container, container # "lut_templates",
         Closes(o, container, [builder EXCEPT !.obj = None])
  PROVE  LeavesAs(t)
<1>1. /\ builder' = [builder EXCEPT !.obj = None] /\ UNCHANGED <<file, kinds, attrs, error>>
  BY Zenon DEF Closes
<1>2. Is(t, names) /\ Leaves({Group(t).name})
  BY OnLeave
<1>3. ~Is(t, {"pin", "bus", "bundle"}) /\ ~Is(t, LutTemplates) /\ ~Is(t, CurrentTables)
  BY <1>2 DEF Is
<1>4. PointersLeft(t)
  BY <1>1, <1>3 DEF PointersLeft, IInv, TypeOK, LibBuilder, Is
<1>5. HeldTemplates' = HeldTemplates
  <2>1. PICK w : w = Adds(o, container, "", <<Top.g, 1>>)
    BY Zenon
  <2>2. Fields(w, {container}) /\ members' = w @@ members
    BY <2>1, AddsField, Zenon DEF Closes
  <2>3. "lut_templates" \notin {container}
    OBVIOUS
  <2> QED BY <2>2, <2>3, TemplatesAfter
<1> QED BY <1>1, <1>2, <1>3, <1>4, <1>5, ChecksSame DEF LeavesAs

LEMMA ClosesTemplate ==
  ASSUME file \in LibFiles, IInv, leaveTemplate, NEW t, t = Top.g PROVE LeavesAs(t)
<1>1. Leaves(LutTemplates) /\ Closes(Library, "lut_templates", [builder EXCEPT !.obj = None])
  BY Zenon DEF leaveTemplate, LutTemplates
<1>2. /\ builder' = [builder EXCEPT !.obj = None] /\ UNCHANGED <<file, kinds, attrs, error>>
  BY <1>1, Zenon DEF Closes
<1>3. Is(t, LutTemplates) /\ Leaves({Group(t).name})
  BY <1>1, OnLeave
<1>4. ~Is(t, {"pin", "bus", "bundle"}) /\ ~Is(t, CurrentTables)
  BY <1>3 DEF Is, LutTemplates, CurrentTables
<1>5. PointersLeft(t)
  BY <1>2, <1>4 DEF PointersLeft, IInv, TypeOK, LibBuilder, Is
<1>6. HeldTemplates' = Append(HeldTemplates, <<t, 1>>)
  <2>1. PICK e : e = ""
    BY Zenon
  <2>2. PICK key, x : key = <<Library, "lut_templates", e>> /\ x = Append(HeldTemplates, <<t, 1>>)
    OBVIOUS
  <2>3. PICK w : w = key :> x
    BY Zenon
  <2>4. members' = w @@ members
    BY <1>1, <2>1, <2>2, <2>3, Zenon DEF Closes, Adds, HeldTemplates
  <2>5. DOMAIN w = {key} /\ w[key] = x
    BY <2>3, OnlyIs, Zenon
  <2>6. key \in DOMAIN w
    BY <2>5
  <2>7. key \in DOMAIN (w @@ members) /\ (w @@ members)[key] = x
    <3>1. DOMAIN (w @@ members) = DOMAIN w \cup DOMAIN members
      BY MergeIs, Zenon
    <3>2. \A z \in DOMAIN w : (w @@ members)[z] = w[z]
      BY MergeIs, Zenon
    <3>3. key \in DOMAIN (w @@ members)
      BY <2>6, <3>1, Zenon
    <3>4. (w @@ members)[key] = x
      BY <2>5, <2>6, <3>2, Zenon
    <3> QED BY <3>3, <3>4
  <2>8. key \in DOMAIN members' /\ members'[key] = x
    BY <2>4, <2>7, Zenon
  <2> QED BY <2>1, <2>2, <2>8, Zenon DEF HeldTemplates, Held, Library
<1> QED BY <1>2, <1>3, <1>4, <1>5, <1>6, ChecksSame DEF LeavesAs

\* Where at most containers of arcs are filled.
LEMMA LeavesPointers ==
  ASSUME file \in LibFiles, IInv, NEW t, t = Top.g, NEW names, Leaves(names),
         names \cap LutTemplates = {}, Is(t, CurrentTables) => ModelThere,
         UNCHANGED <<file, kinds, attrs, error, HeldTemplates>>,
         \/ UNCHANGED builder /\ names \cap {"pin"} = {}
         \/ builder' = [builder EXCEPT !.obj = None] /\ names = {"vector"}
         \/ builder' = [builder EXCEPT !.obj = None, !.port = None] /\ names = {"pin"}
         \/ /\ builder' = [builder EXCEPT !.obj = None, !.port = None, !.port_bus = None]
            /\ names = {"bus", "bundle"}
         \/ builder' = [builder EXCEPT !.obj = None, !.power_arc = None] /\ names = {"internal_power"}
  PROVE  LeavesAs(t)
<1>1. Is(t, names) /\ Leaves({Group(t).name})
  BY OnLeave
<1>2. ~Is(t, LutTemplates)
  BY <1>1 DEF Is
<1>3. PointersLeft(t)
  BY <1>1 DEF PointersLeft, IInv, TypeOK, LibBuilder, Is
<1> QED BY <1>1, <1>2, <1>3, ChecksSame DEF LeavesAs

LEMMA AddToFields ==
  ASSUME NEW cell, NEW c, NEW a, NEW compared PROVE Fields(addTo(cell, c, a, compared), {"arcs", c})
<1>1. PICK s : s = Held(cell, c, "")[Least({n \in DOMAIN Held(cell, c, "") :
                     \A f \in compared :
                       Attr(Held(Held(cell, c, "")[n], "arcs", "")[1], f) = Attr(a, f)})]
  BY Zenon
<1>2. PICK p : p = Puts(<<a[1], -1>>, "arcs", "", a)
  BY Zenon
<1>3. PICK q : q = Adds(cell, c, "", <<a[1], -1>>)
  BY Zenon
<1>4. PICK r : r = Adds(s, "arcs", "", a)
  BY Zenon
<1>5. addTo(cell, c, a, compared) = p @@ q \/ addTo(cell, c, a, compared) = r
  BY <1>1, <1>2, <1>3, <1>4, Zenon DEF addTo
<1>6. PICK S : S = {"arcs", c}
  OBVIOUS
<1>7. "arcs" \in S /\ c \in S
  BY <1>6
<1>8. Fields(p, S)
  BY <1>2, <1>7, AddsField, Zenon
<1>9. Fields(q, S)
  BY <1>3, <1>7, AddsField, Zenon
<1>10. Fields(r, S)
  BY <1>4, <1>7, AddsField, Zenon
<1>11. Fields(p @@ q, S)
  BY <1>8, <1>9, MergeFields, Zenon
<1> QED BY <1>5, <1>6, <1>10, <1>11, Zenon

LEMMA LeavingTells ==
  ASSUME file \in LibFiles, IInv, leaveGroup, NEW t, t = Top.g
  PROVE  \/ LeavesAs(t)
         \/ Is(t, CurrentTables) /\ ~ModelThere /\ error = None /\ stack # << >> /\ Stop("null pointer")
<1>1. CASE leaveWireLoad
  BY <1>1, ClosesAs, Zenon DEF leaveWireLoad, LutTemplates, CurrentTables
<1>2. CASE leaveTemplate
  BY <1>2, ClosesTemplate
<1>3. CASE leaveType
  BY <1>3, ClosesAs, Zenon DEF leaveType, LutTemplates, CurrentTables
<1>4. CASE leaveCell
  BY <1>4, ClosesAs, Zenon DEF leaveCell, LutTemplates, CurrentTables
<1>5. CASE leaveLeakagePower
  BY <1>5, ClosesAs, Zenon DEF leaveLeakagePower, LutTemplates, CurrentTables
<1>6. CASE leaveBus \/ leavePin \/ leaveVector \/ leaveLibrary \/ leaveTable
  <2>1. PICK names : /\ Leaves(names) /\ UNCHANGED <<file, kinds, attrs, members, error>>
                     /\ \/ UNCHANGED builder /\ names \in {{"library"}, DelayTables \cup PowerTables}
                        \/ builder' = [builder EXCEPT !.obj = None] /\ names = {"vector"}
                        \/ builder' = [builder EXCEPT !.obj = None, !.port = None] /\ names = {"pin"}
                        \/ /\ builder' = [builder EXCEPT !.obj = None, !.port = None, !.port_bus = None]
                           /\ names = {"bus", "bundle"}
    BY <1>6, Zenon DEF leaveBus, leavePin, leaveVector, leaveLibrary, leaveTable
  <2>2. Is(t, names)
    BY <2>1, OnLeave
  <2>3. ~Is(t, CurrentTables) /\ names \cap LutTemplates = {}
    BY <2>1, <2>2 DEF Is, CurrentTables, LutTemplates, DelayTables, PowerTables
  <2>4. names \in {{"library"}, DelayTables \cup PowerTables} => names \cap {"pin"} = {}
    BY DEF DelayTables, PowerTables
  <2> QED BY <2>1, <2>3, <2>4, TemplatesSame, LeavesPointers
<1>7. CASE leaveTiming
  <2>1. PICK w : w = addLibertyArc(builder.cell, <<Top.g, 1>>)
    BY Zenon
  <2>2. Fields(w, {"arcs", "cell_arcs"})
    BY <2>1, AddToFields, Zenon DEF addLibertyArc
  <2>3. Leaves({"timing"}) /\ UNCHANGED <<file, builder, kinds, attrs, error>> /\ members' = w @@ members
    BY <1>7, <2>1, Zenon DEF leaveTiming
  <2>4. "lut_templates" \notin {"arcs", "cell_arcs"}
    OBVIOUS
  <2>5. UNCHANGED HeldTemplates
    BY <2>2, <2>3, <2>4, TemplatesAfter
  <2>6. ~Is(t, CurrentTables)
    <3>1. Is(t, {"timing", "internal_power"})
      BY <2>3, OnLeave DEF Is
    <3> QED BY <3>1 DEF Is, CurrentTables
  <2>7. {"timing"} \cap LutTemplates = {} /\ {"timing"} \cap {"pin"} = {}
    BY DEF LutTemplates
  <2> QED BY <2>3, <2>5, <2>6, <2>7, LeavesPointers
<1>8. CASE leaveInternalPower
  <2>1. PICK v, w : /\ v = addLibertyPowerArc(builder.cell, <<Top.g, 1>>)
                    /\ w = Adds(PortInUse, "internal_powers", "", <<Top.g, 1>>)
    BY Zenon
  <2>2. Fields(v, {"arcs", "cell_power_arcs"}) /\ Fields(w, {"internal_powers"})
    BY <2>1, AddToFields, AddsField, Zenon DEF addLibertyPowerArc
  <2>3. /\ Leaves({"internal_power"}) /\ UNCHANGED <<file, kinds, attrs, error>>
        /\ \/ members' = v @@ members /\ UNCHANGED builder
           \/ members' = w @@ members /\ builder' = [builder EXCEPT !.obj = None, !.power_arc = None]
    BY <1>8, <2>1, Zenon DEF leaveInternalPower
  <2>4. "lut_templates" \notin {"arcs", "cell_power_arcs"} /\ "lut_templates" \notin {"internal_powers"}
    OBVIOUS
  <2>5. UNCHANGED HeldTemplates
    BY <2>2, <2>3, <2>4, TemplatesAfter
  <2>6. ~Is(t, CurrentTables)
    <3>1. Is(t, {"timing", "internal_power"})
      BY <2>3, OnLeave DEF Is
    <3> QED BY <3>1 DEF Is, CurrentTables
  <2>7. {"internal_power"} \cap LutTemplates = {} /\ {"internal_power"} \cap {"pin"} = {}
    BY DEF LutTemplates
  <2> QED BY <2>3, <2>5, <2>6, <2>7, LeavesPointers
<1>9. CASE leaveCurrentTable
  <2>1. CASE ~ModelThere
    BY <1>9, <2>1 DEF leaveCurrentTable, ModelThere, Is
  <2>2. CASE ModelThere
    <3>1. PICK w : w = Puts(builder.table_model, "current_tables", Group(Top.g).name, <<Top.g, 1>>)
      BY Zenon
    <3>2. Fields(w, {"current_tables"})
      BY <3>1, AddsField, Zenon
    <3>3. /\ Leaves(CurrentTables) /\ UNCHANGED <<file, builder, kinds, attrs, error>>
          /\ members' = w @@ members
      BY <1>9, <2>2, <3>1, Zenon DEF leaveCurrentTable, ModelThere
    <3>4. "lut_templates" \notin {"current_tables"}
      OBVIOUS
    <3>5. UNCHANGED HeldTemplates
      BY <3>2, <3>3, <3>4, TemplatesAfter
    <3>6. CurrentTables \cap LutTemplates = {} /\ CurrentTables \cap {"pin"} = {}
      BY DEF LutTemplates, CurrentTables
    <3> QED BY <2>2, <3>3, <3>5, <3>6, LeavesPointers
  <2> QED BY <2>1, <2>2
<1> QED BY <1>1, <1>2, <1>3, <1>4, <1>5, <1>6, <1>7, <1>8, <1>9 DEF leaveGroup

\* Leaving a group goes on with the walk, or stops it at an output current whose
\* arc has no delay model.
LEMMA LeavingWalks ==
  ASSUME file \in LibFiles, IInv, Invariants, leaveGroup
  PROVE  \/ Invariants' /\ UNCHANGED <<file, error>>
         \/ OnlyStops /\ \E g \in BuiltGroups : Cause(g)
<1>1. PICK t : t = Top.g
  OBVIOUS
<1>2. CASE LeavesAs(t)
  <2>1. UNCHANGED <<file, error>>
    BY <1>2 DEF LeavesAs
  <2> QED BY <1>2, <2>1, LeavingKeeps
<1>3. CASE Is(t, CurrentTables) /\ ~ModelThere /\ error = None /\ stack # << >> /\ Stop("null pointer")
  <2>1. NoDelay(t)
    BY <1>1, <1>3, ModelMeets
  <2>2. t \in BuiltGroups
    <3>1. Top \in Frames
      BY <1>3, OpenFrames DEF Invariants, WalkOK, IInv
    <3> QED BY <1>1, <3>1, OpenIsBuilt DEF Invariants, WalkOK
  <2> QED BY <1>3, <2>1, <2>2, Stopping DEF Cause
<1> QED BY <1>1, <1>2, <1>3, LeavingTells

-----------------------------------------------------------------------------
(***************************************************************************)
(* The invariant of the walk, and what it says when the walk ends.         *)
(***************************************************************************)
LEMMA SameKeeps == ASSUME Invariants, OnlyStops PROVE Invariants'
<1>1. /\ BuiltGroups' = BuiltGroups
      /\ \A g : Group(g)' = Group(g) /\ Parent(g)' = Parent(g) /\ Left(g)' = Left(g) /\ Stmts(g)' = Stmts(g)
      /\ \A g, names : Is(g, names)' = Is(g, names)
      /\ \A g, i : IsSimple(g, i)' = IsSimple(g, i)
      /\ \A names, p : Children(names, p)' = Children(names, p)
      /\ UNCHANGED <<file, stack, builder, kinds, attrs, members>>
  BY FileStays DEF OnlyStops
<1>2. Frames' = Frames
  BY <1>1 DEF Frames
<1>3. /\ \A g : Seen(g)' <=> Seen(g)
      /\ \A g : Open(g)' <=> Open(g)
      /\ \A g, i, h : IsGroupStmt(g, i, h)' = IsGroupStmt(g, i, h)
  <2>1. \A g : Seen(g)' <=> Seen(g)
    BY <1>1, SeenSame
  <2>2. \A g : Open(g)' <=> Open(g)
    BY <1>2 DEF Open
  <2>3. \A g, i, h : IsGroupStmt(g, i, h)' = IsGroupStmt(g, i, h)
    BY <1>1 DEF IsGroupStmt
  <2> QED BY <2>1, <2>2, <2>3
<1>4. ChecksStay /\ HeldTemplates' = HeldTemplates
  BY <1>1, ChecksSame, TemplatesSame
<1>5. WalkOK'
  <2>1. Started' /\ OnlyBuilt' /\ InOrder' /\ Increasing'
    BY <1>1, <1>3 DEF Invariants, WalkOK, Started, OnlyBuilt, InOrder, Increasing
  <2>2. OpenSeen' /\ StillLeft' /\ NotYet'
    BY <1>1, <1>2, <1>3 DEF Invariants, WalkOK, OpenSeen, StillLeft, NotYet
  <2>3. SimpleFirst' /\ Inside'
    BY <1>1, <1>2, <1>3 DEF Invariants, WalkOK, SimpleFirst, Inside
  <2> QED BY <2>1, <2>2, <2>3 DEF WalkOK
<1>6. KindsByName' /\ FlagOK' /\ TemplatesOK'
  BY <1>1, <1>3, <1>4 DEF Invariants, KindsByName, FlagOK, TemplatesOK
<1>7. ModelOK'
  <2>1. \A g : SeenTables(g)' = SeenTables(g)
    BY <1>1, <1>3 DEF SeenTables, DelayTables
  <2>2. \A g : isCheckArc(<<g, 1>>)' <=> isCheckArc(<<g, 1>>)
    BY <1>4 DEF ChecksStay
  <2>3. \A g : ModelFor(g)' = ModelFor(g)
    BY <2>2, Zenon DEF ModelFor
  <2>4. \A g : Open(g) /\ Is(g, {"timing"}) => ModelIs(g)
    BY ModelOKIs DEF Invariants
  <2>5. SUFFICES ASSUME NEW g, Open(g), Is(g, {"timing"}) PROVE ModelIs(g)'
    BY <1>1, <1>3 DEF ModelOK, ModelIs, ModelFor, Open
  <2> QED BY <1>1, <2>1, <2>3, <2>4, <2>5 DEF ModelIs
<1>8. BusOK'
  <2>1. \A g : LeftPins(g)' = LeftPins(g)
    BY <1>1, <1>3 DEF LeftPins
  <2> QED BY <1>1, <1>2, <2>1 DEF Invariants, BusOK
<1>9. /\ \A g, i : Blocks(g, i)' <=> Blocks(g, i)
      /\ \A g : (Unknown(g)' <=> Unknown(g)) /\ (NoName(g)' <=> NoName(g))
      /\ \A g : (NoDelay(g)' <=> NoDelay(g)) /\ (Slew(g)' <=> Slew(g))
  <2>1. \A g : isCheckArc(<<Parent(g), 1>>)' <=> isCheckArc(<<Parent(g), 1>>)
    BY <1>1, Zenon DEF isCheckArc, Attr
  <2> QED BY <1>1, <2>1, FaultsStay
<1>10. BlocksAhead' /\ CurrentsAhead' /\ TablesAhead'
  BY <1>1, <1>2, <1>3, <1>9 DEF Invariants, BlocksAhead, CurrentsAhead, TablesAhead
<1> QED BY <1>5, <1>6, <1>7, <1>8, <1>10 DEF Invariants

LEMMA CauseStays == ASSUME OnlyStops, \E g \in BuiltGroups : Cause(g) PROVE (\E g \in BuiltGroups : Cause(g))'
<1>1. PICK g \in BuiltGroups : Cause(g)
  OBVIOUS
<1>2. UNCHANGED <<file, attrs>>
  BY DEF OnlyStops
<1>3. isCheckArc(<<Parent(g), 1>>)' <=> isCheckArc(<<Parent(g), 1>>)
  <2>1. Parent(g)' = Parent(g) /\ UNCHANGED attrs
    BY <1>2 DEF Parent, Group
  <2> QED BY <2>1, Zenon DEF isCheckArc, Attr
<1>4. /\ \A i : Blocks(g, i)' <=> Blocks(g, i)
      /\ (Unknown(g)' <=> Unknown(g)) /\ (NoName(g)' <=> NoName(g))
      /\ Unset(g)' <=> Unset(g)
      /\ NoDelay(g)' <=> NoDelay(g)
      /\ Slew(g)' <=> Slew(g)
  BY <1>2, <1>3, FaultsStay
<1>5. Cause(g)' <=> Cause(g)
  BY <1>2, <1>4, FileStays DEF Cause
<1> QED BY <1>1, <1>2, <1>5, FileStays

Walks == Inductive /\ Walking /\ HasCause

LEMMA WalksInit == Init => Walks
<1> SUFFICES ASSUME Init PROVE Walks
  OBVIOUS
<1>1. /\ file \in LibFiles /\ stack = << >> /\ builder = LibBuilder /\ kinds = << >> /\ members = << >>
      /\ error = None
  BY DEF Init
<1>2. Frames = {} /\ \A g : ~Seen(g) /\ ~Open(g)
  <2>1. Len(stack) = 0
    BY <1>1
  <2>2. Frames = {}
    BY <2>1 DEF Frames
  <2>3. \A g : ~Seen(g)
    BY <1>1, SeenBegun
  <2> QED BY <2>2, <2>3 DEF Open
<1>3. Started /\ OnlyBuilt /\ InOrder /\ Increasing
  BY <1>1, <1>2 DEF Started, OnlyBuilt, InOrder, Increasing
<1>4. OpenSeen /\ StillLeft /\ NotYet /\ SimpleFirst /\ Inside
  BY <1>2 DEF OpenSeen, StillLeft, NotYet, SimpleFirst, Inside
<1>5. KindsByName /\ FlagOK /\ ModelOK /\ BusOK
  BY <1>1, <1>2 DEF KindsByName, FlagOK, ModelOK, BusOK, LibBuilder
<1>6. TemplatesOK
  <2>1. HeldTemplates = << >>
    BY <1>1 DEF HeldTemplates, Held
  <2> QED BY <1>2, <2>1 DEF TemplatesOK
<1>7. BlocksAhead /\ CurrentsAhead /\ TablesAhead
  BY <1>2 DEF BlocksAhead, CurrentsAhead, TablesAhead
<1> QED BY <1>1, <1>3, <1>4, <1>5, <1>6, <1>7, InductiveInit
        DEF Walks, Walking, HasCause, Invariants, WalkOK

LEMMA OnlyGoesOn == ASSUME Next PROVE error = None
<1>1. visitAttributes => error = None
  BY Zenon
     DEF visitAttributes, visitSimpleAttri, capacitive_load_unit, capacitance_range, fanout_length,
         visitAxisOrValues, other_complex, At, Reaches
<1>2. visitGroup => error = None
  BY Zenon
     DEF visitGroup, visitLibrary, visitWireLoad, visitLuTableTemplate, visitOutputCurrentTemplate,
         visitType, visitCell, visitLeakagePower, visitBus, visitPin, visitTiming, visitInternalPower,
         visitTable, visitPowerTable, visitCurrentTable, visitVector, pass_over, Visits, At, Reaches
<1>3. leaveGroup => error = None
  BY Zenon
     DEF leaveGroup, leaveLibrary, leaveWireLoad, leaveTemplate, leaveType, leaveCell,
         leaveLeakagePower, leaveBus, leavePin, leaveTiming, leaveInternalPower, leaveTable,
         leaveCurrentTable, leaveVector, Leaves
<1>4. cannot_read \/ nameless_library => error = None
  BY Zenon DEF cannot_read, nameless_library, Reaches
<1> QED BY <1>1, <1>2, <1>3, <1>4 DEF Next

\* What cannot be read is a fault of the file.
LEMMA CannotRead ==
  ASSUME file \in LibFiles, IInv, Invariants, cannot_read \/ nameless_library
  PROVE  OnlyStops /\ \E g \in BuiltGroups : Cause(g)
<1>1. CASE cannot_read
  <2>1. /\ stack # << >> /\ Top.left # {} /\ Flawed(Statement) /\ OnlyStops
    BY <1>1, Stopping DEF cannot_read, Reaches
  <2>2. Top.g \in BuiltGroups /\ Current \in Left(Top.g)
    BY <2>1, CurrentIs, OpenFrames, OpenIsBuilt DEF Invariants, WalkOK, IInv
  <2> QED BY <2>1, <2>2 DEF Cause, Blocks, Broken, Statement
<1>2. CASE nameless_library
  <2>1. OnlyStops /\ NoName(1)
    BY <1>2, Stopping DEF nameless_library, NoName
  <2>2. 1 \in BuiltGroups
    BY BuiltIs
  <2> QED BY <2>1, <2>2 DEF Cause
<1> QED BY <1>1, <1>2

LEMMA AttributesWalk ==
  ASSUME file \in LibFiles, IInv, NoWire, Invariants, visitAttributes
  PROVE  \/ Invariants' /\ UNCHANGED <<file, error>>
         \/ OnlyStops /\ \E g \in BuiltGroups : Cause(g)
<1>1. visitSimpleAttri \/ At("complex")
  BY Zenon
     DEF visitAttributes, capacitive_load_unit, capacitance_range, fanout_length,
         visitAxisOrValues, other_complex
<1> QED BY <1>1, TakingSimple, TakingComplex

LEMMA WalksNext == ASSUME Walks, [Next]_vars PROVE Walks'
<1>1. Inductive'
  BY InductiveNext DEF Walks
<1>2. CASE Next
  <2>1. error = None /\ Invariants /\ file \in LibFiles /\ IInv /\ Begun /\ NoWire
    BY <1>2, OnlyGoesOn DEF Walks, Walking, Inductive
  <2>2. \/ Invariants' /\ UNCHANGED <<file, error>>
        \/ OnlyStops /\ \E g \in BuiltGroups : Cause(g)
    BY <1>2, <2>1, AttributesWalk, VisitingGroup, LeavingWalks, CannotRead DEF Next
  <2>3. CASE Invariants' /\ UNCHANGED <<file, error>>
    BY <1>1, <2>1, <2>3 DEF Walks, Walking, HasCause
  <2>4. CASE OnlyStops /\ \E g \in BuiltGroups : Cause(g)
    <3>1. Invariants' /\ (\E g \in BuiltGroups : Cause(g))'
      BY <2>1, <2>4, SameKeeps, CauseStays
    <3> QED BY <1>1, <3>1 DEF Walks, Walking, HasCause
  <2> QED BY <2>2, <2>3, <2>4
<1>3. CASE UNCHANGED vars
  <2>1. OnlyStops /\ error' = error
    BY <1>3 DEF vars, OnlyStops
  <2>2. Walking'
    BY <2>1, SameKeeps DEF Walks, Walking
  <2>3. HasCause'
    BY <2>1, CauseStays DEF Walks, HasCause
  <2> QED BY <1>1, <2>2, <2>3 DEF Walks
<1> QED BY <1>2, <1>3

\* The faults in the words of StopsForCause.
LEMMA FaultsAre ==
  ASSUME file \in LibFiles, NEW g \in BuiltGroups
  PROVE  /\ Fatal(g) <=> \/ \E i \in Left(g) : Blocks(g, i)
                         \/ NoName(g) \/ NoDelay(g) \/ Slew(g) \/ Unknown(g)
         /\ UnsetFlag(g) <=> Unset(g)
<1>1. \A names : GroupsOf(names, 1) = {h \in BuiltGroups : Is(h, names)}
  BY GroupsOfIs
<1>2. RangeInBus(g) <=> \E i \in Left(g) : Late(g, i)
  <2>1. InBus(g) => GroupsOf({"pin"}, Parent(g)) = Children({"pin"}, Parent(g))
    <3>1. SUFFICES ASSUME InBus(g) PROVE GroupsOf({"pin"}, Parent(g)) = Children({"pin"}, Parent(g))
      OBVIOUS
    <3>2. g # 1
      BY <3>1, GroupsOfFile DEF InBus, Is
    <3>3. Parent(g) \in BuiltGroups /\ Is(Parent(g), {"bus", "bundle"})
      BY <3>1, <3>2, BuiltNest DEF InBus
    <3> QED BY <3>3, GroupsOfIs
  <2>2. \A i : LateRange(g, i) <=> Late(g, i)
    BY <2>1 DEF LateRange, Late
  <2> QED BY <2>2 DEF RangeInBus
<1>3. CurrentWithoutDelay(g) <=> NoDelay(g)
  <2>1. SUFFICES ASSUME Is(g, CurrentTables) PROVE CurrentWithoutDelay(g) <=> NoDelay(g)
    BY DEF CurrentWithoutDelay, NoDelay
  <2>2. Is(g, DelayTables \cup CurrentTables)
    BY <2>1 DEF Is
  <2>3. ArcAround(g) = Parent(g) /\ GroupsOf(DelayTables, Parent(g)) = Children(DelayTables, Parent(g))
    BY <2>2, GroupsOfIs
  <2>4. isCheckArc(<<ArcAround(g), 1>>) <=> isCheckArc(<<Parent(g), 1>>)
    BY <2>3, Zenon
  <2>5. GroupsOf(DelayTables, ArcAround(g)) = Children(DelayTables, Parent(g))
    BY <2>3, Zenon
  <2> QED BY <2>1, <2>4, <2>5 DEF CurrentWithoutDelay, NoDelay
<1>4. SlewInCheck(g) <=> Slew(g)
  <2>1. SUFFICES ASSUME Is(g, {"rise_transition", "fall_transition"}) PROVE SlewInCheck(g) <=> Slew(g)
    BY DEF SlewInCheck, Slew
  <2>2. Is(g, DelayTables \cup CurrentTables)
    BY <2>1 DEF Is, DelayTables
  <2>3. ArcAround(g) = Parent(g)
    BY <2>2, GroupsOfIs
  <2>4. isCheckArc(<<ArcAround(g), 1>>) <=> isCheckArc(<<Parent(g), 1>>)
    BY <2>3, Zenon
  <2> QED BY <2>1, <2>4 DEF SlewInCheck, Slew
<1>5. UnknownTemplate(g) <=> Unknown(g)
  <2>1. GroupsOf(LutTemplates, 1) = {h \in BuiltGroups : Is(h, LutTemplates)}
    BY <1>1
  <2> QED BY <2>1 DEF UnknownTemplate, Unknown, LutTemplates
<1>6. UnsetFlag(g) <=> Unset(g)
  <2>1. GroupsOf(PowerGroups, 1) = {h \in BuiltGroups : Is(h, PowerGroups)}
    BY <1>1
  <2> QED BY <2>1 DEF UnsetFlag, Unset, PowerGroups
<1>7. PinWithoutPort(g) \/ Unread(g) <=> NoName(g) \/ \E i \in Left(g) : Broken(g, i)
  BY DEF PinWithoutPort, Unread, NoName, Broken
<1> QED BY <1>2, <1>3, <1>4, <1>5, <1>6, <1>7 DEF Fatal, Blocks

\* When the walk is over every group that is built was entered.
LEMMA AllSeen ==
  ASSUME file \in LibFiles, WalkOK, Done, NEW g \in BuiltGroups PROVE Seen(g) /\ ~Open(g)
<1>1. kinds # << >> /\ Frames = {} /\ Seen(1)
  <2>1. stack = << >> /\ kinds # << >>
    BY DEF Done
  <2>2. Len(stack) = 0
    BY <2>1
  <2>3. Frames = {}
    BY <2>2 DEF Frames
  <2> QED BY <2>1, <2>3 DEF WalkOK, Started
<1> DEFINE Missed == {h \in BuiltGroups : ~Seen(h)}
<1>2. Missed = {}
  <2>1. SUFFICES ASSUME Missed # {} PROVE FALSE
    OBVIOUS
  <2>2. BuiltGroups \subseteq Nat
    BY BuiltIs, GroupsOfFile
  <2>3. PICK m \in Missed : \A y \in Missed : ~ (<<y, m>> \in OpToRel(<, Nat))
    BY <2>1, <2>2, NatLessThanWellFounded, WFMin
  <2>4. m \in BuiltGroups \ {1} /\ ~Seen(m)
    BY <1>1, <2>3
  <2>5. PICK p : p = Parent(m)
    OBVIOUS
  <2>6. p \in BuiltGroups /\ p < m
    BY <2>4, <2>5, BuiltNest
  <2>7. Seen(p)
    <3>1. <<p, m>> \in Nat \X Nat /\ <<p, m>>[1] < <<p, m>>[2]
      BY <2>2, <2>4, <2>6
    <3>2. <<p, m>> \in OpToRel(<, Nat)
      BY <3>1, Zenon DEF OpToRel
    <3> QED BY <2>3, <2>6, <3>2
  <2>8. \E f \in Frames : f.g = Parent(m)
    BY <2>4, <2>5, <2>7 DEF WalkOK, StillLeft
  <2> QED BY <1>1, <2>8
<1>3. Seen(g)
  BY <1>2
<1>4. ~Open(g)
  BY <1>1 DEF Open
<1> QED BY <1>3, <1>4

LEMMA WalksTell == ASSUME Walks PROVE StopsForCause
<1>1. file \in LibFiles /\ Walking /\ HasCause
  BY DEF Walks, Inductive
<1>2. ASSUME error # None PROVE \E g \in BuiltGroups : Fatal(g) \/ UnsetFlag(g)
  <2>1. PICK g \in BuiltGroups : Cause(g)
    BY <1>1, <1>2 DEF HasCause
  <2> QED BY <1>1, <2>1, FaultsAre DEF Cause
<1>3. ASSUME Done, NEW g \in BuiltGroups, Fatal(g) PROVE FALSE
  <2>1. Invariants
    BY <1>1, <1>3 DEF Walking, Done
  <2>2. Seen(g) /\ ~Open(g)
    BY <1>1, <1>3, <2>1, AllSeen DEF Invariants
  <2>3. (\E i \in Left(g) : Blocks(g, i)) \/ NoName(g) \/ NoDelay(g) \/ Slew(g) \/ Unknown(g)
    BY <1>1, <1>3, FaultsAre
  <2>4. ~\E i \in Left(g) : Blocks(g, i)
    BY <2>1, <2>2 DEF Invariants, BlocksAhead, Open
  <2>5. ~NoName(g) /\ ~NoDelay(g) /\ ~Slew(g) /\ ~Unknown(g)
    BY <2>1, <2>2 DEF Invariants, CurrentsAhead, TablesAhead
  <2> QED BY <2>3, <2>4, <2>5
<1> QED BY <1>2, <1>3 DEF StopsForCause

\* Whatever file is linked, the program ends early only for a fault of the file,
\* and a file it gets through has none but perhaps a condition read under a flag
\* that was never set (LOG_FATAL and null pointers in RustLibertyReader).
THEOREM StopsOnlyForCause == Spec => []StopsForCause
<1>1. Spec => []Walks
  BY WalksInit, WalksNext, PTL DEF Spec
<1>2. Walks => StopsForCause
  BY WalksTell
<1> QED BY <1>1, <1>2, PTL

-----------------------------------------------------------------------------
(***************************************************************************)
(* Which statements were taken, and in which order.                        *)
(***************************************************************************)
\* Of the simple statements of a group the first left is taken; while a group of
\* the library is open, nothing of the library after it was taken.
Written(p) == Seen(p[1]) /\ ~\E f \in Frames : f.g = p[1] /\ p[2] \in f.left
InTurn ==
  \A g \in BuiltGroups : \A i, j \in Left(g) :
    IsSimple(g, i) /\ IsSimple(g, j) /\ Written(<<g, j>>) /\ ~Written(<<g, i>>) => j < i
OneBranch ==
  \A c \in BuiltGroups : Open(c) /\ Parent(c) = 1 =>
    \A b, j \in Left(1) : IsGroupStmt(1, b, c) /\ Written(<<1, j>>) => IsSimple(1, j) \/ j <= b
InOneOrder == InTurn /\ OneBranch

\* What a step takes.
Took(X) ==
  /\ UNCHANGED file
  /\ \A g \in BuiltGroups : \A i \in Left(g) : Written(<<g, i>>)' <=> Written(<<g, i>>) \/ <<g, i>> \in X

LEMMA WrittenIs ==
  ASSUME file \in LibFiles, TypeOK, WalkOK, stack # << >>, NEW f \in Frames, NEW i \in Left(f.g)
  PROVE  Written(<<f.g, i>>) <=> i \notin f.left
<1>1. Seen(f.g) /\ \A e \in Frames : e.g = f.g => e = f
  BY OpenFrames, OpenIsBuilt DEF WalkOK
<1> QED BY <1>1 DEF Written

LEMMA CurrentFirst ==
  ASSUME file \in LibFiles, TypeOK, stack # << >>, Top.left # {}, IsSimple(Top.g, Current)
  PROVE  \A i \in Top.left : IsSimple(Top.g, i) => Current <= i
<1>1. Top.left \subseteq Left(Top.g) /\ Top.g \in Groups
  BY TopGroup
<1>2. Left(Top.g) \subseteq DOMAIN Stmts(Top.g) /\ DOMAIN Stmts(Top.g) \subseteq Nat /\ Current \in Top.left
  BY <1>1, GroupsOfFile, CurrentIs DEF Left
<1>3. PICK these : these = {i \in Top.left : IsSimple(Top.g, i)}
  OBVIOUS
<1>4. these # {} /\ these \subseteq Nat
  BY <1>1, <1>2, <1>3
<1>5. Current = Least(these)
  BY <1>3, <1>4 DEF Current
<1>6. \A i \in these : Current <= i
  BY <1>4, <1>5, LeastIsOne
<1> QED BY <1>3, <1>6

LEMMA TookAdvancing ==
  ASSUME file \in LibFiles, TypeOK, WalkOK, stack # << >>, Top.left # {}, stack' = Advanced,
         UNCHANGED <<file, kinds>>, \A g \in BuiltGroups : ~IsGroupStmt(Top.g, Current, g)
  PROVE  /\ Took({<<Top.g, Current>>})
         /\ \A g : Open(g)' <=> Open(g)
<1>1. /\ Frames' = (Frames \ {Top}) \cup {Rest} /\ Top \in Frames
      /\ Rest.g = Top.g /\ Rest.left = Top.left \ {Current} /\ Current \in Top.left
  BY FramesAfterAdvancing, AdvancedIs, OpenFrames, CurrentIs DEF WalkOK
<1>2. /\ \A g : Seen(g)' <=> Seen(g)
      /\ \A f \in Frames : Seen(f.g) /\ (f.g = Top.g => f = Top)
  BY <1>1, OpenFrames, OpenIsBuilt, SeenAfterAdvancing DEF WalkOK
<1>3. ASSUME NEW g \in BuiltGroups, NEW i \in Left(g)
      PROVE  Written(<<g, i>>)' <=> Written(<<g, i>>) \/ <<g, i>> = <<Top.g, Current>>
  <2>1. (\E f \in Frames' : f.g = g /\ i \in f.left)
          <=> (\E f \in Frames : f.g = g /\ i \in f.left /\ <<g, i>> # <<Top.g, Current>>)
    BY <1>1, <1>2
  <2> QED BY <1>1, <1>2, <2>1 DEF Written
<1>4. \A g : Open(g)' <=> Open(g)
  BY <1>1 DEF Open
<1> QED BY <1>3, <1>4 DEF Took

LEMMA TookEntering ==
  ASSUME file \in LibFiles, IInv, WalkOK, NEW v, EntersAs(v)
  PROVE  /\ Took({<<Top.g, Current>>}) /\ stack # << >> /\ Top.left # {}
         /\ IsGroupStmt(Top.g, Current, v)
         /\ \A g : Open(g)' <=> Open(g) \/ g = v
<1>1. /\ Frames' = (Frames \ {Top}) \cup {Rest, [g |-> v, left |-> Left(v)]} /\ Top \in Frames
      /\ Rest.g = Top.g /\ Rest.left = Top.left \ {Current} /\ ~Seen(v) /\ stack # << >>
      /\ \A g : Seen(g)' <=> Seen(g) \/ g = v
      /\ \A g : Open(g)' <=> Open(g) \/ g = v
  BY Entered
<1>2. /\ \A f \in Frames : Seen(f.g) /\ (f.g = Top.g => f = Top)
      /\ IsGroupStmt(Top.g, Current, v) /\ Current \in Top.left
  BY <1>1, OpenFrames, OpenIsBuilt DEF WalkOK, IInv, EntersAs, NextIs
<1>3. PICK new : new = [g |-> v, left |-> Left(v)]
  OBVIOUS
<1>4. new.g = v /\ new.left = Left(v) /\ Frames' = (Frames \ {Top}) \cup {Rest, new}
  BY <1>1, <1>3
<1>5. ASSUME NEW g \in BuiltGroups, NEW i \in Left(g)
      PROVE  Written(<<g, i>>)' <=> Written(<<g, i>>) \/ <<g, i>> = <<Top.g, Current>>
  <2>1. (\E f \in Frames' : f.g = g /\ i \in f.left)
          <=> \/ g = v
              \/ \E f \in Frames : f.g = g /\ i \in f.left /\ <<g, i>> # <<Top.g, Current>>
    BY <1>1, <1>2, <1>4, <1>5
  <2>2. Top.g # v
    BY <1>1, <1>2
  <2> QED BY <1>1, <1>2, <2>1, <2>2 DEF Written
<1>6. UNCHANGED file
  BY DEF EntersAs
<1> QED BY <1>1, <1>2, <1>5, <1>6 DEF Took

LEMMA TookLeaving ==
  ASSUME file \in LibFiles, TypeOK, WalkOK, NEW names, Leaves(names), UNCHANGED <<file, kinds>>
  PROVE  Took({}) /\ \A g : Open(g)' => Open(g)
<1>1. Frames' = Frames \ {Top} /\ Top.left = {}
  BY FramesAfterLeaving DEF Leaves, WalkOK
<1>2. (\A g : Seen(g)' <=> Seen(g)) /\ \A g : Open(g)' => Open(g)
  BY <1>1, SeenAfterLeaving DEF WalkOK, Open
<1>3. \A g, i : (\E f \in Frames' : f.g = g /\ i \in f.left) <=> (\E f \in Frames : f.g = g /\ i \in f.left)
  BY <1>1
<1> QED BY <1>2, <1>3 DEF Took, Written

LEMMA OrderAfterTaking ==
  ASSUME file \in LibFiles, TypeOK, WalkOK, InOneOrder, stack # << >>, Top.left # {},
         Took({<<Top.g, Current>>}),
         \A c \in BuiltGroups : Open(c)' => Open(c) \/ IsGroupStmt(Top.g, Current, c)
  PROVE  InOneOrder'
<1>1. /\ BuiltGroups' = BuiltGroups
      /\ \A g : Left(g)' = Left(g) /\ Parent(g)' = Parent(g)
      /\ \A g, i : IsSimple(g, i)' = IsSimple(g, i)
      /\ \A g, i, c : IsGroupStmt(g, i, c)' = IsGroupStmt(g, i, c)
  BY FileStays DEF Took, IsGroupStmt
<1>2. /\ Top \in Frames /\ Top.g \in BuiltGroups /\ Seen(Top.g)
      /\ \A f \in Frames : f = Top \/ f.g < Top.g
      /\ Current \in Top.left /\ Top.left \subseteq Left(Top.g)
  BY OpenFrames, OpenIsBuilt, CurrentIs DEF WalkOK
<1>3. \A g \in BuiltGroups : Left(g) \subseteq Nat /\ Left(g) \subseteq DOMAIN Stmts(g) /\ g \in Nat
  BY BuiltIs, GroupsOfFile DEF Left
<1>4. InTurn'
  <2>1. SUFFICES ASSUME NEW g \in BuiltGroups, NEW i \in Left(g), NEW j \in Left(g),
                        IsSimple(g, i), IsSimple(g, j), Written(<<g, j>>)', ~Written(<<g, i>>)'
                 PROVE  j < i
    BY <1>1 DEF InTurn
  <2>2. ~Written(<<g, i>>) /\ <<g, i>> # <<Top.g, Current>>
    BY <2>1 DEF Took
  <2>3. CASE Written(<<g, j>>)
    BY <2>1, <2>2, <2>3 DEF InOneOrder, InTurn
  <2>4. CASE <<g, j>> = <<Top.g, Current>>
    <3>1. g = Top.g /\ j = Current /\ i # Current
      BY <2>2, <2>4
    <3>2. i \in Top.left
      BY <1>2, <2>1, <2>2, <3>1, WrittenIs
    <3>3. Current <= i
      BY <2>1, <3>1, <3>2, CurrentFirst
    <3> QED BY <1>3, <2>1, <3>1, <3>3
  <2> QED BY <2>1, <2>3, <2>4 DEF Took
<1>5. OneBranch'
  <2>1. SUFFICES ASSUME NEW c \in BuiltGroups, Open(c)', Parent(c) = 1, NEW b \in Left(1), NEW j \in Left(1),
                        IsGroupStmt(1, b, c), Written(<<1, j>>)', ~IsSimple(1, j)
                 PROVE  j <= b
    BY <1>1 DEF OneBranch
  <2>2. 1 \in BuiltGroups /\ b \in Nat /\ j \in Nat /\ b \in DOMAIN Stmts(1)
    BY <1>3, BuiltIs
  <2>3. Written(<<1, j>>) \/ (Top.g = 1 /\ j = Current)
    BY <2>1, <2>2 DEF Took
  <2>4. CASE Top.g = 1
    <3>1. ~Open(c)
      <4>1. 1 < c
        BY <2>1, <2>2, StatementTells
      <4> QED BY <1>2, <1>3, <2>4, <4>1 DEF Open
    <3>2. IsGroupStmt(1, Current, c)
      BY <2>1, <2>4, <3>1
    <3>3. b = Current /\ Current \in Left(1) /\ ~IsSimple(1, Current)
      BY <1>2, <1>3, <2>1, <2>2, <2>4, <3>2, StatementTells
    <3>4. CASE Written(<<1, j>>)
      <4>1. j \notin Top.left
        BY <1>2, <2>4, <3>4, WrittenIs
      <4>2. j < Current
        BY <1>2, <2>1, <2>4, <4>1 DEF WalkOK, SimpleFirst
      <4> QED BY <1>3, <2>2, <3>3, <4>2
    <3> QED BY <2>2, <2>3, <3>3, <3>4
  <2>5. CASE Top.g # 1
    <3>1. Open(c)
      <4>1. ~IsGroupStmt(Top.g, Current, c)
        BY <1>2, <1>3, <2>1, <2>5, StatementTells
      <4> QED BY <2>1, <4>1
    <3> QED BY <2>1, <2>3, <2>5, <3>1 DEF InOneOrder, OneBranch
  <2> QED BY <2>4, <2>5
<1> QED BY <1>4, <1>5 DEF InOneOrder

LEMMA OrderAfterLeaving ==
  ASSUME file \in LibFiles, InOneOrder, Took({}), \A g : Open(g)' => Open(g)
  PROVE  InOneOrder'
<1>1. /\ BuiltGroups' = BuiltGroups
      /\ \A g : Left(g)' = Left(g) /\ Parent(g)' = Parent(g)
      /\ \A g, i : IsSimple(g, i)' = IsSimple(g, i)
      /\ \A g, i, c : IsGroupStmt(g, i, c)' = IsGroupStmt(g, i, c)
  BY FileStays DEF Took, IsGroupStmt
<1>2. \A g \in BuiltGroups : \A i \in Left(g) : Written(<<g, i>>)' <=> Written(<<g, i>>)
  BY DEF Took
<1>3. InTurn'
  BY <1>1, <1>2 DEF InOneOrder, InTurn
<1>4. OneBranch'
  <2>1. \A j \in Left(1) : Written(<<1, j>>)' <=> Written(<<1, j>>)
    BY <1>2, BuiltIs
  <2> QED BY <1>1, <2>1 DEF InOneOrder, OneBranch
<1> QED BY <1>3, <1>4 DEF InOneOrder

\* A simple statement comes after all that were taken.
LEMMA TakenLast ==
  ASSUME file \in LibFiles, TypeOK, WalkOK, InTurn, stack # << >>, Top.left # {},
         IsSimple(Top.g, Current), NEW g \in BuiltGroups, NEW i \in Left(g), IsSimple(g, i),
         Written(<<g, i>>)
  PROVE  g < Top.g \/ (g = Top.g /\ i < Current)
<1>1. PICK t : t = Top.g
  OBVIOUS
<1>2. /\ Top \in Frames /\ t \in BuiltGroups /\ Seen(t) /\ Seen(g)
      /\ Current \in Top.left /\ Top.left \subseteq Left(t)
  BY <1>1, OpenFrames, OpenIsBuilt, CurrentIs DEF WalkOK, Written
<1>3. BuiltGroups \subseteq Nat
  BY BuiltIs, GroupsOfFile
<1>4. CASE g = t
  <2>1. ~Written(<<t, Current>>)
    BY <1>1, <1>2, WrittenIs
  <2> QED BY <1>1, <1>2, <1>4, <2>1 DEF InTurn
<1>5. CASE t < g
  <2> DEFINE Later == {h \in BuiltGroups : Seen(h) /\ t < h}
  <2>1. Later # {} /\ Later \subseteq Nat
    BY <1>2, <1>3, <1>5
  <2>2. PICK m \in Later : \A y \in Later : m <= y
    BY <2>1, LeastIsOne
  <2>3. m \in BuiltGroups \ {1} /\ Seen(m) /\ t < m
    <3>1. t # 0
      BY <1>2, BuiltIs, Numbered
    <3> QED BY <1>2, <1>3, <2>2, <3>1
  <2>4. PICK p : p = Parent(m)
    OBVIOUS
  <2>5. p \in BuiltGroups /\ p < m /\ t <= p
    BY <1>1, <1>2, <2>3, <2>4, BuiltNest DEF WalkOK, Inside
  <2>6. p \in Nat /\ m \in Nat /\ t \in Nat
    BY <1>2, <1>3, <2>3, <2>5
  <2>7. Seen(p)
    <3>1. ~(m < p)
      BY <2>5, <2>6
    <3> QED BY <2>3, <2>5, <3>1 DEF WalkOK, InOrder
  <2>8. p = t
    <3>1. p \notin Later
      BY <2>2, <2>5, <2>6
    <3> QED BY <2>5, <2>6, <2>7, <3>1
  <2>9. PICK j \in DOMAIN Stmts(t) : IsGroupStmt(t, j, m)
    BY <2>3, <2>4, <2>8, BuiltIs, Numbered
  <2>10. j \in Left(t) /\ ~IsSimple(t, j)
    BY <1>2, <2>9, StatementTells
  <2>11. j \notin Top.left
    BY <1>1, <1>2, <2>3, <2>9 DEF WalkOK, NotYet
  <2> QED BY <1>1, <1>2, <2>10, <2>11 DEF WalkOK, SimpleFirst
<1> QED BY <1>1, <1>2, <1>3, <1>4, <1>5

-----------------------------------------------------------------------------
(***************************************************************************)
(* The unit of the library when a statement is taken.                      *)
(***************************************************************************)
\* The groups around an open one are open, and one of them is of the library.
RootOf(g, c) ==
  /\ c \in Around[g] /\ c \in BuiltGroups /\ Parent(c) = 1
  /\ \A d \in Around[g] : Parent(d) = 1 => d = c
LEMMA OpenAround ==
  ASSUME file \in LibFiles, TypeOK, WalkOK, stack # << >>, NEW g, Open(g), g # 1
  PROVE  \E c : RootOf(g, c) /\ Open(c)
<1> DEFINE Fine(h) == \E c : RootOf(h, c) /\ Open(c)
           Bad == {h \in BuiltGroups \ {1} : Open(h) /\ ~Fine(h)}
<1>1. BuiltGroups \subseteq Nat /\ \A f \in Frames : f.g \in BuiltGroups /\ (f.g # 1 => Open(Parent(f.g)))
  BY OpenFrames, OpenIsBuilt, BuiltIs, GroupsOfFile DEF WalkOK
<1>2. SUFFICES ASSUME Bad # {} PROVE FALSE
  BY <1>1 DEF Open
<1>3. PICK m \in Bad : \A y \in Bad : m <= y
  <2>1. Bad \subseteq Nat
    BY <1>1
  <2> QED BY <1>2, <2>1, LeastIsOne
<1>4. PICK p : p = Parent(m)
  OBVIOUS
<1>5. /\ m \in BuiltGroups \ {1} /\ m \in Groups \ {1} /\ Open(m) /\ Open(p)
      /\ p \in BuiltGroups /\ p < m /\ Around[m] = {m} \cup Around[p]
  BY <1>1, <1>3, <1>4, BuiltIs, BuiltNest, AroundIs DEF Open
<1>6. CASE p = 1
  <2>1. Around[p] = {1} /\ Parent(1) = 0
    BY <1>6, AroundIs, Numbered
  <2>2. RootOf(m, m)
    BY <1>4, <1>5, <1>6, <2>1 DEF RootOf
  <2> QED BY <1>3, <1>5, <2>2
<1>7. CASE p # 1
  <2>1. p \notin Bad
    <3> HIDE DEF Bad, Fine
    <3>1. p \in Nat /\ m \in Nat /\ p < m
      BY <1>1, <1>5
    <3> QED BY <1>3, <3>1
  <2>2. PICK c : RootOf(p, c) /\ Open(c)
    BY <1>5, <1>7, <2>1
  <2>3. RootOf(m, c)
    BY <1>4, <1>5, <1>7, <2>2 DEF RootOf
  <2> QED BY <1>3, <2>2, <2>3
<1> QED BY <1>6, <1>7

\* The unit of the library is that of the unit statements taken.
PfTaken == \E i \in DOMAIN Stmts(1) : SaysPf(i) /\ Written(<<1, i>>)
UnitOK == Attr(Library, "cap_unit") = "pf" <=> PfTaken

LEMMA UnitInForce ==
  ASSUME file \in LibFiles, TypeOK, WalkOK, InOneOrder, stack # << >>, Top.left # {},
         IsSimple(Top.g, Current), NEW t, t = Top.g
  PROVE  PfTaken <=> \E i \in DOMAIN Stmts(1) : i < Branch(t) /\ SaysPf(i)
<1>1. /\ Top \in Frames /\ t \in BuiltGroups /\ Open(t) /\ Open(1)
      /\ Current \in Top.left /\ Top.left \subseteq Left(Top.g)
  <2>1. Top \in Frames /\ \A f \in Frames : f.g \in BuiltGroups /\ (f.g # 1 => Open(Parent(f.g)))
    BY OpenFrames, OpenIsBuilt DEF WalkOK
  <2>2. t # 1 => \E c : RootOf(t, c) /\ Open(c)
    BY <2>1, OpenAround DEF Open
  <2>3. Open(1)
    BY <2>1, <2>2 DEF Open, RootOf
  <2> QED BY <2>1, <2>3, CurrentIs, OpenFrames DEF Open, WalkOK
<1>2. PICK f \in Frames : f.g = 1
  BY <1>1 DEF Open
<1>3. /\ DOMAIN Stmts(1) \subseteq Nat /\ 1 \in BuiltGroups
      /\ \A i \in DOMAIN Stmts(1) : SaysPf(i) => i \in Left(1) /\ ~IsSimple(1, i)
  BY BuiltIs, GroupsOfFile DEF SaysPf, Left, IsSimple
<1>4. \A i \in Left(1) : Written(<<1, i>>) <=> i \notin f.left
  BY <1>2, WrittenIs
<1>5. CASE t = 1
  <2>1. f = Top /\ Branch(t) = 0
    BY <1>1, <1>2, <1>5, OpenFrames DEF Branch, WalkOK
  <2>2. \A i \in Left(1) : ~IsSimple(1, i) => i \in Top.left
    BY <1>1, <1>5 DEF WalkOK, SimpleFirst
  <2>3. ASSUME NEW i \in DOMAIN Stmts(1), SaysPf(i) PROVE ~Written(<<1, i>>) /\ ~(i < Branch(t))
    <3>1. ~(i < 0)
      BY <1>3
    <3> QED BY <1>3, <1>4, <2>1, <2>2, <2>3, <3>1
  <2> QED BY <2>3 DEF PfTaken
<1>6. CASE t # 1
  <2>1. PICK c : RootOf(t, c) /\ Open(c)
    BY <1>1, <1>6, OpenAround
  <2>2. PICK b \in DOMAIN Stmts(1) : IsGroupStmt(1, b, c)
    BY <1>3, <2>1, BuiltIs, Numbered DEF RootOf
  <2>3. Branch(t) = b
    <3>1. b \in GroupStmts(1) /\ Stmts(1)[b].group \in Around[t]
      BY <2>1, <2>2 DEF RootOf, GroupStmts, IsGroupStmt
    <3>2. ASSUME NEW i \in GroupStmts(1), Stmts(1)[i].group \in Around[t] PROVE i = b
      <4>1. IsGroupStmt(1, i, Stmts(1)[i].group) /\ i \in DOMAIN Stmts(1)
        BY <3>2 DEF GroupStmts, IsGroupStmt
      <4>2. Parent(Stmts(1)[i].group) = 1
        BY <1>3, <4>1, StatementTells
      <4>3. Stmts(1)[i].group = c
        BY <2>1, <3>2, <4>2 DEF RootOf
      <4> QED BY <1>3, <2>2, <4>1, <4>3, StatementTells
    <3> QED BY <1>6, <3>1, <3>2 DEF Branch
  <2>4. b \in Left(1) /\ ~IsSimple(1, b) /\ b \notin f.left
    <3>1. c \in BuiltGroups /\ Seen(c)
      BY <2>1, OpenIsBuilt DEF WalkOK, Open
    <3> QED BY <1>2, <1>3, <2>2, <3>1, StatementTells DEF WalkOK, NotYet
  <2>5. ASSUME NEW i \in DOMAIN Stmts(1), SaysPf(i) PROVE Written(<<1, i>>) <=> i < b
    <3>1. i \in Left(1) /\ ~IsSimple(1, i) /\ i # b
      BY <1>3, <2>2, <2>5 DEF SaysPf, IsGroupStmt
    <3>2. Written(<<1, i>>) => i <= b
      BY <2>1, <2>2, <2>4, <3>1 DEF InOneOrder, OneBranch, RootOf
    <3>3. i \in f.left => b < i
      BY <1>2, <2>4 DEF WalkOK, SimpleFirst
    <3> QED BY <1>3, <1>4, <2>2, <3>1, <3>2, <3>3
  <2> QED BY <2>3, <2>5 DEF PfTaken
<1> QED BY <1>5, <1>6

-----------------------------------------------------------------------------
(***************************************************************************)
(* What the statements that were taken set.                                *)
(***************************************************************************)
\* An attribute is that of the last statement taken that sets it.
Stands(k, p) ==
  LET s == Stmts(p[1])[p[2]] IN
  /\ k[2] \notin {"bus_type", "port_caps"} => attrs[k].val = Meaning(s)
  /\ k[2] # "port_caps" => attrs[k].unit = ExpectedUnit(p[1], s)
Told(k) ==
  \E p \in Expected :
    /\ Written(p) /\ k \in Writes(p)
    /\ \A q \in Expected : Written(q) /\ k \in Writes(q) => ~After(q, p)
    /\ Stands(k, p)
AllSet == \A p \in Expected : Written(p) => Writes(p) \subseteq DOMAIN attrs
AllTold ==
  \A k \in DOMAIN attrs :
    <<k[2], k[3]>> \in Settable \/ (\E p \in Expected : Written(p) /\ k \in Writes(p)) => Told(k)

LEMMA ExpectedIs ==
  ASSUME NEW p \in Expected, NEW s, s = Stmts(p[1])[p[2]]
  PROVE  /\ p[1] \in BuiltGroups /\ p[2] \in Left(p[1]) /\ p = <<p[1], p[2]>> /\ IsSimple(p[1], p[2])
         /\ s.attr \in DOMAIN Attributes
         /\ \A k \in Writes(p) :
              /\ k[1] = Owner(p[1], s)
              /\ k[2] \notin OtherFields \cup {"when", "related_pg_port"}
              /\ s.attr = "bus_type" => k[2] = "bus_type"
<1>0. PICK g \in BuiltGroups : \E i \in DOMAIN Stmts(g) : p = <<g, i>> /\ IsWriting(g, i)
  BY DEF Expected, SimpleStmts
<1>1. PICK i \in DOMAIN Stmts(g) : p = <<g, i>> /\ IsWriting(g, i)
  BY <1>0
<1>2. s = Stmts(g)[i] /\ i \in Left(g) /\ IsSimple(g, i) /\ s.attr \in DOMAIN Attributes
  BY <1>1 DEF IsWriting
<1>3. PICK at : at = Attributes[s.attr].at
  OBVIOUS
<1>4. at \cap Conditions = {} /\ Writes(p) = {<<Owner(g, s), x[1], x[2]>> : x \in at}
  BY <1>1, <1>2, <1>3 DEF Expected, Writes
<1>5. /\ \A x \in at : x[1] \notin OtherFields
      /\ \A x \in at : x[1] \in {"when", "related_pg_port"} => at = One(x[1])
      /\ s.attr = "bus_type" => at = One("bus_type")
  BY <1>2, <1>3, AttributesAre DEF DirectsAll, Directs
<1>6. ASSUME NEW x \in at, x[1] \in {"when", "related_pg_port"} PROVE FALSE
  <2>1. One(x[1]) \cap Conditions = {}
    BY <1>4, <1>5, <1>6
  <2>2. PICK e : e = ""
    BY Zenon
  <2>3. Conditions = {<<f, e>> : f \in {"when", "related_pg_port"}} /\ One(x[1]) = {<<x[1], e>>}
    BY <2>2, Zenon DEF Conditions, One
  <2> QED BY <1>6, <2>1, <2>3
<1>7. s.attr = "bus_type" => \A x \in at : x[1] = "bus_type"
  BY <1>5, OneIs
<1> QED BY <1>1, <1>2, <1>4, <1>5, <1>6, <1>7

LEMMA SettableIs == \A x \in Settable : x[1] \notin OtherFields
<1>1. ASSUME NEW x \in Settable PROVE \E a \in DOMAIN Attributes : x \in Attributes[a].at
  BY <1>1, Zenon DEF Settable
<1> QED BY <1>1, AttributesAre DEF DirectsAll, Directs

LEMMA ExpectedStays ==
  ASSUME UNCHANGED file
  PROVE  /\ Expected' = Expected
         /\ \A p : Writes(p)' = Writes(p)
         /\ \A g, s : ExpectedUnit(g, s)' = ExpectedUnit(g, s) /\ Home(g)' = Home(g)
<1>1. /\ BuiltGroups' = BuiltGroups /\ Around' = Around
      /\ \A g : /\ Group(g)' = Group(g) /\ Parent(g)' = Parent(g) /\ Stmts(g)' = Stmts(g)
                /\ Left(g)' = Left(g) /\ InBus(g)' = InBus(g) /\ GroupStmts(g)' = GroupStmts(g)
      /\ \A g, i : IsSimple(g, i)' = IsSimple(g, i)
      /\ \A g, names : Is(g, names)' = Is(g, names)
  <2>1. Around' = Around
    BY DEF Around, Groups, Parent, Group
  <2> QED BY <2>1, FileStays
<1>2. \A g : Home(g)' = Home(g)
  BY <1>1 DEF Home, Portless
<1>3. \A g, i : IsWriting(g, i)' = IsWriting(g, i)
  BY <1>1 DEF IsWriting
<1>4. SimpleStmts' = SimpleStmts
  BY <1>1, <1>3 DEF SimpleStmts
<1>5. Expected' = Expected
  BY <1>1, <1>4 DEF Expected
<1>6. \A g, s : Owner(g, s)' = Owner(g, s)
  BY <1>2 DEF Owner
<1>7. \A p : Writes(p)' = Writes(p)
  BY <1>1, <1>6 DEF Writes
<1>8. \A g, s : ExpectedUnit(g, s)' = ExpectedUnit(g, s)
  <2>1. \A g : Branch(g)' = Branch(g)
    BY DEF Branch, GroupStmts, Stmts, Group, Around, Groups, Parent
  <2>2. \A i : SaysPf(i)' <=> SaysPf(i)
    BY <1>1, Zenon DEF SaysPf
  <2>3. \A g : UnitAt(g)' = UnitAt(g)
    BY <1>1, <2>1, <2>2 DEF UnitAt
  <2> QED BY <2>3 DEF ExpectedUnit
<1> QED BY <1>2, <1>5, <1>7, <1>8

LEMMA StandsAfter ==
  ASSUME UNCHANGED file, NEW p \in Expected, NEW k \in Writes(p), attrs'[k] = attrs[k], Stands(k, p)
  PROVE  Stands(k, p)'
<1>1. PICK s : s = Stmts(p[1])[p[2]] /\ (Stmts(p[1])[p[2]])' = s
  BY FileStays
<1>2. k[2] \notin {"bus_type", "port_caps"} => Meaning(s)' = Meaning(s)
  <2>1. k[2] \notin {"bus_type", "port_caps"} => s.attr # "bus_type"
    BY <1>1, ExpectedIs
  <2>2. s.attr # "bus_type" => Meaning(s)' = Meaning(s)
    BY DEF Meaning
  <2> QED BY <2>1, <2>2
<1>3. \A g : ExpectedUnit(g, s)' = ExpectedUnit(g, s)
  BY ExpectedStays
<1>4. /\ k[2] \notin {"bus_type", "port_caps"} => attrs[k].val = Meaning(s)
      /\ k[2] # "port_caps" => attrs[k].unit = ExpectedUnit(p[1], s)
  BY <1>1 DEF Stands
<1>5. (Stands(k, p))' <=>
        /\ k[2] \notin {"bus_type", "port_caps"} => attrs'[k].val = (Meaning(Stmts(p[1])[p[2]]))'
        /\ k[2] # "port_caps" => attrs'[k].unit = (ExpectedUnit(p[1], Stmts(p[1])[p[2]]))'
  BY DEF Stands
<1>6. /\ (Meaning(Stmts(p[1])[p[2]]))' = Meaning(s)'
      /\ (ExpectedUnit(p[1], Stmts(p[1])[p[2]]))' = ExpectedUnit(p[1], s)'
  BY <1>1
<1> QED BY <1>2, <1>3, <1>4, <1>5, <1>6

\* What is written beside the statements that are expected to.
Harmless(K) ==
  \A k \in K :
    /\ <<k[2], k[3]>> \notin Settable
    /\ \A p \in Expected : Written(p) /\ k \in Writes(p) => k[2] = "port_caps"

SetsAt(K) ==
  /\ DOMAIN attrs' = K \cup DOMAIN attrs
  /\ \A k \in DOMAIN attrs \ K : attrs'[k] = attrs[k]

LEMMA MergeSets ==
  ASSUME NEW w, attrs' = w @@ attrs
  PROVE  SetsAt(DOMAIN w) /\ \A k \in DOMAIN w : attrs'[k] = w[k]
<1>1. /\ DOMAIN (w @@ attrs) = DOMAIN w \cup DOMAIN attrs
      /\ \A k \in DOMAIN w : (w @@ attrs)[k] = w[k]
      /\ \A k \in DOMAIN attrs \ DOMAIN w : (w @@ attrs)[k] = attrs[k]
  BY MergeIs, Zenon
<1> QED BY <1>1, Zenon DEF SetsAt

LEMMA WrittenAfter ==
  ASSUME NEW X, Took(X)
  PROVE  \A p \in Expected : Written(p)' <=> Written(p) \/ p \in X
<1> SUFFICES ASSUME NEW p \in Expected PROVE Written(p)' <=> Written(p) \/ p \in X
  OBVIOUS
<1>1. p[1] \in BuiltGroups /\ p[2] \in Left(p[1]) /\ p = <<p[1], p[2]>>
  BY ExpectedIs
<1> QED BY <1>1 DEF Took

LEMMA HarmlessKeeps ==
  ASSUME NEW X, Took(X), X \cap Expected = {}, NEW K, SetsAt(K), Harmless(K), AllSet, AllTold
  PROVE  AllSet' /\ AllTold'
<1>1. /\ DOMAIN attrs' = K \cup DOMAIN attrs
      /\ \A k \in DOMAIN attrs \ K : attrs'[k] = attrs[k]
  BY DEF SetsAt
<1>2. /\ Expected' = Expected /\ Settable' = Settable
      /\ \A p : Writes(p)' = Writes(p)
      /\ \A p \in Expected : Written(p)' <=> Written(p)
  <2>1. \A p \in Expected : Written(p)' <=> Written(p)
    BY WrittenAfter
  <2>2. Settable' = Settable
    BY DEF Settable
  <2> QED BY <2>1, <2>2, ExpectedStays DEF Took
<1>3. AllSet'
  BY <1>1, <1>2 DEF AllSet
<1>4. ASSUME NEW k \in DOMAIN attrs',
             <<k[2], k[3]>> \in Settable \/ (\E p \in Expected : Written(p) /\ k \in Writes(p))
      PROVE  Told(k)'
  <2>1. k \in DOMAIN attrs
    BY <1>1, <1>4 DEF AllSet, Harmless
  <2>2. PICK p \in Expected :
          /\ Written(p) /\ k \in Writes(p)
          /\ \A q \in Expected : Written(q) /\ k \in Writes(q) => ~After(q, p)
          /\ Stands(k, p)
    BY <1>4, <2>1 DEF AllTold, Told
  <2>3. Stands(k, p)'
    <3>1. CASE k \in K
      <4>1. k[2] = "port_caps"
        BY <2>2, <3>1 DEF Harmless
      <4> QED BY <4>1 DEF Stands
    <3>2. CASE k \notin K
      BY <1>1, <2>1, <2>2, <3>2, StandsAfter DEF Took
    <3> QED BY <3>1, <3>2
  <2> QED BY <1>2, <2>2, <2>3 DEF Told, After
<1>5. AllTold'
  BY <1>2, <1>4 DEF AllTold
<1> QED BY <1>3, <1>5

\* A statement that is expected to write does so, after all the others.
LEMMA StatementKeeps ==
  ASSUME NEW p \in Expected, Took({p}), SetsAt(Writes(p)),
         \A k \in Writes(p) : Stands(k, p)', \A q \in Expected : Written(q) => ~After(q, p),
         ~After(p, p), AllSet, AllTold
  PROVE  AllSet' /\ AllTold'
<1>1. /\ DOMAIN attrs' = Writes(p) \cup DOMAIN attrs
      /\ \A k \in DOMAIN attrs \ Writes(p) : attrs'[k] = attrs[k]
  BY DEF SetsAt
<1>2. /\ Expected' = Expected /\ Settable' = Settable
      /\ \A q : Writes(q)' = Writes(q)
      /\ \A q \in Expected : Written(q)' <=> Written(q) \/ q = p
  <2>1. \A q \in Expected : Written(q)' <=> Written(q) \/ q \in {p}
    BY WrittenAfter
  <2>2. Settable' = Settable
    BY DEF Settable
  <2> QED BY <2>1, <2>2, ExpectedStays DEF Took
<1>3. AllSet'
  BY <1>1, <1>2 DEF AllSet
<1>4. ASSUME NEW k \in DOMAIN attrs',
             <<k[2], k[3]>> \in Settable \/ (\E q \in Expected : Written(q)' /\ k \in Writes(q))
      PROVE  Told(k)'
  <2>1. CASE k \in Writes(p)
    BY <1>2, <2>1 DEF Told, After
  <2>2. CASE k \notin Writes(p)
    <3>1. k \in DOMAIN attrs /\ Told(k)
      BY <1>1, <1>2, <1>4, <2>2 DEF AllTold
    <3>2. PICK q \in Expected :
            /\ Written(q) /\ k \in Writes(q)
            /\ \A r \in Expected : Written(r) /\ k \in Writes(r) => ~After(r, q)
            /\ Stands(k, q)
      BY <3>1 DEF Told
    <3>3. Stands(k, q)'
      BY <1>1, <2>2, <3>1, <3>2, StandsAfter DEF Took
    <3> QED BY <1>2, <2>2, <3>2, <3>3 DEF Told, After
  <2> QED BY <2>1, <2>2
<1>5. AllTold'
  BY <1>2, <1>4 DEF AllTold
<1> QED BY <1>3, <1>5

LEMMA UnitStays ==
  ASSUME file \in LibFiles, NEW X, Took(X), \A i \in DOMAIN Stmts(1) : SaysPf(i) => <<1, i>> \notin X,
         NEW K, SetsAt(K), \A k \in K : k[2] # "cap_unit", UnitOK
  PROVE  UnitOK'
<1>1. PICK e : e = ""
  BY Zenon
<1>2. PICK key : key = <<Library, "cap_unit", e>>
  OBVIOUS
<1>3. key \notin K
  BY <1>2
<1>4. /\ key \in DOMAIN attrs' <=> key \in DOMAIN attrs
      /\ key \in DOMAIN attrs => attrs'[key] = attrs[key]
  BY <1>3 DEF SetsAt
<1>5. Attr(Library, "cap_unit")' = Attr(Library, "cap_unit")
  BY <1>1, <1>2, <1>4, Zenon DEF Attr, Library
<1>6. /\ Stmts(1)' = Stmts(1) /\ \A i : SaysPf(i)' <=> SaysPf(i)
  <2>1. \A g : Stmts(g)' = Stmts(g)
    BY FileStays DEF Took
  <2> QED BY <2>1, Zenon DEF SaysPf
<1>7. ASSUME NEW i \in DOMAIN Stmts(1), SaysPf(i) PROVE Written(<<1, i>>)' <=> Written(<<1, i>>)
  <2>1. 1 \in BuiltGroups /\ i \in Left(1)
    BY <1>7, BuiltIs, GroupsOfFile DEF Left
  <2> QED BY <1>7, <2>1 DEF Took
<1>8. PfTaken' <=> PfTaken
  BY <1>6, <1>7 DEF PfTaken
<1> QED BY <1>5, <1>8 DEF UnitOK

LEMMA OthersHarmless == ASSUME NEW K, \A k \in K : k[2] \in OtherFields PROVE Harmless(K)
<1> SUFFICES ASSUME NEW k \in K
             PROVE  /\ <<k[2], k[3]>> \notin Settable
                    /\ \A p \in Expected : k \notin Writes(p)
  BY DEF Harmless
<1>1. <<k[2], k[3]>> \notin Settable
  <2>1. <<k[2], k[3]>>[1] \in OtherFields
    OBVIOUS
  <2> QED BY <2>1, SettableIs
<1> QED BY <1>1, ExpectedIs

\* The invariant: what was written is what was told.
Recorded == InOneOrder /\ UnitOK /\ AllSet /\ AllTold

LEMMA BesideKeeps ==
  ASSUME file \in LibFiles, NEW X, Took(X), X \cap Expected = {},
         \A i \in DOMAIN Stmts(1) : SaysPf(i) => <<1, i>> \notin X,
         NEW K, SetsAt(K), Harmless(K), \A k \in K : k[2] # "cap_unit", InOneOrder', Recorded
  PROVE  Recorded'
<1>1. UnitOK'
  BY UnitStays DEF Recorded
<1>2. AllSet' /\ AllTold'
  BY HarmlessKeeps DEF Recorded
<1> QED BY <1>1, <1>2 DEF Recorded

\* A group, or a complex statement but the unit, is none of these statements.
LEMMA NotExpected ==
  ASSUME NEW g, NEW i, Stmts(g)[i].kind # "simple"
  PROVE  <<g, i>> \notin Expected
<1>1. ~IsSimple(g, i)
  BY DEF IsSimple
<1>2. <<g, i>>[1] = g /\ <<g, i>>[2] = i
  OBVIOUS
<1>3. \A p \in Expected : IsSimple(p[1], p[2])
  BY ExpectedIs
<1> QED BY <1>1, <1>2, <1>3

-----------------------------------------------------------------------------
(***************************************************************************)
(* What entering and leaving a group writes.                               *)
(***************************************************************************)
EntryFields == {"snk_port", "table_template"}
PortTypes(v) == {<<o, "port_type", "">> : o \in Ports(v)}
LEMMA EntrySets ==
  ASSUME visitGroup
  PROVE  \/ OnlyStops \/ attrs' = attrs
         \/ \E w : attrs' = w @@ attrs /\ Fields(w, EntryFields)
         \/ Visits({"pin"}) /\ \E w : attrs' = w @@ attrs /\ DOMAIN w = PortTypes(Visited)
<1>0. "snk_port" \in EntryFields /\ "table_template" \in EntryFields
  BY DEF EntryFields
<1>1. \A o, n, x : Fields(<<o, "snk_port", n>> :> x, EntryFields)
                   /\ Fields(<<o, "table_template", n>> :> x, EntryFields)
  BY <1>0, PairField
<1>2. CASE visitTiming \/ visitInternalPower
  <2>1. \/ \E what : Stop(what)
        \/ attrs' = attrs
        \/ \E o, n, x : attrs' = (<<o, "snk_port", n>> :> x) @@ attrs
    BY <1>2, Zenon DEF visitTiming, visitInternalPower
  <2> QED BY <1>1, <2>1, Stopping
<1>3. CASE visitTable \/ visitPowerTable
  <2>1. (\E what : Stop(what)) \/ \E m, kind, owner, field : AddsTable(m, kind, owner, field)
    BY <1>3, Zenon DEF visitTable, visitPowerTable
  <2>2. CASE \E m, kind, owner, field : AddsTable(m, kind, owner, field)
    <3>1. \E o, n, x : attrs' = (<<o, "table_template", n>> :> x) @@ attrs
      BY <2>2, Zenon DEF AddsTable
    <3> QED BY <1>1, <3>1
  <2> QED BY <2>1, <2>2, Stopping
<1>4. CASE visitVector
  <2>1. Stop("fatal") \/ \E o, n, x : attrs' = (<<o, "table_template", n>> :> x) @@ attrs
    BY <1>4, Zenon DEF visitVector
  <2> QED BY <1>1, <2>1, Stopping
<1>5. CASE visitPin
  <2>1. \/ attrs' = attrs
        \/ attrs' = [k \in PortTypes(Visited) |-> Plain(Attr(builder.port_bus, "port_type"))] @@ attrs
    BY <1>5, Zenon DEF visitPin, PortTypes
  <2>2. PICK w : w = [k \in PortTypes(Visited) |-> Plain(Attr(builder.port_bus, "port_type"))]
    BY Zenon
  <2>3. DOMAIN w = PortTypes(Visited)
    BY <2>2, Zenon
  <2>4. Visits({"pin"})
    BY <1>5, Zenon DEF visitPin
  <2> QED BY <2>1, <2>2, <2>3, <2>4, Zenon
<1>6. CASE pass_over
  BY <1>6, NoFields, Zenon DEF pass_over, Sets
<1>7. CASE ~(visitTiming \/ visitInternalPower \/ visitTable \/ visitPowerTable \/ visitVector
             \/ visitPin \/ pass_over)
  <2>1. \/ visitLibrary \/ visitWireLoad \/ visitLuTableTemplate \/ visitOutputCurrentTemplate
        \/ visitType \/ visitCell \/ visitLeakagePower \/ visitBus \/ visitCurrentTable
    BY <1>7, Zenon DEF visitGroup
  <2>2. attrs' = attrs
    BY <2>1, Zenon
       DEF visitLibrary, visitWireLoad, visitLuTableTemplate, visitOutputCurrentTemplate,
           visitType, visitCell, visitLeakagePower, visitBus, visitCurrentTable
  <2> QED BY <2>2
<1> QED BY <1>2, <1>3, <1>4, <1>5, <1>6, <1>7

LEMMA LeavingSets == ASSUME leaveGroup PROVE attrs' = attrs
  BY Zenon
     DEF leaveGroup, leaveLibrary, leaveWireLoad, leaveTemplate, leaveType, leaveCell,
         leaveLeakagePower, leaveBus, leavePin, leaveTiming, leaveInternalPower, leaveTable,
         leaveCurrentTable, leaveVector, Closes, Stop

\* The direction of a pin of a bus is no statement's that was taken before.
LEMMA PortTypesHarmless ==
  ASSUME file \in LibFiles, NEW v \in BuiltGroups \ {1}, Is(v, {"pin"}), ~Seen(v)
  PROVE  Harmless(PortTypes(v))
<1>1. PICK e : e = ""
  BY Zenon
<1>2. PortTypes(v) = {<<o, "port_type", e>> : o \in Ports(v)}
  BY <1>1, Zenon DEF PortTypes
<1>3. \A o \in Ports(v) : o[1] = v
  BY DEF Ports
<1>4. <<"port_type", e>> \notin Settable
  <2>1. \A A, B, C, y : y \notin A \ (B \cup {y} \cup C)
    OBVIOUS
  <2>2. <<"port_type", "">> \notin Settable
    BY <2>1, Zenon DEF Settable
  <2> QED BY <1>1, <2>2, Zenon
<1>5. ASSUME NEW o \in Ports(v), NEW p \in Expected, Written(p), <<o, "port_type", e>> \in Writes(p)
      PROVE  FALSE
  <2>1. PICK g, s : g = p[1] /\ s = Stmts(p[1])[p[2]]
    OBVIOUS
  <2>2. g \in BuiltGroups /\ o = Owner(g, s) /\ Seen(g)
    BY <1>5, <2>1, ExpectedIs DEF Written
  <2>3. g # v /\ v # 1
    BY <2>2
  <2>4. Library[1] = 1
        /\ (Home(g) # None => /\ Home(g)[1] \in {g, Parent(g)}
                              /\ Home(g)[1] = Parent(g) /\ ~InBus(g) => Home(g)[1] = g)
    BY DEF Library, Home
  <2>5. o # None
    <3>1. v \in Nat /\ DOMAIN Group(v).names \subseteq Nat
      BY BuiltIs, GroupsOfFile
    <3>2. o \in Nat \X Nat
      BY <3>1 DEF Ports
    <3> QED BY <3>2, NoneAssumption
  <2>6. v = Parent(g) /\ InBus(g)
    BY <1>3, <2>2, <2>3, <2>4, <2>5 DEF Owner
  <2> QED BY <2>6 DEF InBus, Is
<1>6. ASSUME NEW k \in PortTypes(v)
      PROVE  /\ <<k[2], k[3]>> \notin Settable
             /\ \A p \in Expected : Written(p) /\ k \in Writes(p) => k[2] = "port_caps"
  <2>1. PICK o \in Ports(v) : k = <<o, "port_type", e>>
    BY <1>2
  <2>2. <<k[2], k[3]>> = <<"port_type", e>>
    BY <2>1
  <2> QED BY <1>4, <1>5, <2>1, <2>2
<1> QED BY <1>6 DEF Harmless

LEMMA SetsNothing == ASSUME attrs' = attrs PROVE SetsAt({}) /\ Harmless({})
  BY DEF SetsAt, Harmless

LEMMA SetsOthers ==
  ASSUME NEW w, attrs' = w @@ attrs, NEW S, Fields(w, S), S \subseteq OtherFields \ {"cap_unit"}
  PROVE  SetsAt(DOMAIN w) /\ Harmless(DOMAIN w) /\ \A k \in DOMAIN w : k[2] # "cap_unit"
<1>1. \A k \in DOMAIN w : k[2] \in OtherFields \ {"cap_unit"}
  BY DEF Fields
<1>2. Harmless(DOMAIN w)
  BY <1>1, OthersHarmless
<1>3. SetsAt(DOMAIN w)
  BY MergeSets
<1> QED BY <1>1, <1>2, <1>3

LEMMA AdvanceRecords ==
  ASSUME file \in LibFiles, IInv, WalkOK, Recorded, stack # << >>, Top.left # {},
         stack' = Advanced, UNCHANGED <<file, kinds>>, <<Top.g, Current>> \notin Expected,
         \A g \in BuiltGroups : ~IsGroupStmt(Top.g, Current, g),
         \A i \in DOMAIN Stmts(1) : SaysPf(i) => <<1, i>> # <<Top.g, Current>>,
         NEW K, SetsAt(K), Harmless(K), \A k \in K : k[2] # "cap_unit"
  PROVE  Recorded'
<1>1. TypeOK /\ InOneOrder
  BY DEF IInv, Recorded
<1>2. Took({<<Top.g, Current>>}) /\ \A g : Open(g)' <=> Open(g)
  BY <1>1, TookAdvancing
<1>3. InOneOrder'
  BY <1>1, <1>2, OrderAfterTaking
<1>4. PICK X : X = {<<Top.g, Current>>}
  OBVIOUS
<1>5. /\ Took(X) /\ X \cap Expected = {}
      /\ \A i \in DOMAIN Stmts(1) : SaysPf(i) => <<1, i>> \notin X
  BY <1>2, <1>4
<1> QED BY <1>3, <1>5, BesideKeeps

LEMMA EnteringRecords ==
  ASSUME file \in LibFiles, IInv, WalkOK, Recorded, NEW v, EntersAs(v),
         NEW K, SetsAt(K), Harmless(K), \A k \in K : k[2] # "cap_unit"
  PROVE  Recorded'
<1>1. TypeOK /\ InOneOrder
  BY DEF IInv, Recorded
<1>2. /\ Took({<<Top.g, Current>>}) /\ stack # << >> /\ Top.left # {}
      /\ IsGroupStmt(Top.g, Current, v)
      /\ \A g : Open(g)' <=> Open(g) \/ g = v
  BY TookEntering
<1>3. InOneOrder'
  BY <1>1, <1>2, OrderAfterTaking
<1>4. Stmts(Top.g)[Current].kind = "group"
  BY <1>2 DEF IsGroupStmt
<1>5. <<Top.g, Current>> \notin Expected
  BY <1>4, NotExpected
<1>6. PICK X : X = {<<Top.g, Current>>}
  OBVIOUS
<1>7. Took(X) /\ X \cap Expected = {}
  BY <1>2, <1>5, <1>6
<1>8. ASSUME NEW i \in DOMAIN Stmts(1), SaysPf(i) PROVE <<1, i>> \notin X
  <2>1. Stmts(1)[i].kind = "complex"
    BY <1>8, Zenon DEF SaysPf
  <2> QED BY <1>4, <1>6, <2>1
<1> QED BY <1>3, <1>7, <1>8, BesideKeeps

LEMMA LeavingRecords ==
  ASSUME file \in LibFiles, IInv, WalkOK, Recorded, leaveGroup PROVE Recorded' \/ OnlyStops
<1>1. PICK t : t = Top.g
  OBVIOUS
<1>2. CASE LeavesAs(t)
  <2>1. TypeOK /\ InOneOrder /\ Leaves({Group(t).name}) /\ UNCHANGED <<file, kinds>>
    BY <1>2 DEF IInv, Recorded, LeavesAs
  <2>2. Took({}) /\ \A g : Open(g)' => Open(g)
    BY <2>1, TookLeaving
  <2>3. InOneOrder'
    BY <2>1, <2>2, OrderAfterLeaving
  <2>4. SetsAt({}) /\ Harmless({})
    BY LeavingSets, SetsNothing
  <2> QED BY <2>2, <2>3, <2>4, BesideKeeps
<1> QED BY <1>1, <1>2, LeavingTells, Stopping

\* Nothing is taken when the library is entered.
LEMMA LibraryRecords ==
  ASSUME file \in LibFiles, IInv, Begun, visitLibrary, Recorded PROVE Recorded'
<1>1. /\ UNCHANGED file /\ Frames' = {[g |-> 1, left |-> Left(1)]} /\ \A g : Seen(g)' <=> g = 1
  BY WalkBegins DEF IInv
<1>2. attrs' = attrs /\ kinds = << >>
  BY DEF visitLibrary
<1>3. /\ BuiltGroups' = BuiltGroups
      /\ \A g : Left(g)' = Left(g)
  BY <1>1, FileStays
<1>4. ASSUME NEW g, NEW i \in Left(g) PROVE ~Written(<<g, i>>) /\ ~Written(<<g, i>>)'
  <2>1. <<g, i>>[1] = g /\ <<g, i>>[2] = i
    OBVIOUS
  <2>2. ~Seen(g)
    BY <1>2, SeenBegun
  <2>3. PICK first : first = [g |-> 1, left |-> Left(1)]
    OBVIOUS
  <2>4. first \in Frames' /\ first.g = 1 /\ first.left = Left(1)
    BY <1>1, <2>3
  <2>5. Seen(g)' => \E f \in Frames' : f.g = g /\ i \in f.left
    BY <1>1, <1>4, <2>4
  <2> QED BY <2>1, <2>2, <2>5 DEF Written
<1>5. Took({})
  BY <1>1, <1>4 DEF Took
<1>6. InOneOrder'
  <2>1. InTurn'
    BY <1>3, <1>4 DEF InTurn
  <2>2. OneBranch'
    BY <1>3, <1>4 DEF OneBranch
  <2> QED BY <2>1, <2>2 DEF InOneOrder
<1> QED BY <1>2, <1>5, <1>6, SetsNothing, BesideKeeps

LEMMA EntryKeeps ==
  ASSUME file \in LibFiles, IInv, WalkOK, Recorded, visitGroup, NEW v, v = Visited, EntersAs(v)
  PROVE  Recorded' \/ OnlyStops
<1>1. v \in BuiltGroups \ {1} /\ ~Seen(v)
  BY Entered
<1>2. CASE attrs' = attrs
  BY <1>2, SetsNothing, EnteringRecords
<1>3. ASSUME NEW w, attrs' = w @@ attrs, Fields(w, EntryFields) PROVE Recorded'
  <2>1. EntryFields \subseteq OtherFields \ {"cap_unit"}
    BY DEF EntryFields, OtherFields
  <2>2. SetsAt(DOMAIN w) /\ Harmless(DOMAIN w) /\ \A k \in DOMAIN w : k[2] # "cap_unit"
    BY <1>3, <2>1, SetsOthers
  <2> QED BY <2>2, EnteringRecords
<1>4. ASSUME Visits({"pin"}), NEW w, attrs' = w @@ attrs, DOMAIN w = PortTypes(Visited) PROVE Recorded'
  <2>1. Is(v, {"pin"})
    BY <1>4, Zenon DEF Visits, Visited, Is
  <2>2. Harmless(PortTypes(v))
    BY <1>1, <2>1, PortTypesHarmless
  <2>3. SetsAt(PortTypes(v))
    BY <1>4, MergeSets
  <2>4. \A k \in PortTypes(v) : k[2] # "cap_unit"
    <3>1. PICK e : e = ""
      BY Zenon
    <3>2. PortTypes(v) = {<<o, "port_type", e>> : o \in Ports(v)}
      BY <3>1, Zenon DEF PortTypes
    <3> QED BY <3>2
  <2> QED BY <2>2, <2>3, <2>4, EnteringRecords
<1> QED BY <1>2, <1>3, <1>4, EntrySets

LEMMA VisitingRecords ==
  ASSUME file \in LibFiles, IInv, Begun, Invariants, Recorded, visitGroup PROVE Recorded' \/ OnlyStops
<1>1. PICK v : v = Visited
  OBVIOUS
<1>2. WalkOK /\ ModelOK
  BY DEF Invariants
<1>3. CASE visitLibrary
  BY <1>3, LibraryRecords
<1>4. CASE pass_over
  <2>1. /\ stack # << >> /\ Top.left # {} /\ stack' = Advanced
        /\ UNCHANGED <<file, builder, kinds, members, error>>
    BY <1>2, <1>4, PassesOver
  <2>2. Stmts(Top.g)[Current].kind = "group" /\ attrs' = << >> @@ attrs
    BY <1>4, Zenon DEF pass_over, At, Sets, Statement
  <2>2a. \A g \in BuiltGroups : ~IsGroupStmt(Top.g, Current, g)
    BY <1>2, <1>4, PassesOver
  <2>3. <<Top.g, Current>> \notin Expected
    BY <2>2, NotExpected
  <2>4. \A i \in DOMAIN Stmts(1) : SaysPf(i) => <<1, i>> # <<Top.g, Current>>
    <3>1. \A i : SaysPf(i) => Stmts(1)[i].kind = "complex"
      BY Zenon DEF SaysPf
    <3> QED BY <2>2, <3>1
  <2>5. PICK w : w = << >> /\ attrs' = w @@ attrs /\ Fields(w, {})
    BY <2>2, NoFields, Zenon
  <2>6. SetsAt(DOMAIN w) /\ Harmless(DOMAIN w) /\ \A k \in DOMAIN w : k[2] # "cap_unit"
    BY <2>5, SetsOthers
  <2> QED BY <1>2, <2>1, <2>3, <2>4, <2>6, <2>2a, AdvanceRecords
<1>5. CASE visitTable
  BY <1>1, <1>2, <1>5, VisitsTable, EntryKeeps, Stopping
<1>6. CASE visitVector
  <2>1. CASE getLutTemplate(Group(v).names[1])
    BY <1>1, <1>2, <1>6, <2>1, VisitsVector, EntryKeeps
  <2>2. CASE ~getLutTemplate(Group(v).names[1])
    <3>1. Stop("fatal")
      BY <1>1, <1>6, <2>2, Zenon DEF visitVector
    <3> QED BY <3>1, Stopping
  <2> QED BY <2>1, <2>2
<1>7. CASE visitTiming /\ PortInUse = None
  BY <1>2, <1>7, TimingStops, Stopping
<1> QED BY <1>1, <1>2, <1>3, <1>4, <1>5, <1>6, <1>7, VisitsGroup, EntryKeeps

-----------------------------------------------------------------------------
(***************************************************************************)
(* What a complex attribute writes.                                        *)
(***************************************************************************)
Edges == {"max rise", "min rise", "max fall", "min fall"}
LEMMA EdgesHarmless ==
  ASSUME NEW K, \A k \in K : k[2] = "port_caps" /\ k[3] \in Edges PROVE Harmless(K)
<1>1. \A x \in {<<"port_caps", e>> : e \in Edges} : x \notin Settable
  <2>1. \A A, B, C : \A y \in C : y \notin A \ (B \cup C)
    OBVIOUS
  <2> QED BY <2>1, Zenon DEF Settable, Edges
<1>2. \A e \in Edges : <<"port_caps", e>> \notin Settable
  BY <1>1
<1> QED BY <1>2 DEF Harmless

LEMMA RangesAre ==
  ASSUME NEW a \in DOMAIN Ranges PROVE Ranges[a][1] \in Edges /\ Ranges[a][2] \in Edges
<1>1. a \in {"rise_capacitance_range", "fall_capacitance_range"}
  BY DEF Ranges
<1>2. CASE a = "rise_capacitance_range"
  <2>1. Ranges[a] = <<"min rise", "max rise">>
    BY <1>2 DEF Ranges
  <2>2. PICK x, y : x = "min rise" /\ y = "max rise"
    BY Zenon
  <2>3. Ranges[a] = <<x, y>> /\ x \in Edges /\ y \in Edges
    BY <2>1, <2>2, Zenon DEF Edges
  <2> QED BY <2>3
<1>3. CASE a = "fall_capacitance_range"
  <2>1. Ranges[a] = <<"min fall", "max fall">>
    BY <1>3 DEF Ranges
  <2>2. PICK x, y : x = "min fall" /\ y = "max fall"
    BY Zenon
  <2>3. Ranges[a] = <<x, y>> /\ x \in Edges /\ y \in Edges
    BY <2>1, <2>2, Zenon DEF Edges
  <2> QED BY <2>3
<1> QED BY <1>1, <1>2, <1>3

LEMMA ComplexSets ==
  ASSUME file \in LibFiles, IInv, WalkOK, Recorded, At("complex"),
         \A i \in DOMAIN Stmts(1) : SaysPf(i) => <<1, i>> # <<Top.g, Current>>,
         stack' = Advanced, UNCHANGED <<file, kinds>>,
         NEW K, SetsAt(K), Harmless(K), \A k \in K : k[2] # "cap_unit"
  PROVE  Recorded'
<1>1. stack # << >> /\ Top.left # {} /\ Stmts(Top.g)[Current].kind = "complex"
  BY DEF At, Reaches, Statement
<1>2. <<Top.g, Current>> \notin Expected /\ \A g \in BuiltGroups : ~IsGroupStmt(Top.g, Current, g)
  BY <1>1, NotExpected DEF IsGroupStmt
<1> QED BY <1>1, <1>2, AdvanceRecords

LEMMA SaysNothing ==
  ASSUME ~(/\ Statement.attr = "capacitive_load_unit" /\ Statement.key = "1" /\ Statement.val = "pf")
  PROVE  \A i \in DOMAIN Stmts(1) : SaysPf(i) => <<1, i>> # <<Top.g, Current>>
<1> SUFFICES ASSUME NEW i, SaysPf(i), <<1, i>> = <<Top.g, Current>> PROVE FALSE
  OBVIOUS
<1>1. 1 = Top.g /\ i = Current
  OBVIOUS
<1>2. Stmts(1)[i] = Statement
  BY <1>1 DEF Statement
<1> QED BY <1>2, Zenon DEF SaysPf

LEMMA UnitIsTaken ==
  ASSUME file \in LibFiles, IInv, WalkOK, Recorded, capacitive_load_unit,
         Statement.key = "1", Statement.val = "pf"
  PROVE  Recorded'
<1>0. PICK t, i : t = Top.g /\ i = Current
  OBVIOUS
<1>1. /\ error = None /\ stack # << >> /\ Top.left # {} /\ Statement.kind = "complex"
      /\ Statement.attr = "capacitive_load_unit" /\ At("complex")
  BY Zenon DEF capacitive_load_unit, At, Reaches
<1>2. PICK w : w = <<Library, "cap_unit", "">> :> Plain("pf")
  BY Zenon
<1>3. attrs' = w @@ attrs /\ stack' = Advanced /\ UNCHANGED <<file, builder, kinds, members, error>>
  BY <1>2, Zenon DEF capacitive_load_unit, Sets
<1>4. TypeOK /\ InOneOrder /\ AllSet /\ AllTold
  BY DEF IInv, Recorded
<1>5. /\ Took({<<Top.g, Current>>}) /\ \A g : Open(g)' <=> Open(g)
  <2>1. \A g \in BuiltGroups : ~IsGroupStmt(Top.g, Current, g)
    BY <1>1 DEF IsGroupStmt, Statement
  <2> QED BY <1>1, <1>3, <1>4, <2>1, TookAdvancing
<1>6. InOneOrder'
  BY <1>1, <1>4, <1>5, OrderAfterTaking
<1>7. t = 1 /\ i \in Left(1)
  <2>1. t \in BuiltGroups /\ i \in Left(t)
    <3>1. Top \in Frames
      BY <1>1, <1>4, OpenFrames DEF WalkOK
    <3>2. Current \in Left(Top.g)
      BY <1>1, CurrentIs DEF IInv
    <3> QED BY <1>0, <3>1, <3>2, OpenIsBuilt DEF WalkOK
  <2>2. Of(Statement) = "lib"
    <3>1. DOMAIN Ranges = {"rise_capacitance_range", "fall_capacitance_range"}
      BY DEF Ranges
    <3> QED BY <1>1, <3>1 DEF Of, Indices
  <2>3. <<"lib", Group(t).name>> \in HomesOf
    BY <1>0, <1>1, <2>2, HomeOfStatement
  <2>4. Is(t, {"library"})
    BY <2>3 DEF HomesOf, Is
  <2>5. t = 1
    <3>1. t # 1 => Is(t, Supported)
      BY <2>1, BuiltNest
    <3> QED BY <2>4, <3>1 DEF Is, Supported, DelayTables, PowerTables, CurrentTables
  <2> QED BY <2>1, <2>5
<1>8. SaysPf(i) /\ i \in DOMAIN Stmts(1)
  <2>1. Stmts(1)[i] = Statement
    BY <1>0, <1>7 DEF Statement
  <2>2. SaysPf(i)
    BY <1>1, <2>1, Zenon DEF SaysPf
  <2> QED BY <1>7, <2>2 DEF Left
<1>9. UnitOK'
  <2>1. Written(<<1, i>>)'
    BY <1>0, <1>5, <1>7, BuiltIs DEF Took
  <2>2. /\ Stmts(1)' = Stmts(1) /\ SaysPf(i)'
    <3>1. \A g : Stmts(g)' = Stmts(g)
      BY <1>3, FileStays
    <3> QED BY <1>8, <3>1, Zenon DEF SaysPf
  <2>3. PfTaken'
    BY <1>8, <2>1, <2>2 DEF PfTaken
  <2>4. Attr(Library, "cap_unit")' = "pf"
    <3>1. PICK key : key = <<Library, "cap_unit", "">>
      BY Zenon
    <3>2. DOMAIN w = {key} /\ w[key] = Plain("pf")
      BY <1>2, <3>1, OnlyIs, Zenon
    <3>3. key \in DOMAIN attrs' /\ attrs'[key] = Plain("pf")
      BY <1>3, <3>2, MergeSets DEF SetsAt
    <3>4. Plain("pf").val = "pf"
      BY Zenon DEF Plain
    <3>5. Library' = Library
      BY DEF Library
    <3> QED BY <3>1, <3>3, <3>4, <3>5, Zenon DEF Attr
  <2> QED BY <2>3, <2>4 DEF UnitOK
<1>10. AllSet' /\ AllTold'
  <2>1. Fields(w, OtherFields)
    <3>1. "cap_unit" \in OtherFields
      BY DEF OtherFields
    <3> QED BY <1>2, <3>1, PairField, Zenon
  <2>2. Harmless(DOMAIN w) /\ SetsAt(DOMAIN w)
    BY <1>3, <2>1, OthersHarmless, MergeSets DEF Fields
  <2>3. Stmts(Top.g)[Current].kind # "simple"
    BY <1>1 DEF Statement
  <2>4. <<Top.g, Current>> \notin Expected
    BY <2>3, NotExpected
  <2>5. PICK X : X = {<<Top.g, Current>>}
    OBVIOUS
  <2>6. Took(X) /\ X \cap Expected = {}
    BY <1>5, <2>4, <2>5
  <2> QED BY <1>4, <2>2, <2>6, HarmlessKeeps
<1> QED BY <1>6, <1>9, <1>10 DEF Recorded

LEMMA RangeSets ==
  ASSUME capacitance_range
  PROVE  \/ OnlyStops
         \/ \E K : /\ stack' = Advanced /\ UNCHANGED <<file, kinds>> /\ SetsAt(K)
                   /\ Harmless(K) /\ \A k \in K : k[2] # "cap_unit"
<1>1. CASE builder.port = None
  <2>1. Stop("null pointer")
    BY <1>1, Zenon DEF capacitance_range
  <2> QED BY <2>1, Stopping
<1>2. CASE builder.port # None
  <2>1. PICK x, y : x = Ranges[Statement.attr][1] /\ y = Ranges[Statement.attr][2]
    OBVIOUS
  <2>2. x \in Edges /\ y \in Edges
    <3>1. Statement.attr \in DOMAIN Ranges
      BY Zenon DEF capacitance_range
    <3> QED BY <2>1, <3>1, RangesAre
  <2>3. PICK p, q : p = <<builder.port, "port_caps", x>> /\ q = <<builder.port, "port_caps", y>>
    OBVIOUS
  <2>4. PICK a, b : a = p :> Plain(Statement.key) /\ b = q :> Plain(Statement.val)
    BY Zenon
  <2>5. DOMAIN a = {p} /\ DOMAIN b = {q} /\ DOMAIN (a @@ b) = DOMAIN a \cup DOMAIN b
    BY <2>4, OnlyIs, MergeIs, Zenon
  <2>6. PICK w : w = a @@ b
    BY Zenon
  <2>7. attrs' = w @@ attrs /\ stack' = Advanced /\ UNCHANGED <<file, builder, kinds, members, error>>
    BY <1>2, <2>1, <2>3, <2>4, <2>6, Zenon DEF capacitance_range, Sets
  <2>8. PICK K : K = DOMAIN w
    OBVIOUS
  <2>9. K = {p, q}
    <3>1. DOMAIN w = DOMAIN a \cup DOMAIN b
      BY <2>5, <2>6, Zenon
    <3> QED BY <2>5, <2>8, <3>1
  <2>10. \A k \in K : k[2] = "port_caps" /\ k[3] \in Edges
    BY <2>2, <2>3, <2>9
  <2>11. Harmless(K) /\ \A k \in K : k[2] # "cap_unit"
    BY <2>10, EdgesHarmless
  <2>12. SetsAt(K)
    BY <2>7, <2>8, MergeSets
  <2> QED BY <2>7, <2>11, <2>12
<1> QED BY <1>1, <1>2

LEMMA ComplexRecords ==
  ASSUME file \in LibFiles, IInv, WalkOK, Recorded, At("complex"), visitAttributes
  PROVE  Recorded' \/ OnlyStops
<1>0. ASSUME ~(/\ Statement.attr = "capacitive_load_unit" /\ Statement.key = "1"
               /\ Statement.val = "pf"),
             stack' = Advanced, UNCHANGED <<file, kinds>>,
             NEW K, SetsAt(K), Harmless(K), \A k \in K : k[2] # "cap_unit"
      PROVE  Recorded'
  <2>1. \A i \in DOMAIN Stmts(1) : SaysPf(i) => <<1, i>> # <<Top.g, Current>>
    BY <1>0, SaysNothing
  <2> QED BY <1>0, <2>1, ComplexSets
<1>1. ASSUME ~(/\ Statement.attr = "capacitive_load_unit" /\ Statement.key = "1"
               /\ Statement.val = "pf"),
             NEW w, NEW S, Sets(w), Fields(w, S), S \subseteq OtherFields \ {"cap_unit"}
      PROVE  Recorded'
  <2>1. attrs' = w @@ attrs /\ stack' = Advanced /\ UNCHANGED <<file, kinds>>
    BY <1>1, Zenon DEF Sets
  <2>2. SetsAt(DOMAIN w) /\ Harmless(DOMAIN w) /\ \A k \in DOMAIN w : k[2] # "cap_unit"
    BY <1>1, <2>1, SetsOthers
  <2> QED BY <1>0, <1>1, <2>1, <2>2
<1>2. CASE capacitive_load_unit
  <2>1. CASE Statement.key = "1" /\ Statement.val = "pf"
    BY <1>2, <2>1, UnitIsTaken
  <2>2. CASE ~(Statement.key = "1" /\ Statement.val = "pf")
    <3>1. Sets(<< >>)
      BY <1>2, <2>2, Zenon DEF capacitive_load_unit
    <3> QED BY <1>1, <2>2, <3>1, NoFields
  <2> QED BY <2>1, <2>2
<1>3. CASE capacitance_range
  <2>1. Statement.attr # "capacitive_load_unit"
    <3>1. DOMAIN Ranges = {"rise_capacitance_range", "fall_capacitance_range"}
      BY DEF Ranges
    <3>2. Statement.attr \in DOMAIN Ranges
      BY <1>3, Zenon DEF capacitance_range
    <3> QED BY <3>1, <3>2
  <2> QED BY <1>0, <1>3, <2>1, RangeSets
<1>4. CASE fanout_length
  <2>1. Statement.attr # "capacitive_load_unit"
    BY <1>4 DEF fanout_length
  <2>2. CASE Cast({"wire_load"}) = None /\ IsLength(Statement)
    <3>1. Stop("null pointer")
      BY <1>4, <2>2, Zenon DEF fanout_length
    <3> QED BY <3>1, Stopping
  <2>3. CASE ~IsLength(Statement)
    <3>1. Sets(<< >>)
      BY <1>4, <2>3, Zenon DEF fanout_length
    <3> QED BY <1>1, <2>1, <3>1, NoFields
  <2>4. CASE Cast({"wire_load"}) # None /\ IsLength(Statement)
    <3>1. PICK w : w = <<Cast({"wire_load"}), "fanout_to_length", Statement.key>> :> Plain(Statement.val)
      BY Zenon
    <3>2. Sets(w)
      BY <1>4, <2>4, <3>1, Zenon DEF fanout_length
    <3>3. "fanout_to_length" \in {"fanout_to_length"}
      OBVIOUS
    <3>4. Fields(w, {"fanout_to_length"})
      BY <3>1, <3>3, PairField, Zenon
    <3>5. {"fanout_to_length"} \subseteq OtherFields \ {"cap_unit"}
      BY DEF OtherFields
    <3> QED BY <1>1, <2>1, <3>2, <3>4, <3>5
  <2> QED BY <2>2, <2>3, <2>4
<1>5. CASE visitAxisOrValues
  <2>1. Statement.attr # "capacitive_load_unit"
    BY <1>5 DEF visitAxisOrValues, Indices
  <2>2. PICK o : o = Cast(IF Statement.attr = "values" THEN Tables ELSE Tables \cup Templates)
    OBVIOUS
  <2>3. PICK w : w = <<o, "table_values", "">> :> Plain(Statement.val)
    BY Zenon
  <2>4. \/ Stop("fatal") \/ Sets(<< >>) \/ Sets(w)
        \/ stack' = Advanced /\ UNCHANGED <<file, builder, kinds, attrs, error>>
    BY <1>5, <2>2, <2>3, Zenon DEF visitAxisOrValues
  <2>5. {"table_values"} \subseteq OtherFields \ {"cap_unit"} /\ "table_values" \in {"table_values"}
    BY DEF OtherFields
  <2>6. Fields(w, {"table_values"}) /\ Fields(<< >>, {"table_values"})
    BY <2>3, <2>5, PairField, NoFields, Zenon
  <2>7. CASE Stop("fatal")
    BY <2>7, Stopping
  <2>8. CASE Sets(<< >>) \/ Sets(w)
    BY <1>1, <2>1, <2>5, <2>6, <2>8
  <2>9. CASE stack' = Advanced /\ UNCHANGED <<file, builder, kinds, attrs, error>>
    BY <1>0, <2>1, <2>9, SetsNothing
  <2> QED BY <2>4, <2>7, <2>8, <2>9
<1>6. CASE other_complex
  <2>1. Statement.attr # "capacitive_load_unit" /\ Sets(<< >>)
    BY <1>6 DEF other_complex
  <2> QED BY <1>1, <2>1, NoFields
<1>7. ~visitSimpleAttri
  <2>1. Statement.kind = "complex"
    BY DEF At
  <2> QED BY <2>1 DEF visitSimpleAttri, At
<1> QED BY <1>2, <1>3, <1>4, <1>5, <1>6, <1>7 DEF visitAttributes

-----------------------------------------------------------------------------
(***************************************************************************)
(* What a simple attribute writes.                                         *)
(***************************************************************************)
LEMMA OwnerIsSomeone ==
  ASSUME file \in LibFiles, NEW t \in BuiltGroups, NEW s
  PROVE  Owner(t, s) # Nobody
<1>1. t \in Nat /\ Len(Group(t).names) \in Nat
  BY BuiltIs, GroupsOfFile
<1>2. InBus(t) => Parent(t) \in Nat
  <2>1. SUFFICES ASSUME InBus(t) PROVE Parent(t) \in Nat
    OBVIOUS
  <2>2. t # 1
    BY <2>1, GroupsOfFile DEF InBus, Is
  <2> QED BY <2>2, BuiltNest, BuiltIs, GroupsOfFile
<1>3. Home(t) = None \/ Home(t) \in Nat \X Nat
  BY <1>1, <1>2 DEF Home, InBus, Is
<1>4. Library \in Nat \X Nat
  BY DEF Library
<1> QED BY <1>3, <1>4, NoneAssumption DEF Owner

\* The statement that is read, and that all simple ones before it were taken.
ReadsAt(p, s) ==
  /\ error = None /\ stack # << >> /\ Top.left # {} /\ s = Statement /\ s.kind = "simple"
  /\ p = <<Top.g, Current>> /\ s = Stmts(p[1])[p[2]]
  /\ p[1] = Top.g /\ p[1] \in BuiltGroups /\ p[2] = Current /\ p[2] \in Left(Top.g)
  /\ IsSimple(Top.g, Current) /\ BuiltGroups \subseteq Nat /\ \A g \in BuiltGroups : Left(g) \subseteq Nat
LEMMA Reading ==
  ASSUME file \in LibFiles, IInv, WalkOK, At("simple")
  PROVE  \E p, s : ReadsAt(p, s)
<1>1. PICK p, s : p = <<Top.g, Current>> /\ s = Statement
  OBVIOUS
<1>2. error = None /\ stack # << >> /\ Top.left # {} /\ s.kind = "simple"
  BY <1>1 DEF At, Reaches
<1>3. p[1] = Top.g /\ p[2] = Current /\ s = Stmts(p[1])[p[2]]
  BY <1>1 DEF Statement
<1>4. Top \in Frames /\ Current \in Left(Top.g)
  BY <1>2, OpenFrames, CurrentIs DEF WalkOK, IInv
<1>5. Top.g \in BuiltGroups
  BY <1>4, OpenIsBuilt DEF WalkOK
<1>6. IsSimple(Top.g, Current)
  BY <1>2, <1>3 DEF IsSimple
<1>7. BuiltGroups \subseteq Nat /\ \A g \in BuiltGroups : Left(g) \subseteq Nat
  BY BuiltIs, GroupsOfFile DEF Left
<1> QED BY <1>1, <1>2, <1>3, <1>4, <1>5, <1>6, <1>7 DEF ReadsAt

LEMMA ExpectedHere ==
  ASSUME NEW p, NEW s, ReadsAt(p, s)
  PROVE  /\ p \in SimpleStmts <=> s.attr \in DOMAIN Attributes /\ Takes(s)
         /\ p \in Expected <=> p \in SimpleStmts /\ Attributes[s.attr].at \cap Conditions = {}
<1>1. p \in SimpleStmts <=> IsWriting(p[1], p[2])
  <2>1. p[2] \in DOMAIN Stmts(p[1])
    BY DEF ReadsAt, Left
  <2>2. PICK g, i : g = p[1] /\ i = p[2] /\ p = <<g, i>>
    BY DEF ReadsAt
  <2>3. g \in BuiltGroups /\ i \in DOMAIN Stmts(g)
    BY <2>1, <2>2 DEF ReadsAt
  <2> QED BY <2>2, <2>3 DEF SimpleStmts
<1>2. IsWriting(p[1], p[2]) <=> s.attr \in DOMAIN Attributes /\ Takes(s)
  BY DEF IsWriting, ReadsAt
<1>3. p \in Expected <=> p \in SimpleStmts /\ Attributes[s.attr].at \cap Conditions = {}
  BY DEF Expected, ReadsAt
<1> QED BY <1>1, <1>2, <1>3

LEMMA UnitOfStatement ==
  ASSUME file \in LibFiles, IInv, WalkOK, Recorded, NEW p, NEW s, ReadsAt(p, s)
  PROVE  Unit(s) = ExpectedUnit(p[1], s)
<1>1. PICK t : t = p[1]
  OBVIOUS
<1>2. PfTaken <=> \E i \in DOMAIN Stmts(1) : i < Branch(t) /\ SaysPf(i)
  BY <1>1, UnitInForce DEF ReadsAt, Recorded, IInv
<1>3. UnitAt(t) = IF Attr(Library, "cap_unit") = "pf" THEN "pf" ELSE "ff"
  BY <1>2 DEF UnitAt, Recorded, UnitOK
<1> QED BY <1>1, <1>3 DEF Unit, ExpectedUnit

\* What an expected statement writes stands for it.
LEMMA StandsThere ==
  ASSUME file \in LibFiles, IInv, WalkOK, Recorded, NEW p \in Expected, NEW s, ReadsAt(p, s),
         UNCHANGED file, NEW k \in Writes(p), attrs'[k] = Stored(s)
  PROVE  Stands(k, p)'
<1>1. s = Stmts(p[1])[p[2]] /\ (Stmts(p[1])[p[2]])' = s
  BY FileStays DEF ReadsAt
<1>2. k[2] \notin {"bus_type", "port_caps"} => Meaning(s)' = Meaning(s)
  <2>1. k[2] \notin {"bus_type", "port_caps"} => s.attr # "bus_type"
    BY <1>1, ExpectedIs
  <2>2. s.attr # "bus_type" => Meaning(s)' = Meaning(s)
    BY DEF Meaning
  <2> QED BY <2>1, <2>2
<1>3. ExpectedUnit(p[1], s)' = ExpectedUnit(p[1], s)
  BY ExpectedStays
<1>4. attrs'[k].val = Meaning(s) /\ attrs'[k].unit = ExpectedUnit(p[1], s)
  <2>1. Stored(s).val = Meaning(s) /\ Stored(s).unit = Unit(s)
    BY DEF Stored
  <2> QED BY <2>1, UnitOfStatement
<1>5. (Stands(k, p))' <=>
        /\ k[2] \notin {"bus_type", "port_caps"} => attrs'[k].val = (Meaning(Stmts(p[1])[p[2]]))'
        /\ k[2] # "port_caps" => attrs'[k].unit = (ExpectedUnit(p[1], Stmts(p[1])[p[2]]))'
  BY DEF Stands
<1>6. /\ (Meaning(Stmts(p[1])[p[2]]))' = Meaning(s)'
      /\ (ExpectedUnit(p[1], Stmts(p[1])[p[2]]))' = ExpectedUnit(p[1], s)'
  BY <1>1
<1> QED BY <1>2, <1>3, <1>4, <1>5, <1>6

LEMMA ComesLast ==
  ASSUME file \in LibFiles, IInv, WalkOK, Recorded, NEW p, NEW s, ReadsAt(p, s)
  PROVE  /\ \A q \in Expected : Written(q) => ~After(q, p)
         /\ ~After(p, p)
<1>1. ASSUME NEW q \in Expected, Written(q) PROVE ~After(q, p)
  <2>1. PICK g, i : g = q[1] /\ i = q[2]
    OBVIOUS
  <2>2. g \in BuiltGroups /\ i \in Left(g) /\ IsSimple(g, i) /\ Written(<<g, i>>)
    BY <1>1, <2>1, ExpectedIs
  <2>3. g < Top.g \/ (g = Top.g /\ i < Current)
    BY <2>2, TakenLast DEF ReadsAt, IInv, Recorded, InOneOrder
  <2>4. g \in Nat /\ i \in Nat /\ p[1] \in Nat /\ p[2] \in Nat
    BY <2>2 DEF ReadsAt
  <2> QED BY <2>1, <2>3, <2>4 DEF After, ReadsAt
<1>2. ~After(p, p)
  <2>1. p[1] \in Nat /\ p[2] \in Nat
    BY DEF ReadsAt
  <2> QED BY <2>1 DEF After
<1> QED BY <1>1, <1>2

LEMMA ConditionHarmless ==
  ASSUME NEW f \in {"when", "related_pg_port"}, NEW o, NEW e, <<f, e>> \in Conditions
  PROVE  Harmless({<<o, f, e>>}) /\ f # "cap_unit"
<1>1. <<f, e>> \notin Settable
  <2>1. \A A, B, C, D : \A y \in B : y \notin A \ (B \cup C \cup D)
    OBVIOUS
  <2> QED BY <2>1, Zenon DEF Settable
<1>2. \A q \in Expected : <<o, f, e>> \notin Writes(q)
  BY ExpectedIs
<1> QED BY <1>1, <1>2 DEF Harmless

LEMMA SimpleRecords ==
  ASSUME file \in LibFiles, IInv, NoWire, WalkOK, Recorded, visitSimpleAttri
  PROVE  Recorded' \/ OnlyStops
<1>1. At("simple")
  BY Zenon DEF visitSimpleAttri
<1>2. PICK p, s : ReadsAt(p, s)
  BY <1>1, Reading
<1>3. PICK o \in Receivers(s) :
        \/ o = None /\ Stop("null pointer")
        \/ /\ o # None
           /\ attrs' = IF o = Nobody \/ ~Takes(s) THEN attrs
                       ELSE [k \in {<<o, at[1], at[2]>> : at \in Attributes[s.attr].at}
                               |-> Stored(s)] @@ attrs
           /\ stack' = Advanced
           /\ UNCHANGED <<file, builder, kinds, members, error>>
  <2>1. s = Statement
    BY <1>2 DEF ReadsAt
  <2> QED BY <2>1, Zenon DEF visitSimpleAttri
<1>4. CASE o = None /\ Stop("null pointer")
  BY <1>4, Stopping
<1>5. CASE ~(o = None /\ Stop("null pointer"))
  <2>1. /\ o # None /\ stack' = Advanced /\ UNCHANGED <<file, builder, kinds, members, error>>
        /\ o = Nobody \/ ~Takes(s) => attrs' = attrs
    BY <1>3, <1>5, Zenon
  <2>2. ASSUME o # Nobody, Takes(s), NEW K, K = {<<o, at[1], at[2]>> : at \in Attributes[s.attr].at}
        PROVE  SetsAt(K) /\ \A k \in K : attrs'[k] = Stored(s)
    <3>1. PICK w : w = [k \in K |-> Stored(s)]
      BY Zenon
    <3>2. attrs' = w @@ attrs
      BY <1>3, <1>5, <2>2, <3>1, Zenon
    <3>3. DOMAIN w = K /\ \A k \in K : w[k] = Stored(s)
      BY <3>1
    <3> QED BY <3>2, <3>3, MergeSets
  <2>3. /\ stack # << >> /\ Top.left # {} /\ TypeOK /\ InOneOrder /\ p = <<Top.g, Current>>
    BY <1>2 DEF ReadsAt, IInv, Recorded
  <2>4. \A i \in DOMAIN Stmts(1) : SaysPf(i) => <<1, i>> # p
    <3>1. \A i : SaysPf(i) => Stmts(1)[i].kind = "complex"
      BY Zenon DEF SaysPf
    <3>2. Stmts(p[1])[p[2]].kind = "simple"
      BY <1>2 DEF ReadsAt
    <3> QED BY <3>1, <3>2
  <2>4a. \A g \in BuiltGroups : ~IsGroupStmt(Top.g, Current, g)
    BY <1>2 DEF ReadsAt, IsGroupStmt, Statement
  <2>5. CASE p \in Expected
    <3>1. s.attr \in DOMAIN Attributes /\ Takes(s) /\ Attributes[s.attr].at \cap Conditions = {}
      BY <1>2, <2>5, ExpectedHere
    <3>2. ~Strays
      <4>1. PICK a, of : a = s.attr /\ of = Attributes[a].of
        OBVIOUS
      <4>2. of = "own_power_if_any" => Attributes[a].at = One("when")
        BY <3>1, <4>1, AttributesAre DEF DirectsAll, Directs
      <4>3. One("when") \cap Conditions # {}
        <5>1. PICK e : e = ""
          BY Zenon
        <5>2. Conditions = {<<f, e>> : f \in {"when", "related_pg_port"}} /\ One("when") = {<<"when", e>>}
          BY <5>1, Zenon DEF Conditions, One
        <5>3. <<"when", e>> \in Conditions
          BY <5>2
        <5> QED BY <5>2, <5>3
      <4>4. of # "own_power_if_any"
        BY <3>1, <4>1, <4>2, <4>3
      <4>5. Of(Statement) = of
        BY <1>2, <3>1, <4>1 DEF Of, ReadsAt
      <4> QED BY <4>4, <4>5 DEF Strays
    <3>3. o = Owner(p[1], s)
      <4>1. s = Statement /\ p[1] = Top.g
        BY <1>2 DEF ReadsAt
      <4> QED BY <1>1, <2>1, <3>1, <3>2, <4>1, SimpleGoesHome
    <3>4. o # Nobody
      BY <1>2, <3>3, OwnerIsSomeone DEF ReadsAt
    <3>5. PICK K : K = {<<o, at[1], at[2]>> : at \in Attributes[s.attr].at}
      OBVIOUS
    <3>6. K = Writes(p)
      BY <1>2, <3>3, <3>5 DEF Writes, ReadsAt
    <3>7. SetsAt(Writes(p)) /\ \A k \in Writes(p) : attrs'[k] = Stored(s)
      BY <2>2, <3>1, <3>4, <3>5, <3>6
    <3>8. \A k \in Writes(p) : Stands(k, p)'
      BY <1>2, <2>1, <2>5, <3>7, StandsThere
    <3>9. Took({p}) /\ \A g : Open(g)' <=> Open(g)
      BY <1>2, <2>1, <2>3, <2>4a, TookAdvancing DEF ReadsAt
    <3>10. InOneOrder'
      BY <2>3, <3>9, OrderAfterTaking
    <3>11. AllSet' /\ AllTold'
      BY <1>2, <2>5, <3>7, <3>8, <3>9, ComesLast, StatementKeeps DEF Recorded
    <3>12. UnitOK'
      <4>1. \A k \in Writes(p) : k[2] # "cap_unit"
        BY <2>5, ExpectedIs DEF OtherFields
      <4>2. \A i \in DOMAIN Stmts(1) : SaysPf(i) => <<1, i>> \notin {p}
        BY <2>4
      <4> QED BY <3>7, <3>9, <4>1, <4>2, UnitStays DEF Recorded
    <3> QED BY <3>10, <3>11, <3>12 DEF Recorded
  <2>6. CASE p \notin Expected
    <3>1. CASE attrs' = attrs
      BY <2>1, <2>3, <2>4, <2>6, <2>4a, <3>1, SetsNothing, AdvanceRecords
    <3>2. CASE attrs' # attrs
      <4>1. o # Nobody /\ Takes(s)
        BY <2>1, <3>2
      <4>2. s.attr \in DOMAIN Attributes
        BY <4>1 DEF Receivers
      <4>3. PICK at : at = Attributes[s.attr].at
        OBVIOUS
      <4>4. at \cap Conditions # {}
        BY <1>2, <2>6, <4>1, <4>2, <4>3, ExpectedHere
      <4>5. PICK e : e = ""
        BY Zenon
      <4>6. PICK f \in {"when", "related_pg_port"} : <<f, e>> \in at \cap Conditions
        <5>1. Conditions = {<<f, e>> : f \in {"when", "related_pg_port"}}
          BY <4>5, Zenon DEF Conditions
        <5> QED BY <4>4, <5>1
      <4>7. at = One(f)
        <5>1. <<f, e>>[1] = f
          OBVIOUS
        <5> QED BY <4>2, <4>3, <4>6, <5>1, AttributesAre DEF DirectsAll, Directs
      <4>8. at = {<<f, e>>}
        BY <4>5, <4>7, Zenon DEF One
      <4>9. PICK K : K = {<<o, x[1], x[2]>> : x \in at}
        OBVIOUS
      <4>10. K = {<<o, f, e>>}
        BY <4>8, <4>9
      <4>11. SetsAt(K)
        BY <2>2, <4>1, <4>3, <4>9
      <4>12. Harmless(K) /\ \A k \in K : k[2] # "cap_unit"
        <5>1. Harmless({<<o, f, e>>}) /\ f # "cap_unit"
          BY <4>6, ConditionHarmless
        <5> QED BY <4>10, <5>1
      <4> QED BY <2>1, <2>3, <2>4, <2>6, <2>4a, <4>11, <4>12, AdvanceRecords
    <3> QED BY <3>1, <3>2
  <2> QED BY <2>5, <2>6
<1> QED BY <1>4, <1>5

-----------------------------------------------------------------------------
(***************************************************************************)
(* The invariant of what is recorded, and what it says when the walk ends. *)
(***************************************************************************)
Recording == error = None => Recorded

LEMMA SameRecords == ASSUME file \in LibFiles, Recorded, OnlyStops PROVE Recorded'
<1>1. Frames' = Frames /\ UNCHANGED <<file, stack, kinds, attrs>>
  BY DEF OnlyStops, Frames
<1>2. (\A g : Seen(g)' <=> Seen(g)) /\ \A g : Open(g)' <=> Open(g)
  BY <1>1, SeenSame DEF Open
<1>3. Took({})
  BY <1>1, <1>2 DEF Took, Written
<1>4. InOneOrder'
  BY <1>2, <1>3, OrderAfterLeaving DEF Recorded
<1> QED BY <1>1, <1>3, <1>4, SetsNothing, BesideKeeps

LEMMA RecordingInit == Init => Recording
<1> SUFFICES ASSUME Init PROVE Recorded
  BY DEF Recording
<1>1. kinds = << >> /\ attrs = << >>
  BY DEF Init
<1>2. \A p : ~Written(p)
  BY <1>1, SeenBegun DEF Written
<1>3. InOneOrder
  BY <1>2 DEF InOneOrder, InTurn, OneBranch
<1>4. UnitOK
  <2>1. DOMAIN attrs = {}
    BY <1>1
  <2>2. Attr(Library, "cap_unit") = "unset"
    BY <2>1, Zenon DEF Attr
  <2>3. ~PfTaken
    BY <1>2 DEF PfTaken
  <2> QED BY <2>2, <2>3 DEF UnitOK
<1>5. AllSet /\ AllTold
  BY <1>1, <1>2 DEF AllSet, AllTold
<1> QED BY <1>3, <1>4, <1>5 DEF Recorded

LEMMA RecordingNext == ASSUME Walks, Recording, [Next]_vars PROVE Recording'
<1>1. CASE Next
  <2>1. /\ error = None /\ Invariants /\ WalkOK /\ file \in LibFiles
        /\ IInv /\ Begun /\ NoWire /\ Recorded
    BY <1>1, OnlyGoesOn DEF Walks, Walking, Inductive, Recording, Invariants
  <2>2. CASE visitAttributes
    <3>1. visitSimpleAttri \/ At("complex")
      BY <2>2, Zenon
         DEF visitAttributes, capacitive_load_unit, capacitance_range, fanout_length,
             visitAxisOrValues, other_complex
    <3> QED BY <2>1, <2>2, <3>1, SimpleRecords, ComplexRecords, SameRecords DEF Recording
  <2>3. CASE visitGroup
    BY <2>1, <2>3, VisitingRecords, SameRecords DEF Recording
  <2>4. CASE leaveGroup
    BY <2>1, <2>4, LeavingRecords, SameRecords DEF Recording
  <2>5. CASE cannot_read \/ nameless_library
    BY <2>1, <2>5, CannotRead, SameRecords DEF Recording
  <2> QED BY <1>1, <2>2, <2>3, <2>4, <2>5 DEF Next
<1>2. CASE UNCHANGED vars
  <2>1. OnlyStops /\ error' = error /\ file \in LibFiles
    BY <1>2 DEF vars, OnlyStops, Walks, Inductive
  <2> QED BY <2>1, SameRecords DEF Recording
<1> QED BY <1>1, <1>2

LEMMA RecordingTells == ASSUME Walks, Recording PROVE AttributesReachOwners
<1> SUFFICES ASSUME Done PROVE LET keys == UNION {Writes(p) : p \in Expected}
    IN  /\ \A k \in keys : \E p \in Expected :
             LET s == Stmts(p[1])[p[2]] IN
             /\ k \in Writes(p)
             /\ \A q \in Expected : k \in Writes(q) => ~After(q, p)
             /\ k \in DOMAIN attrs
             /\ k[2] \notin {"bus_type", "port_caps"} => attrs[k].val = Meaning(s)
             /\ k[2] # "port_caps" => attrs[k].unit = ExpectedUnit(p[1], s)
        /\ \A k \in DOMAIN attrs : <<k[2], k[3]>> \in Settable => k \in keys
  BY Zenon DEF AttributesReachOwners
<1>1. Recorded /\ WalkOK /\ file \in LibFiles
  BY DEF Done, Recording, Walks, Walking, Inductive, Invariants
<1>2. \A p \in Expected : Written(p)
  <2>1. SUFFICES ASSUME NEW p \in Expected PROVE Written(p)
    OBVIOUS
  <2>2. p[1] \in BuiltGroups
    BY ExpectedIs
  <2>3. Seen(p[1]) /\ ~Open(p[1])
    BY <1>1, <2>2, AllSeen
  <2> QED BY <2>3 DEF Written, Open
<1>3. ASSUME NEW k \in DOMAIN attrs, <<k[2], k[3]>> \in Settable \/ \E p \in Expected : k \in Writes(p)
      PROVE  \E p \in Expected :
               /\ k \in Writes(p)
               /\ \A q \in Expected : k \in Writes(q) => ~After(q, p)
               /\ Stands(k, p)
  BY <1>1, <1>2, <1>3 DEF Recorded, AllTold, Told
<1>4. ASSUME NEW k, NEW p \in Expected, k \in Writes(p) PROVE k \in DOMAIN attrs
  BY <1>1, <1>2, <1>4 DEF Recorded, AllSet
<1> QED BY <1>3, <1>4 DEF Stands

\* Whatever file is linked, each of its simple attributes is found at the object of
\* its group, as the last statement that gives it says and in the unit in force
\* there (visitSimpleAttri, under the flags and pointers of LibBuilder).
THEOREM AttributesAreOwners == Spec => []AttributesReachOwners
<1>1. Spec => []Walks
  BY WalksInit, WalksNext, PTL DEF Spec
<1>2. Init => Recording
  BY RecordingInit
<1>3. Walks /\ Recording /\ [Next]_vars => Recording'
  BY RecordingNext
<1>4. Walks /\ Recording => AttributesReachOwners
  BY RecordingTells
<1> QED BY <1>1, <1>2, <1>3, <1>4, PTL DEF Spec
=============================================================================
