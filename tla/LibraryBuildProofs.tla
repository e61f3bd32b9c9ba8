-------------------------- MODULE LibraryBuildProofs --------------------------
(***************************************************************************)
(* For any Liberty file whose groups are nested as in Nesting: the         *)
(* pointers of the builder are those of the open groups, and so no         *)
(* attribute is written to the object of another group.                    *)
(***************************************************************************)
EXTENDS LibraryBuildProperties, SequenceTheorems, WellFoundedInduction, TLAPS

-----------------------------------------------------------------------------
(***************************************************************************)
(* What a function holds that was put together from others.                *)
(***************************************************************************)
\* One pair.
LEMMA OnlyIs ==
  ASSUME NEW x, NEW y
  PROVE  DOMAIN (x :> y) = {x} /\ (x :> y)[x] = y
  BY DEF :>

\* The first function wins.
LEMMA MergedIs ==
  ASSUME NEW f, NEW g
  PROVE  /\ DOMAIN Merged(f, g) = DOMAIN f \cup DOMAIN g
         /\ \A z \in DOMAIN f : Merged(f, g)[z] = f[z]
         /\ \A z \in DOMAIN g \ DOMAIN f : Merged(f, g)[z] = g[z]
BY DEF Merged

LEMMA MergeIs ==
  ASSUME NEW f, NEW g
  PROVE  /\ DOMAIN (f @@ g) = DOMAIN f \cup DOMAIN g
         /\ \A z \in DOMAIN f : (f @@ g)[z] = f[z]
         /\ \A z \in DOMAIN g \ DOMAIN f : (f @@ g)[z] = g[z]
BY MergedIs DEF @@

-----------------------------------------------------------------------------
\* The walk picks one of the statements that are left.
LEMMA LeastIsOne ==
  ASSUME NEW S, S \subseteq Nat, S # {} PROVE Least(S) \in S /\ \A j \in S : Least(S) <= j
<1>1. PICK x \in S : \A y \in S : ~ (<<y, x>> \in OpToRel(<, Nat))
  BY NatLessThanWellFounded, WFMin
<1>2. ASSUME NEW y \in S, y < x PROVE <<y, x>> \in OpToRel(<, Nat)
  <2>1. <<y, x>> \in Nat \X Nat
    OBVIOUS
  <2>2. <<y, x>>[1] < <<y, x>>[2]
    BY <1>2
  <2> QED BY <2>1, <2>2, Zenon DEF OpToRel
<1>3. \A y \in S : ~ (y < x)
  BY <1>1, <1>2
<1>4. \A y \in S : x <= y
  BY <1>3
<1> QED BY <1>4 DEF Least

-----------------------------------------------------------------------------
\* How groups nest.

LEMMA Deeper ==
  ASSUME NEW a, NEW b, <<a, b>> \in Nesting
  PROVE  /\ a \in Supported /\ b \in Supported \cup {"library"}
         /\ Level[b] < Level[a]
         /\ b \in {"library", "cell", "bus", "bundle", "pin", "timing", "internal_power"} \cup CurrentTables
  BY DEF Nesting, Level, Supported, DelayTables, PowerTables, CurrentTables

LEMMA LevelIsNat ==
  ASSUME NEW a \in Supported \cup {"library"}
  PROVE  Level[a] \in 0 .. 6
  BY DEF Level

\* What stands above a group.
LEMMA Shallow ==
  ASSUME NEW a \in Supported \cup {"library"}
  PROVE  /\ Level[a] < 1 => a = "library"
         /\ Level[a] < 2 => a \in {"library", "cell"}
         /\ Level[a] < 3 => a \in {"library", "cell", "bus", "bundle"}
         /\ Level[a] < 4 => a \in {"library", "cell", "bus", "bundle", "pin"}
         /\ Level[a] < 5 => a \in {"library", "cell", "bus", "bundle", "pin", "timing", "internal_power"}
         /\ Level[a] < 6 => a \notin Objects \cup {"leakage_power"}
  BY DEF Level, Supported, Objects, DelayTables, PowerTables, CurrentTables

-----------------------------------------------------------------------------
\* The walk through a file.

LEMMA GroupsOfFile ==
  ASSUME file \in LibFiles
  PROVE  /\ 1 \in Groups /\ Groups \subseteq Nat /\ Group(1).name = "library"
         /\ \A g \in Groups : /\ DOMAIN Stmts(g) \subseteq Nat
                              /\ Len(Group(g).names) \in Nat
                              /\ \A i \in DOMAIN Stmts(g) : IsStatement(file, g, Stmts(g)[i])
<1>1. \A s \in Seq(STRING) : Len(s) \in Nat
  BY LenProperties
<1> QED BY <1>1, FileAssumption DEF IsLibertyFile, Groups, Group, Stmts

\* The group on top is one of the file with a handler.
LEMMA TopGroup ==
  ASSUME file \in LibFiles, TypeOK, stack # << >>
  PROVE  /\ Len(stack) \in Nat \ {0} /\ Top = stack[Len(stack)]
         /\ Top \in Frame
         /\ \A k \in 1 .. Len(stack) :
              /\ stack[k] \in Frame /\ stack[k].g \in Groups
              /\ Group(stack[k].g).name \in Supported \cup {"library"}
         /\ Top.g \in Groups /\ Top.left \subseteq Left(Top.g)
<1>1. stack \in Seq(Frame)
  BY DEF TypeOK
<1>2. Len(stack) \in Nat \ {0} /\ \A k \in 1 .. Len(stack) : stack[k] \in Frame
  BY <1>1, EmptySeq, LenProperties, ElementOfSeq
<1>3. ASSUME NEW k \in 1 .. Len(stack)
      PROVE  /\ stack[k].g \in Groups /\ stack[k].left \subseteq Left(stack[k].g)
             /\ Group(stack[k].g).name \in Supported \cup {"library"}
  <2>1. FrameOK(k)
    BY DEF TypeOK
  <2>2. CASE k = 1
    BY <2>1, <2>2, GroupsOfFile DEF FrameOK
  <2>3. CASE k > 1
    BY <2>1, <2>3 DEF FrameOK, Is
  <2> QED BY <1>2, <2>2, <2>3
<1>4. Top = stack[Len(stack)] /\ Len(stack) \in 1 .. Len(stack)
  BY <1>2 DEF Top
<1> QED BY <1>2, <1>3, <1>4

LEMMA StatementOfTop ==
  ASSUME file \in LibFiles, TypeOK, stack # << >>, Top.left # {}
  PROVE  /\ Current \in Top.left /\ Current \in Left(Top.g)
         /\ IsStatement(file, Top.g, Statement)
<1>1. Top.left \subseteq Left(Top.g) /\ Top.g \in Groups
  BY TopGroup
<1>2. Left(Top.g) \subseteq DOMAIN Stmts(Top.g) /\ DOMAIN Stmts(Top.g) \subseteq Nat
  BY <1>1, GroupsOfFile DEF Left
<1>3. Current \in Top.left
  <2> DEFINE simple == {i \in Top.left : IsSimple(Top.g, i)}
             these == IF simple = {} THEN Top.left ELSE simple
  <2>1. these # {} /\ these \subseteq Top.left /\ these \subseteq Nat
    BY <1>1, <1>2
  <2>2. Current = Least(these)
    BY DEF Current
  <2> HIDE DEF these
  <2> QED BY <2>1, <2>2, LeastIsOne
<1> QED BY <1>1, <1>2, <1>3, GroupsOfFile DEF Statement

\* A group that is visited stands in the group on top.
LEMMA VisitedGroup ==
  ASSUME file \in LibFiles, TypeOK, NEW names \in SUBSET Supported, Visits(names)
  PROVE  /\ stack # << >>
         /\ Visited \in Groups /\ Parent(Visited) = Top.g
         /\ Group(Visited).name \in names
         /\ <<Group(Visited).name, Group(Top.g).name>> \in Nesting
<1>1. stack # << >> /\ Top.left # {} /\ Statement.kind = "group" /\ Group(Visited).name \in names
  BY DEF Visits, At, Reaches, Visited
<1>2. IsStatement(file, Top.g, Statement)
  BY <1>1, StatementOfTop
<1>3. Len(stack) \in 1 .. Len(stack) /\ Top = stack[Len(stack)]
  BY <1>1, TopGroup
<1>4. Group(Top.g).name \in Supported \cup {"library"}
  BY <1>1, <1>3, TopGroup
<1> QED BY <1>1, <1>2, <1>4 DEF IsStatement, Visited, Groups, Group, Parent

-----------------------------------------------------------------------------
\* What a step does to the stack.

\* Frame k of the next stack is of a group as high as frame k of this one.
SameGroups(n) == \A k \in 1 .. n : stack'[k].g = stack[k].g

LEMMA AdvancedStack ==
  ASSUME file \in LibFiles, TypeOK, stack # << >>
  PROVE  /\ Advanced \in Seq(Frame) /\ Len(Advanced) = Len(stack)
         /\ \A k \in 1 .. Len(stack) : Advanced[k].g = stack[k].g /\ Advanced[k].left \subseteq stack[k].left
<1>1. stack \in Seq(Frame) /\ Len(stack) \in 1 .. Len(stack) /\ stack[Len(stack)] \in Frame
  BY TopGroup DEF TypeOK
<1> DEFINE rest == [stack[Len(stack)] EXCEPT !.left = @ \ {Current}]
<1>2. rest \in Frame /\ rest.g = stack[Len(stack)].g /\ rest.left \subseteq stack[Len(stack)].left
  BY <1>1 DEF Frame
<1>3. Advanced = [stack EXCEPT ![Len(stack)] = rest]
  BY DEF Advanced
<1> HIDE DEF rest
<1>4. /\ Advanced \in Seq(Frame) /\ Len(Advanced) = Len(stack)
      /\ \A k \in 1 .. Len(stack) : Advanced[k] = IF k = Len(stack) THEN rest ELSE stack[k]
  BY <1>1, <1>2, <1>3, ExceptSeq
<1> QED BY <1>1, <1>2, <1>4

\* A frame stays as it should be when its group and those above it stay.
LEMMA FrameStays ==
  ASSUME NEW k \in Nat \ {0}, FrameOK(k), SameGroups(k), stack'[k].left \subseteq stack[k].left,
         UNCHANGED file
  PROVE  FrameOK(k)'
<1>1. \A j \in 1 .. k - 1 : stack'[j].g = stack[j].g
  BY DEF SameGroups
<1>2. stack'[k].g = stack[k].g /\ (k > 1 => stack'[k - 1].g = stack[k - 1].g)
  BY DEF SameGroups
<1> QED BY <1>1, <1>2 DEF FrameOK, Is, Group, Groups, Parent, Left, Stmts

LEMMA Advancing ==
  ASSUME file \in LibFiles, TypeOK, stack # << >>, stack' = Advanced, UNCHANGED <<file, builder>>
  PROVE  TypeOK' /\ Len(stack') = Len(stack) /\ SameGroups(Len(stack))
<1>1. Len(stack') = Len(stack) /\ SameGroups(Len(stack)) /\ stack' \in Seq(Frame)
  BY AdvancedStack DEF SameGroups
<1>2. ASSUME NEW k \in 1 .. Len(stack) PROVE FrameOK(k)'
  <2>1. SameGroups(k) /\ FrameOK(k) /\ stack'[k].left \subseteq stack[k].left /\ k \in Nat \ {0}
    BY <1>1, AdvancedStack, TopGroup DEF SameGroups, TypeOK
  <2> QED BY <2>1, FrameStays
<1>3. (DOMAIN builder = DOMAIN LibBuilder)'
  BY DEF TypeOK, LibBuilder
<1> QED BY <1>1, <1>2, <1>3 DEF TypeOK

LEMMA Entering ==
  ASSUME file \in LibFiles, TypeOK, NEW names \in SUBSET Supported, Visits(names), Enters(Visited),
         UNCHANGED file, DOMAIN builder' = DOMAIN builder
  PROVE  /\ TypeOK'
         /\ Len(stack') = Len(stack) + 1 /\ SameGroups(Len(stack))
         /\ stack'[Len(stack) + 1].g = Visited
<1>0. PICK n, v : n = Len(stack) /\ v = Visited
  OBVIOUS
<1> DEFINE frame == [g |-> v, left |-> Left(v)]
<1>1. /\ stack # << >> /\ v \in Groups /\ Parent(v) = Top.g
      /\ <<Group(v).name, Group(Top.g).name>> \in Nesting
  BY <1>0, VisitedGroup
<1>2. /\ n \in Nat \ {0} /\ Top = stack[n]
      /\ \A k \in 1 .. n : Group(stack[k].g).name \in Supported \cup {"library"}
  BY <1>0, <1>1, TopGroup
<1>3. frame \in Frame
  BY <1>1, GroupsOfFile DEF Frame, Left
<1>4. /\ stack' \in Seq(Frame) /\ Len(stack') = n + 1 /\ stack'[n + 1] = frame
      /\ \A k \in 1 .. n : stack'[k] = Advanced[k]
  BY <1>0, <1>1, <1>3, AdvancedStack, AppendProperties DEF Enters
<1>5. SameGroups(n) /\ stack'[n + 1].g = v /\ stack'[n + 1].left = Left(v)
  BY <1>0, <1>1, <1>4, AdvancedStack DEF SameGroups
<1> HIDE DEF frame
<1>6. ASSUME NEW k \in 1 .. n PROVE FrameOK(k)'
  <2>1. SameGroups(k) /\ FrameOK(k) /\ stack'[k].left \subseteq stack[k].left /\ k \in Nat \ {0}
    BY <1>0, <1>1, <1>2, <1>4, <1>5, AdvancedStack DEF SameGroups, TypeOK
  <2> QED BY <2>1, FrameStays
<1>7. FrameOK(n + 1)'
  <2>1. /\ Group(v).name \in Supported
        /\ Level[Group(Top.g).name] < Level[Group(v).name]
    BY <1>1, Deeper
  <2>2. ASSUME NEW j \in 1 .. n
        PROVE  Level[Group(stack[j].g).name] < Level[Group(v).name]
    <3>1. FrameOK(n)
      BY <1>0, <1>2 DEF TypeOK
    <3>2. CASE j = n
      BY <2>1, <1>2, <3>2
    <3>3. CASE j < n
      <4>1. Level[Group(stack[j].g).name] < Level[Group(stack[n].g).name]
        BY <1>2, <3>1, <3>3 DEF FrameOK
      <4>2. \A a \in Supported \cup {"library"} : Level[a] \in 0 .. 6
        BY LevelIsNat
      <4>3. /\ Group(stack[j].g).name \in Supported \cup {"library"}
            /\ Group(Top.g).name \in Supported \cup {"library"}
            /\ Group(v).name \in Supported \cup {"library"}
        BY <1>2, <2>1
      <4> QED BY <1>2, <2>1, <4>1, <4>2, <4>3
    <3> QED BY <1>2, <3>2, <3>3
  <2>3. \A j \in 1 .. n : stack'[j].g = stack[j].g
    BY <1>5 DEF SameGroups
  <2>4. stack'[n].g = Top.g
    BY <1>2, <2>3
  <2>5. (n + 1) - 1 = n /\ n + 1 > 1 /\ n + 1 # 1
    BY <1>2
  <2>e. PICK m : m = n + 1
    OBVIOUS
  <2>6. /\ m - 1 = n /\ m > 1 /\ m # 1 /\ stack'[m].g = v /\ stack'[m].left = Left(v)
    BY <1>5, <2>5, <2>e
  <2>7. FrameOK(m)'
    BY <1>1, <2>1, <2>2, <2>3, <2>4, <2>6
       DEF FrameOK, Is, Group, Groups, Parent, Left, Stmts
  <2> QED BY <2>e, <2>7
<1>8. (DOMAIN builder = DOMAIN LibBuilder)'
  BY DEF TypeOK, LibBuilder
<1>9. \A k \in 1 .. Len(stack') : FrameOK(k)'
  <2> SUFFICES ASSUME NEW k \in 1 .. n + 1 PROVE FrameOK(k)'
    BY <1>4
  <2> QED BY <1>2, <1>6, <1>7
<1>10. TypeOK'
  BY <1>4, <1>8, <1>9 DEF TypeOK
<1> QED BY <1>0, <1>4, <1>5, <1>10

LEMMA Leaving ==
  ASSUME file \in LibFiles, TypeOK, NEW names, Leaves(names),
         UNCHANGED file, DOMAIN builder' = DOMAIN builder
  PROVE  /\ TypeOK'
         /\ Len(stack') = Len(stack) - 1 /\ SameGroups(Len(stack) - 1)
<1>0. PICK n : n = Len(stack)
  OBVIOUS
<1>1. stack # << >> /\ stack' = SubSeq(stack, 1, n - 1)
  BY <1>0 DEF Leaves, Popped
<1>2. stack \in Seq(Frame) /\ n \in Nat \ {0}
  BY <1>0, <1>1, TopGroup DEF TypeOK
<1>3. /\ stack' \in Seq(Frame) /\ Len(stack') = n - 1
      /\ \A k \in 1 .. n - 1 : stack'[k] = stack[k]
  <2>1. PICK m \in Nat : m = n - 1
    BY <1>2
  <2>2. 1 \in Int /\ m \in Int /\ \A k \in 1 .. m : stack[k] \in Frame
    BY <1>0, <1>1, <1>2, <2>1, TopGroup
  <2>3. /\ SubSeq(stack, 1, m) \in Seq(Frame)
        /\ Len(SubSeq(stack, 1, m)) = IF 1 <= m THEN m - 1 + 1 ELSE 0
        /\ \A k \in 1 .. m - 1 + 1 : SubSeq(stack, 1, m)[k] = stack[1 + k - 1]
    BY <2>2, SubSeqProperties
  <2>4. m - 1 + 1 = m /\ \A k \in 1 .. m : 1 + k - 1 = k
    BY <2>1
  <2> QED BY <1>1, <2>1, <2>3, <2>4
<1>4. ASSUME NEW k \in 1 .. n - 1 PROVE FrameOK(k)'
  <2>1. SameGroups(k) /\ FrameOK(k) /\ stack'[k].left \subseteq stack[k].left /\ k \in Nat \ {0}
    BY <1>0, <1>2, <1>3 DEF SameGroups, TypeOK
  <2> QED BY <2>1, FrameStays
<1>5. (DOMAIN builder = DOMAIN LibBuilder)'
  BY DEF TypeOK, LibBuilder
<1> QED BY <1>0, <1>3, <1>4, <1>5 DEF TypeOK, SameGroups

-----------------------------------------------------------------------------
\* What a step does to the groups that stay open.

LEMMA TopAtHome ==
  ASSUME file \in LibFiles, IInv, error = None, stack # << >>
  PROVE  AtHome(Top.g, TRUE)
<1>1. Len(stack) \in 1 .. Len(stack) /\ Top = stack[Len(stack)]
  BY TopGroup DEF IInv
<1>2. AtHome(stack[Len(stack)].g, Len(stack) = Len(stack))
  BY <1>1 DEF IInv, PointersAtHome
<1> QED BY <1>1, <1>2

\* A group that is at home as the top one is at home below another.
LEMMA NotOnTop ==
  ASSUME NEW g, NEW top, AtHome(g, top)
  PROVE  AtHome(g, FALSE)
  BY DEF AtHome

LEMMA OnTop ==
  ASSUME NEW g, AtHome(g, FALSE)', (Is(g, {"library", "cell"}) => NoPorts)'
  PROVE  AtHome(g, TRUE)'
  BY DEF AtHome, Is

\* A group that is open below the top is at home, and as high as its parent or higher.
Higher(g, top) ==
  /\ g \in Groups /\ Group(g).name \in Supported \cup {"library"}
  /\ Level[Group(g).name] <= Level[Group(Parent(top)).name]
  /\ AtHome(g, FALSE)

LEMMA Below ==
  ASSUME file \in LibFiles, IInv, error = None, stack # << >>, NEW k \in 1 .. Len(stack) - 1
  PROVE  /\ stack[k].g \in Groups /\ Group(stack[k].g).name \in Supported \cup {"library"}
         /\ Level[Group(stack[k].g).name] < Level[Group(Top.g).name]
         /\ AtHome(stack[k].g, FALSE)
<1>0. PICK n : n = Len(stack)
  OBVIOUS
<1>1. n \in Nat \ {0} /\ n \in 1 .. n /\ k \in 1 .. n /\ k < n /\ Top = stack[n]
  BY <1>0, TopGroup DEF IInv
<1>2. FrameOK(n) /\ AtHome(stack[k].g, k = n)
  BY <1>0, <1>1 DEF IInv, TypeOK, PointersAtHome
<1>3. Level[Group(stack[k].g).name] < Level[Group(stack[n].g).name]
  BY <1>1, <1>2 DEF FrameOK
<1>4. AtHome(stack[k].g, FALSE)
  BY <1>2, NotOnTop
<1>5. stack[k].g \in Groups /\ Group(stack[k].g).name \in Supported \cup {"library"}
  BY <1>0, <1>1, TopGroup DEF IInv
<1> QED BY <1>1, <1>3, <1>4, <1>5

LEMMA BelowTop ==
  ASSUME file \in LibFiles, IInv, error = None, stack # << >>, NEW k \in 1 .. Len(stack) - 1
  PROVE  Higher(stack[k].g, Top.g)
<1>0. PICK n : n = Len(stack)
  OBVIOUS
<1>1. /\ n \in Nat \ {0} /\ n \in 1 .. n /\ n - 1 \in 1 .. n /\ k \in 1 .. n - 1
      /\ n > 1 /\ Top = stack[n]
  BY <1>0, TopGroup DEF IInv
<1>2. FrameOK(n) /\ FrameOK(n - 1)
  BY <1>0, <1>1 DEF IInv, TypeOK
<1>3. Parent(Top.g) = stack[n - 1].g
  BY <1>1, <1>2 DEF FrameOK
<1>4. Level[Group(stack[k].g).name] <= Level[Group(stack[n - 1].g).name]
  <2>1. \A a \in Supported \cup {"library"} : Level[a] \in 0 .. 6
    BY LevelIsNat
  <2>2. Level[Group(stack[k].g).name] \in 0 .. 6 /\ Level[Group(stack[n - 1].g).name] \in 0 .. 6
    BY <1>0, <1>1, <2>1, TopGroup DEF IInv
  <2>3. CASE k = n - 1
    BY <2>2, <2>3
  <2>4. CASE k # n - 1
    <3>1. k \in 1 .. (n - 1) - 1
      BY <1>1, <2>4
    <3>2. Level[Group(stack[k].g).name] < Level[Group(stack[n - 1].g).name]
      BY <1>2, <3>1 DEF FrameOK
    <3> QED BY <2>2, <3>2
  <2> QED BY <2>3, <2>4
<1> QED BY <1>0, <1>1, <1>3, <1>4, Below DEF Higher

\* Of a group that is left.
LEMMA HomesAfterLeaving ==
  ASSUME file \in LibFiles, IInv, NEW names, Leaves(names),
         UNCHANGED <<file, error>>, DOMAIN builder' = DOMAIN builder,
         \A g : Higher(g, Top.g) => AtHome(g, FALSE)',
         <<Group(Top.g).name, Group(Parent(Top.g)).name>> \in Nesting
           /\ Is(Parent(Top.g), {"library", "cell"}) => NoPorts'
  PROVE  IInv'
<1>0. PICK n : n = Len(stack)
  OBVIOUS
<1>1. /\ error = None /\ stack # << >> /\ n \in Nat \ {0} /\ Top = stack[n]
  BY <1>0, TopGroup DEF Leaves, IInv
<1>2. /\ TypeOK' /\ Len(stack') = n - 1
      /\ \A k \in 1 .. n - 1 : stack'[k].g = stack[k].g
  BY <1>0, Leaving DEF IInv, SameGroups
<1>3. ASSUME NEW k \in 1 .. n - 1 PROVE AtHome(stack[k].g, FALSE)'
  <2>1. stack[k].g = stack'[k].g /\ Higher(stack[k].g, Top.g)
    BY <1>0, <1>1, <1>2, <1>3, BelowTop
  <2>2. PICK g : g = stack[k].g
    OBVIOUS
  <2>3. AtHome(g, FALSE)'
    BY <2>1, <2>2
  <2> QED BY <2>1, <2>2, <2>3
<1>4. ASSUME NEW k \in 1 .. n - 1, k = n - 1 PROVE (AtHome(stack[k].g, TRUE))'
  <2>1. FrameOK(n)
    BY <1>0, <1>1 DEF IInv, TypeOK
  <2>2. Parent(Top.g) = stack[n - 1].g /\ <<Group(Top.g).name, Group(stack[n - 1].g).name>> \in Nesting
    BY <1>1, <1>4, <2>1 DEF FrameOK
  <2>3. PICK g : g = stack'[k].g
    OBVIOUS
  <2>4. g = stack[n - 1].g /\ AtHome(g, FALSE)'
    BY <1>2, <1>3, <1>4, <2>3
  <2>5. Is(g, {"library", "cell"}) => NoPorts'
    BY <2>2, <2>4
  <2>6. AtHome(g, TRUE)'
    BY <2>4, <2>5, OnTop DEF Is, Group
  <2> QED BY <2>3, <2>6
<1> QED BY <1>1, <1>2, <1>3, <1>4 DEF IInv, PointersAtHome

\* Of a group that is entered.
LEMMA HomesAfterEntering ==
  ASSUME file \in LibFiles, IInv, NEW names \in SUBSET Supported, Visits(names), Enters(Visited),
         UNCHANGED <<file, error>>, DOMAIN builder' = DOMAIN builder,
         NEW v, v = Visited,
         \A g : Higher(g, v) => AtHome(g, FALSE)',
         AtHome(v, TRUE)'
  PROVE  IInv'
<1>0. PICK n : n = Len(stack)
  OBVIOUS
<1>1. /\ error = None /\ stack # << >> /\ n \in Nat \ {0} /\ Top = stack[n]
  BY <1>0, TopGroup DEF Visits, At, Reaches, IInv
<1>2. /\ TypeOK' /\ Len(stack') = n + 1 /\ stack'[n + 1].g = v
      /\ \A k \in 1 .. n : stack'[k].g = stack[k].g
  BY <1>0, Entering DEF IInv, SameGroups
<1>3. Parent(v) = Top.g /\ Level[Group(Top.g).name] \in 0 .. 6
  BY <1>0, <1>1, TopGroup, VisitedGroup, LevelIsNat DEF IInv
<1>4. ASSUME NEW k \in 1 .. n PROVE Higher(stack[k].g, v)
  <2>1. stack[k].g \in Groups /\ Group(stack[k].g).name \in Supported \cup {"library"}
    BY <1>0, <1>1, TopGroup DEF IInv
  <2>2. Level[Group(stack[k].g).name] \in 0 .. 6
    BY <2>1, LevelIsNat
  <2>3. CASE k = n
    <3>1. AtHome(Top.g, FALSE)
      BY <1>1, TopAtHome, NotOnTop
    <3>2. stack[k].g = Top.g /\ Level[Group(Top.g).name] <= Level[Group(Top.g).name]
      BY <1>1, <1>3, <2>3
    <3> QED BY <1>1, <1>3, <2>1, <3>1, <3>2 DEF Higher
  <2>4. CASE k # n
    <3>1. k \in 1 .. Len(stack) - 1
      BY <1>0, <1>1, <2>4
    <3>2. Level[Group(stack[k].g).name] < Level[Group(Top.g).name] /\ AtHome(stack[k].g, FALSE)
      BY <1>1, <3>1, Below
    <3>3. Level[Group(stack[k].g).name] <= Level[Group(Top.g).name]
      BY <1>3, <2>2, <3>2
    <3> QED BY <1>3, <2>1, <3>2, <3>3 DEF Higher
  <2> QED BY <2>3, <2>4
<1>5. ASSUME NEW k \in 1 .. n PROVE (AtHome(stack[k].g, FALSE))'
  <2>1. PICK g : g = stack[k].g
    OBVIOUS
  <2>2. Higher(g, v)
    BY <1>4, <2>1
  <2>3. g = stack'[k].g /\ AtHome(g, FALSE)'
    BY <1>2, <2>1, <2>2
  <2> QED BY <2>3
<1>6. ASSUME NEW k \in 1 .. n + 1 PROVE (AtHome(stack[k].g, k = Len(stack)))'
  <2>1. CASE k = n + 1
    <3>1. k = Len(stack') /\ stack'[k].g = v
      BY <1>2, <2>1
    <3> QED BY <3>1
  <2>2. CASE k # n + 1
    <3>1. k \in 1 .. n /\ k # Len(stack') /\ stack'[k].g = stack[k].g
      BY <1>1, <1>2, <2>2
    <3>2. PICK g : g = stack[k].g
      OBVIOUS
    <3>3. AtHome(g, FALSE)'
      BY <1>5, <3>1, <3>2
    <3> QED BY <3>1, <3>2, <3>3
  <2> QED BY <2>1, <2>2
<1> QED BY <1>2, <1>6 DEF IInv, PointersAtHome

\* Of a statement that is no group.
LEMMA HomesAfterAdvancing ==
  ASSUME file \in LibFiles, IInv, error = None, stack # << >>, stack' = Advanced,
         UNCHANGED <<file, builder, error>>
  PROVE  IInv'
<1>0. PICK n : n = Len(stack)
  OBVIOUS
<1>1. TypeOK' /\ Len(stack') = n /\ \A k \in 1 .. n : stack'[k].g = stack[k].g
  BY <1>0, Advancing DEF IInv, SameGroups
<1>2. ASSUME NEW k \in 1 .. n PROVE (AtHome(stack[k].g, k = Len(stack)))'
  <2>1. PICK g : g = stack[k].g
    OBVIOUS
  <2>2. AtHome(g, k = n)
    BY <1>0, <2>1 DEF IInv, PointersAtHome
  <2>3. AtHome(g, k = n)'
    BY <2>2 DEF AtHome, Is, InBus, Home, Portless, Parent, Group, NoPorts
  <2> QED BY <1>1, <2>1, <2>3
<1> QED BY <1>1, <1>2 DEF IInv, PointersAtHome

LEMMA HomesAfterStop ==
  ASSUME IInv, error = None, NEW what, Stop(what) PROVE IInv'
<1>1. UNCHANGED <<file, stack, builder>>
  BY DEF Stop
<1>2. TypeOK'
  <2>1. (DOMAIN builder = DOMAIN LibBuilder /\ stack \in Seq(Frame))'
    BY <1>1 DEF IInv, TypeOK, LibBuilder, Frame
  <2>2. ASSUME NEW k \in 1 .. Len(stack) PROVE FrameOK(k)'
    <3>1. FrameOK(k)
      BY DEF IInv, TypeOK
    <3> QED BY <1>1, <3>1 DEF FrameOK, Is, Group, Groups, Parent, Left, Stmts
  <2> QED BY <1>1, <2>1, <2>2 DEF TypeOK
<1>3. ASSUME NEW k \in 1 .. Len(stack) PROVE (AtHome(stack[k].g, k = Len(stack)))'
  <2>1. AtHome(stack[k].g, k = Len(stack))
    BY DEF IInv, PointersAtHome
  <2> QED BY <1>1, <2>1 DEF AtHome, Is, InBus, Home, Portless, Parent, Group, NoPorts
<1> QED BY <1>1, <1>2, <1>3 DEF IInv, PointersAtHome

-----------------------------------------------------------------------------
\* What is above a group, told by its name.

LEMMA ParentOf ==
  ASSUME NEW a, NEW b, <<a, b>> \in Nesting
  PROVE  /\ a \in {"wire_load", "lu_table_template", "power_lut_template", "type",
                   "output_current_template", "cell"} => b = "library"
         /\ a \in {"leakage_power", "bus", "bundle"} => b = "cell"
         /\ a = "pin" => b \in {"cell", "bus", "bundle"}
         /\ a = "timing" => b \in {"bus", "bundle", "pin"}
         /\ a = "internal_power" => b \in {"cell", "bus", "bundle", "pin"}
         /\ a \in DelayTables \cup CurrentTables => b = "timing"
         /\ a \in PowerTables => b = "internal_power"
         /\ a = "vector" => b \in CurrentTables
  BY DEF Nesting, DelayTables, PowerTables, CurrentTables

LEMMA Levels ==
  /\ Level["library"] = 0 /\ Level["cell"] = 1 /\ Level["bus"] = 2 /\ Level["bundle"] = 2
  /\ Level["pin"] = 3 /\ Level["timing"] = 4 /\ Level["internal_power"] = 4
  /\ \A b \in CurrentTables : Level[b] = 5
  BY DEF Level, Supported, CurrentTables

LEMMA Above ==
  ASSUME NEW v, NEW g, <<Group(v).name, Group(Parent(v)).name>> \in Nesting, Higher(g, v)
  PROVE  /\ Is(v, {"wire_load", "lu_table_template", "power_lut_template", "type",
                   "output_current_template", "cell"}) => Is(g, {"library"})
         /\ Is(v, {"leakage_power", "bus", "bundle"}) => Is(g, {"library", "cell"})
         /\ Is(v, {"pin"}) => Is(g, {"library", "cell", "bus", "bundle"})
         /\ Is(v, {"timing", "internal_power"}) => Is(g, {"library", "cell", "bus", "bundle", "pin"})
         /\ Is(v, DelayTables \cup PowerTables \cup CurrentTables) =>
              Is(g, {"library", "cell", "bus", "bundle", "pin", "timing", "internal_power"})
         /\ Is(v, {"vector"}) => ~Is(g, Objects \cup {"leakage_power"})
<1>1. PICK a, b, c : a = Group(g).name /\ b = Group(Parent(v)).name /\ c = Group(v).name
  OBVIOUS
<1>2. /\ a \in Supported \cup {"library"} /\ Level[a] \in 0 .. 6 /\ Level[a] <= Level[b]
      /\ <<c, b>> \in Nesting
  BY <1>1, LevelIsNat DEF Higher
<1>3. /\ b = "library" => Level[a] < 1
      /\ b = "cell" => Level[a] < 2
      /\ b \in {"cell", "bus", "bundle"} => Level[a] < 3
      /\ b \in {"cell", "bus", "bundle", "pin"} => Level[a] < 4
      /\ b \in {"timing", "internal_power"} => Level[a] < 5
      /\ b \in CurrentTables => Level[a] < 6
  BY <1>2, Levels
<1>4. /\ c \in {"wire_load", "lu_table_template", "power_lut_template", "type",
                "output_current_template", "cell"} => b = "library"
      /\ c \in {"leakage_power", "bus", "bundle"} => b = "cell"
      /\ c = "pin" => b \in {"cell", "bus", "bundle"}
      /\ c = "timing" => b \in {"bus", "bundle", "pin"}
      /\ c = "internal_power" => b \in {"cell", "bus", "bundle", "pin"}
      /\ c \in DelayTables \cup CurrentTables => b = "timing"
      /\ c \in PowerTables => b = "internal_power"
      /\ c = "vector" => b \in CurrentTables
  BY <1>2, ParentOf, Zenon
<1>5. /\ Level[a] < 1 => a = "library"
      /\ Level[a] < 2 => a \in {"library", "cell"}
      /\ Level[a] < 3 => a \in {"library", "cell", "bus", "bundle"}
      /\ Level[a] < 4 => a \in {"library", "cell", "bus", "bundle", "pin"}
      /\ Level[a] < 5 => a \in {"library", "cell", "bus", "bundle", "pin", "timing", "internal_power"}
      /\ Level[a] < 6 => a \notin Objects \cup {"leakage_power"}
  BY <1>2, Shallow, Zenon
<1> QED BY <1>1, <1>3, <1>4, <1>5 DEF Is

-----------------------------------------------------------------------------
\* Entering a group sets its pointers and none of a group around it.

\* What every handler that enters a group finds.
LEMMA OnEntering ==
  ASSUME file \in LibFiles, IInv, NEW names \in SUBSET Supported, Visits(names),
         NEW v, v = Visited, NEW p, p = Parent(v)
  PROVE  /\ error = None /\ stack # << >> /\ v \in Nat /\ p \in Nat
         /\ Is(v, names) /\ <<Group(v).name, Group(p).name>> \in Nesting
         /\ AtHome(p, TRUE)
<1>1. /\ stack # << >> /\ v \in Groups /\ p = Top.g /\ Group(v).name \in names
      /\ <<Group(v).name, Group(p).name>> \in Nesting
  BY VisitedGroup DEF IInv
<1>2. error = None
  BY DEF Visits, At, Reaches
<1>3. Top.g \in Groups
  BY <1>1, TopGroup DEF IInv
<1> QED BY <1>1, <1>2, <1>3, GroupsOfFile, TopAtHome DEF Is

LEMMA EnteringWireLoad ==
  ASSUME file \in LibFiles, IInv, visitWireLoad PROVE IInv'
<1>1. PICK v, p : v = Visited /\ p = Parent(v)
  OBVIOUS
<1>2. Visits({"wire_load"}) /\ {"wire_load"} \in SUBSET Supported
  BY Zenon DEF visitWireLoad, Supported
<1>3. /\ builder' = [builder EXCEPT !.obj = <<v, 1>>]
      /\ Enters(Visited) /\ UNCHANGED <<file, error>>
  BY <1>1, Zenon DEF visitWireLoad, Opens
<1>4. /\ DOMAIN builder' = DOMAIN builder
      /\ builder'.obj = <<v, 1>>
  BY <1>3 DEF IInv, TypeOK, LibBuilder
<1>5. /\ error = None /\ Is(v, {"wire_load"}) /\ AtHome(p, TRUE)
      /\ <<Group(v).name, Group(p).name>> \in Nesting
  BY <1>1, <1>2, OnEntering
<1>6. Is(p, {"library"})
  BY <1>5, ParentOf DEF Is
<1>7. AtHome(v, TRUE)'
  BY <1>1, <1>3, <1>4, <1>5, <1>6
     DEF AtHome, Is, Group, Parent, NoPorts, IInv, TypeOK, LibBuilder
<1>8. ASSUME NEW g, Higher(g, v) PROVE AtHome(g, FALSE)'
  <2>1. Is(g, {"library"}) /\ AtHome(g, FALSE)
    BY <1>1, <1>5, <1>8, Above DEF Is, Higher
  <2> QED BY <1>3, <1>4, <2>1
          DEF AtHome, Is, Group, Parent, InBus, Home, Portless, NoPorts, IInv, TypeOK, LibBuilder,
              Objects, DelayTables, PowerTables
<1> QED BY <1>1, <1>2, <1>3, <1>4, <1>7, <1>8, HomesAfterEntering

LEMMA EnteringLuTableTemplate ==
  ASSUME file \in LibFiles, IInv, visitLuTableTemplate PROVE IInv'
<1>1. PICK v, p : v = Visited /\ p = Parent(v)
  OBVIOUS
<1>2. Visits({"lu_table_template", "power_lut_template"}) /\ {"lu_table_template", "power_lut_template"} \in SUBSET Supported
  BY Zenon DEF visitLuTableTemplate, Supported
<1>3. /\ builder' = [builder EXCEPT !.port = None, !.obj = <<v, 1>>]
      /\ Enters(Visited) /\ UNCHANGED <<file, error>>
  BY <1>1, Zenon DEF visitLuTableTemplate, Opens
<1>4. /\ DOMAIN builder' = DOMAIN builder
      /\ builder'.port = None
      /\ builder'.obj = <<v, 1>>
  BY <1>3 DEF IInv, TypeOK, LibBuilder
<1>5. /\ error = None /\ Is(v, {"lu_table_template", "power_lut_template"}) /\ AtHome(p, TRUE)
      /\ <<Group(v).name, Group(p).name>> \in Nesting
  BY <1>1, <1>2, OnEntering
<1>6. Is(p, {"library"})
  BY <1>5, ParentOf DEF Is
<1>7. AtHome(v, TRUE)'
  BY <1>1, <1>3, <1>4, <1>5, <1>6
     DEF AtHome, Is, Group, Parent, NoPorts, IInv, TypeOK, LibBuilder
<1>8. ASSUME NEW g, Higher(g, v) PROVE AtHome(g, FALSE)'
  <2>1. Is(g, {"library"}) /\ AtHome(g, FALSE)
    BY <1>1, <1>5, <1>8, Above DEF Is, Higher
  <2> QED BY <1>3, <1>4, <2>1
          DEF AtHome, Is, Group, Parent, InBus, Home, Portless, NoPorts, IInv, TypeOK, LibBuilder,
              Objects, DelayTables, PowerTables
<1> QED BY <1>1, <1>2, <1>3, <1>4, <1>7, <1>8, HomesAfterEntering

LEMMA EnteringCurrentTemplate ==
  ASSUME file \in LibFiles, IInv, visitOutputCurrentTemplate PROVE IInv'
<1>1. PICK v, p : v = Visited /\ p = Parent(v)
  OBVIOUS
<1>2. Visits({"output_current_template"}) /\ {"output_current_template"} \in SUBSET Supported
  BY Zenon DEF visitOutputCurrentTemplate, Supported
<1>3. /\ builder' = [builder EXCEPT !.obj = <<v, 1>>]
      /\ Enters(Visited) /\ UNCHANGED <<file, error>>
  BY <1>1, Zenon DEF visitOutputCurrentTemplate, Opens
<1>4. /\ DOMAIN builder' = DOMAIN builder
      /\ builder'.obj = <<v, 1>>
  BY <1>3 DEF IInv, TypeOK, LibBuilder
<1>5. /\ error = None /\ Is(v, {"output_current_template"}) /\ AtHome(p, TRUE)
      /\ <<Group(v).name, Group(p).name>> \in Nesting
  BY <1>1, <1>2, OnEntering
<1>6. Is(p, {"library"})
  BY <1>5, ParentOf DEF Is
<1>7. AtHome(v, TRUE)'
  BY <1>1, <1>3, <1>4, <1>5, <1>6
     DEF AtHome, Is, Group, Parent, NoPorts, IInv, TypeOK, LibBuilder
<1>8. ASSUME NEW g, Higher(g, v) PROVE AtHome(g, FALSE)'
  <2>1. Is(g, {"library"}) /\ AtHome(g, FALSE)
    BY <1>1, <1>5, <1>8, Above DEF Is, Higher
  <2> QED BY <1>3, <1>4, <2>1
          DEF AtHome, Is, Group, Parent, InBus, Home, Portless, NoPorts, IInv, TypeOK, LibBuilder,
              Objects, DelayTables, PowerTables
<1> QED BY <1>1, <1>2, <1>3, <1>4, <1>7, <1>8, HomesAfterEntering

LEMMA EnteringType ==
  ASSUME file \in LibFiles, IInv, visitType PROVE IInv'
<1>1. PICK v, p : v = Visited /\ p = Parent(v)
  OBVIOUS
<1>2. Visits({"type"}) /\ {"type"} \in SUBSET Supported
  BY Zenon DEF visitType, Supported
<1>3. /\ builder' = [builder EXCEPT !.port = None, !.obj = <<v, 1>>]
      /\ Enters(Visited) /\ UNCHANGED <<file, error>>
  BY <1>1, Zenon DEF visitType, Opens
<1>4. /\ DOMAIN builder' = DOMAIN builder
      /\ builder'.port = None
      /\ builder'.obj = <<v, 1>>
  BY <1>3 DEF IInv, TypeOK, LibBuilder
<1>5. /\ error = None /\ Is(v, {"type"}) /\ AtHome(p, TRUE)
      /\ <<Group(v).name, Group(p).name>> \in Nesting
  BY <1>1, <1>2, OnEntering
<1>6. Is(p, {"library"})
  BY <1>5, ParentOf DEF Is
<1>7. AtHome(v, TRUE)'
  BY <1>1, <1>3, <1>4, <1>5, <1>6
     DEF AtHome, Is, Group, Parent, NoPorts, IInv, TypeOK, LibBuilder
<1>8. ASSUME NEW g, Higher(g, v) PROVE AtHome(g, FALSE)'
  <2>1. Is(g, {"library"}) /\ AtHome(g, FALSE)
    BY <1>1, <1>5, <1>8, Above DEF Is, Higher
  <2> QED BY <1>3, <1>4, <2>1
          DEF AtHome, Is, Group, Parent, InBus, Home, Portless, NoPorts, IInv, TypeOK, LibBuilder,
              Objects, DelayTables, PowerTables
<1> QED BY <1>1, <1>2, <1>3, <1>4, <1>7, <1>8, HomesAfterEntering

LEMMA EnteringCell ==
  ASSUME file \in LibFiles, IInv, visitCell PROVE IInv'
<1>1. PICK v, p : v = Visited /\ p = Parent(v)
  OBVIOUS
<1>2. Visits({"cell"}) /\ {"cell"} \in SUBSET Supported
  BY Zenon DEF visitCell, Supported
<1>3. /\ builder' = [builder EXCEPT !.obj = <<v, 1>>, !.cell = <<v, 1>>]
      /\ Enters(Visited) /\ UNCHANGED <<file, error>>
  BY <1>1, Zenon DEF visitCell, Opens
<1>4. /\ DOMAIN builder' = DOMAIN builder
      /\ builder'.obj = <<v, 1>>
      /\ builder'.cell = <<v, 1>>
  BY <1>3 DEF IInv, TypeOK, LibBuilder
<1>5. /\ error = None /\ Is(v, {"cell"}) /\ AtHome(p, TRUE)
      /\ <<Group(v).name, Group(p).name>> \in Nesting
  BY <1>1, <1>2, OnEntering
<1>6. Is(p, {"library"})
  BY <1>5, ParentOf DEF Is
<1>7. AtHome(v, TRUE)'
  BY <1>1, <1>3, <1>4, <1>5, <1>6
     DEF AtHome, Is, Group, Parent, NoPorts, IInv, TypeOK, LibBuilder, Objects, DelayTables, PowerTables
<1>8. ASSUME NEW g, Higher(g, v) PROVE AtHome(g, FALSE)'
  <2>1. Is(g, {"library"}) /\ AtHome(g, FALSE)
    BY <1>1, <1>5, <1>8, Above DEF Is, Higher
  <2> QED BY <1>3, <1>4, <2>1
          DEF AtHome, Is, Group, Parent, InBus, Home, Portless, NoPorts, IInv, TypeOK, LibBuilder,
              Objects, DelayTables, PowerTables
<1> QED BY <1>1, <1>2, <1>3, <1>4, <1>7, <1>8, HomesAfterEntering

LEMMA EnteringLeakagePower ==
  ASSUME file \in LibFiles, IInv, visitLeakagePower PROVE IInv'
<1>1. PICK v, p : v = Visited /\ p = Parent(v)
  OBVIOUS
<1>2. Visits({"leakage_power"}) /\ {"leakage_power"} \in SUBSET Supported
  BY Zenon DEF visitLeakagePower, Supported
<1>3. /\ builder' = [builder EXCEPT !.obj = <<v, 1>>, !.leakage_power = <<v, 1>>,
                            !.own_pg_or_when_type = "leakage_power"]
      /\ Enters(Visited) /\ UNCHANGED <<file, error>>
  BY <1>1, Zenon DEF visitLeakagePower, Opens
<1>4. /\ DOMAIN builder' = DOMAIN builder
      /\ builder'.obj = <<v, 1>>
      /\ builder'.leakage_power = <<v, 1>>
      /\ builder'.own_pg_or_when_type = "leakage_power"
  BY <1>3 DEF IInv, TypeOK, LibBuilder
<1>5. /\ error = None /\ Is(v, {"leakage_power"}) /\ AtHome(p, TRUE)
      /\ <<Group(v).name, Group(p).name>> \in Nesting
  BY <1>1, <1>2, OnEntering
<1>6. Is(p, {"cell"})
  BY <1>5, ParentOf DEF Is
<1>7. AtHome(v, TRUE)'
  BY <1>1, <1>3, <1>4, <1>5, <1>6
     DEF AtHome, Is, Group, Parent, NoPorts, IInv, TypeOK, LibBuilder
<1>8. ASSUME NEW g, Higher(g, v) PROVE AtHome(g, FALSE)'
  <2>1. Is(g, {"library", "cell"}) /\ AtHome(g, FALSE)
    BY <1>1, <1>5, <1>8, Above DEF Is, Higher
  <2> QED BY <1>3, <1>4, <2>1
          DEF AtHome, Is, Group, Parent, InBus, Home, Portless, NoPorts, IInv, TypeOK, LibBuilder,
              Objects, DelayTables, PowerTables
<1> QED BY <1>1, <1>2, <1>3, <1>4, <1>7, <1>8, HomesAfterEntering

LEMMA EnteringBus ==
  ASSUME file \in LibFiles, IInv, visitBus PROVE IInv'
<1>1. PICK v, p : v = Visited /\ p = Parent(v)
  OBVIOUS
<1>2. Visits({"bus", "bundle"}) /\ {"bus", "bundle"} \in SUBSET Supported
  BY Zenon DEF visitBus, Supported
<1>3. /\ builder' = [builder EXCEPT !.obj = <<v, 1>>, !.port = <<v, 1>>,
                            !.port_bus = <<v, 1>>]
      /\ Enters(Visited) /\ UNCHANGED <<file, error>>
  BY <1>1, Zenon DEF visitBus, Opens
<1>4. /\ DOMAIN builder' = DOMAIN builder
      /\ builder'.obj = <<v, 1>>
      /\ builder'.port = <<v, 1>>
      /\ builder'.port_bus = <<v, 1>>
  BY <1>3 DEF IInv, TypeOK, LibBuilder
<1>5. /\ error = None /\ Is(v, {"bus", "bundle"}) /\ AtHome(p, TRUE)
      /\ <<Group(v).name, Group(p).name>> \in Nesting
  BY <1>1, <1>2, OnEntering
<1>6. Is(p, {"cell"})
  BY <1>5, ParentOf DEF Is
<1>7. AtHome(v, TRUE)'
  BY <1>1, <1>3, <1>4, <1>5, <1>6
     DEF AtHome, Is, Group, Parent, NoPorts, IInv, TypeOK, LibBuilder, Objects, DelayTables, PowerTables
<1>8. ASSUME NEW g, Higher(g, v) PROVE AtHome(g, FALSE)'
  <2>1. Is(g, {"library", "cell"}) /\ AtHome(g, FALSE)
    BY <1>1, <1>5, <1>8, Above DEF Is, Higher
  <2> QED BY <1>3, <1>4, <2>1
          DEF AtHome, Is, Group, Parent, InBus, Home, Portless, NoPorts, IInv, TypeOK, LibBuilder,
              Objects, DelayTables, PowerTables
<1> QED BY <1>1, <1>2, <1>3, <1>4, <1>7, <1>8, HomesAfterEntering

LEMMA EnteringTiming ==
  ASSUME file \in LibFiles, IInv, visitTiming PROVE IInv'
<1>1. PICK v, p : v = Visited /\ p = Parent(v)
  OBVIOUS
<1>2. Visits({"timing"}) /\ {"timing"} \in SUBSET Supported
  BY Zenon DEF visitTiming, Supported
<1>3. /\ error = None /\ Is(v, {"timing"}) /\ AtHome(p, TRUE)
      /\ <<Group(v).name, Group(p).name>> \in Nesting
  BY <1>1, <1>2, OnEntering
<1>4. CASE Stop("null pointer")
  BY <1>3, <1>4, HomesAfterStop
<1>5. CASE /\ builder' = [builder EXCEPT !.obj = None, !.arc = <<v, 1>>,
                                 !.table_model = None, !.own_port_type = "arc"]
           /\ Enters(Visited) /\ UNCHANGED <<file, error>>
  <2>1. /\ DOMAIN builder' = DOMAIN builder
        /\ builder'.obj = None
        /\ builder'.arc = <<v, 1>>
        /\ builder'.table_model = None
        /\ builder'.own_port_type = "arc"
    BY <1>5 DEF IInv, TypeOK, LibBuilder
  <2>2. Is(p, {"bus", "bundle", "pin"})
    BY <1>3, ParentOf DEF Is
  <2>3. AtHome(v, TRUE)'
    BY <1>1, <1>3, <1>5, <2>1, <2>2
       DEF AtHome, Is, Group, Parent, NoPorts, IInv, TypeOK, LibBuilder, Objects, DelayTables, PowerTables
  <2>4. ASSUME NEW g, Higher(g, v) PROVE AtHome(g, FALSE)'
    <3>1. Is(g, {"library", "cell", "bus", "bundle", "pin"}) /\ AtHome(g, FALSE)
      BY <1>1, <1>3, <2>4, Above DEF Is, Higher
    <3> QED BY <1>5, <2>1, <3>1
            DEF AtHome, Is, Group, Parent, InBus, Home, Portless, NoPorts, IInv, TypeOK, LibBuilder,
                Objects, DelayTables, PowerTables
  <2> QED BY <1>1, <1>2, <1>5, <2>1, <2>3, <2>4, HomesAfterEntering
<1> QED BY <1>1, <1>4, <1>5, Zenon DEF visitTiming, Opens

LEMMA EnteringInternalPower ==
  ASSUME file \in LibFiles, IInv, visitInternalPower PROVE IInv'
<1>1. PICK v, p : v = Visited /\ p = Parent(v)
  OBVIOUS
<1>2. Visits({"internal_power"}) /\ {"internal_power"} \in SUBSET Supported
  BY Zenon DEF visitInternalPower, Supported
<1>3. /\ builder' = [builder EXCEPT !.obj = None, !.power_arc = <<v, 1>>,
                            !.table_model = None, !.own_port_type = "power_arc",
                            !.own_pg_or_when_type = "power_arc"]
      /\ Enters(Visited) /\ UNCHANGED <<file, error>>
  BY <1>1, Zenon DEF visitInternalPower, Opens
<1>4. /\ DOMAIN builder' = DOMAIN builder
      /\ builder'.obj = None
      /\ builder'.power_arc = <<v, 1>>
      /\ builder'.table_model = None
      /\ builder'.own_port_type = "power_arc"
      /\ builder'.own_pg_or_when_type = "power_arc"
  BY <1>3 DEF IInv, TypeOK, LibBuilder
<1>5. /\ error = None /\ Is(v, {"internal_power"}) /\ AtHome(p, TRUE)
      /\ <<Group(v).name, Group(p).name>> \in Nesting
  BY <1>1, <1>2, OnEntering
<1>6. Is(p, {"cell", "bus", "bundle", "pin"})
  BY <1>5, ParentOf DEF Is
<1>7. AtHome(v, TRUE)'
  BY <1>1, <1>3, <1>4, <1>5, <1>6
     DEF AtHome, Is, Group, Parent, NoPorts, IInv, TypeOK, LibBuilder, Objects, DelayTables, PowerTables
<1>8. ASSUME NEW g, Higher(g, v) PROVE AtHome(g, FALSE)'
  <2>1. Is(g, {"library", "cell", "bus", "bundle", "pin"}) /\ AtHome(g, FALSE)
    BY <1>1, <1>5, <1>8, Above DEF Is, Higher
  <2> QED BY <1>3, <1>4, <2>1
          DEF AtHome, Is, Group, Parent, InBus, Home, Portless, NoPorts, IInv, TypeOK, LibBuilder,
              Objects, DelayTables, PowerTables
<1> QED BY <1>1, <1>2, <1>3, <1>4, <1>7, <1>8, HomesAfterEntering

LEMMA EnteringCurrentTable ==
  ASSUME file \in LibFiles, IInv, visitCurrentTable PROVE IInv'
<1>1. PICK v, p : v = Visited /\ p = Parent(v)
  OBVIOUS
<1>2. Visits(CurrentTables) /\ CurrentTables \in SUBSET Supported
  BY Zenon DEF visitCurrentTable, Supported
<1>3. /\ builder' = [builder EXCEPT !.current_table = <<v, 1>>]
      /\ Enters(Visited) /\ UNCHANGED <<file, error>>
  BY <1>1, Zenon DEF visitCurrentTable, Opens
<1>4. /\ DOMAIN builder' = DOMAIN builder
      /\ builder'.current_table = <<v, 1>>
  BY <1>3 DEF IInv, TypeOK, LibBuilder
<1>5. /\ error = None /\ Is(v, CurrentTables) /\ AtHome(p, TRUE)
      /\ <<Group(v).name, Group(p).name>> \in Nesting
  BY <1>1, <1>2, OnEntering
<1>6. Is(p, {"timing"})
  BY <1>5, ParentOf DEF Is
<1>7. AtHome(v, TRUE)'
  BY <1>1, <1>3, <1>4, <1>5, <1>6
     DEF AtHome, Is, Group, Parent, NoPorts, IInv, TypeOK, LibBuilder, Objects, DelayTables, PowerTables, CurrentTables
<1>8. ASSUME NEW g, Higher(g, v) PROVE AtHome(g, FALSE)'
  <2>1. Is(g, {"library", "cell", "bus", "bundle", "pin", "timing", "internal_power"}) /\ AtHome(g, FALSE)
    BY <1>1, <1>5, <1>8, Above DEF Is, Higher
  <2> QED BY <1>3, <1>4, <2>1
          DEF AtHome, Is, Group, Parent, InBus, Home, Portless, NoPorts, IInv, TypeOK, LibBuilder,
              Objects, DelayTables, PowerTables, Objects, DelayTables, PowerTables, CurrentTables
<1> QED BY <1>1, <1>2, <1>3, <1>4, <1>7, <1>8, HomesAfterEntering

\* A pin of a bus becomes no current port, any other does.
LEMMA EnteringPin ==
  ASSUME file \in LibFiles, IInv, visitPin PROVE IInv'
<1>1. PICK v, p : v = Visited /\ p = Parent(v)
  OBVIOUS
<1>2. Visits({"pin"}) /\ {"pin"} \in SUBSET Supported
  BY Zenon DEF visitPin, Supported
<1>3. /\ \/ /\ builder.port_bus = None
            /\ LET last == <<v, Len(Group(v).names)>>
               IN  builder' = IF Group(v).names = << >> THEN builder
                              ELSE [builder EXCEPT !.obj = last, !.port = last]
         \/ builder.port_bus # None /\ UNCHANGED builder
      /\ Enters(Visited) /\ UNCHANGED <<file, error>>
  BY <1>1, Zenon DEF visitPin
<1>4. /\ error = None /\ Is(v, {"pin"}) /\ AtHome(p, TRUE) /\ p \in Nat
      /\ <<Group(v).name, Group(p).name>> \in Nesting
  BY <1>1, <1>2, OnEntering
<1>5. Is(p, {"cell", "bus", "bundle"})
  BY <1>4, ParentOf DEF Is
<1>6. CASE Is(p, {"cell"})
  <2>1. builder.port_bus = None
    BY <1>4, <1>6 DEF AtHome, NoPorts
  <2>2. ~InBus(v)
    BY <1>1, <1>6 DEF InBus, Is
  <2>3. /\ DOMAIN builder' = DOMAIN builder
        /\ builder'.port = IF Group(v).names = << >> THEN None ELSE <<v, Len(Group(v).names)>>
        /\ builder'.port_bus = None /\ builder'.cell = builder.cell
    <3>1. builder.port = None
      BY <1>4, <1>6 DEF AtHome, NoPorts
    <3>2. CASE Group(v).names = << >>
      BY <1>3, <2>1, <3>1, <3>2
    <3>3. CASE Group(v).names # << >>
      BY <1>3, <2>1, <3>3 DEF IInv, TypeOK, LibBuilder
    <3> QED BY <3>2, <3>3
  <2>4. AtHome(v, TRUE)'
    BY <1>3, <1>4, <2>2, <2>3
       DEF AtHome, Is, Group, Parent, InBus, Home, Portless, Objects, DelayTables, PowerTables
  <2>5. ASSUME NEW g, Higher(g, v) PROVE AtHome(g, FALSE)'
    <3>1. Level[Group(g).name] <= Level["cell"] /\ Group(g).name \in Supported \cup {"library"}
      BY <1>1, <1>6, <2>5 DEF Higher, Is
    <3>2. Is(g, {"library", "cell"})
      BY <3>1, Levels, LevelIsNat, Shallow DEF Is
    <3>3. AtHome(g, FALSE)
      BY <2>5 DEF Higher
    <3> QED BY <1>3, <2>3, <3>2, <3>3
            DEF AtHome, Is, Group, Parent, NoPorts, IInv, TypeOK, LibBuilder,
                Objects, DelayTables, PowerTables
  <2> QED BY <1>1, <1>2, <1>3, <2>3, <2>4, <2>5, HomesAfterEntering
<1>7. CASE Is(p, {"bus", "bundle"})
  <2>1. builder.port_bus # None
    <3>1. builder.port_bus = <<p, 1>> /\ <<p, 1>> \in Nat \X Nat
      BY <1>4, <1>7 DEF AtHome
    <3> QED BY <3>1, NoneAssumption
  <2>2. InBus(v)
    BY <1>1, <1>4, <1>7 DEF InBus
  <2>3. UNCHANGED builder
    BY <1>3, <2>1
  <2>4. AtHome(v, TRUE)'
    BY <1>1, <1>3, <1>4, <1>7, <2>2
       DEF AtHome, Is, Group, Parent, InBus, Objects, DelayTables, PowerTables
  <2>5. ASSUME NEW g, Higher(g, v) PROVE AtHome(g, FALSE)'
    BY <1>3, <2>3, <2>5 DEF Higher, AtHome, Is, Group, Parent, InBus, Home, Portless, NoPorts
  <2> QED BY <1>1, <1>2, <1>3, <2>3, <2>4, <2>5, HomesAfterEntering
<1> QED BY <1>5, <1>6, <1>7 DEF Is

\* What visitTable and visitPowerTable share.
LEMMA EnteringTable ==
  ASSUME file \in LibFiles, IInv, NEW names \in {DelayTables, PowerTables}, Visits(names),
         NEW m, NEW kind, NEW owner, NEW field, AddsTable(m, kind, owner, field)
  PROVE  IInv'
<1>1. PICK v, p : v = Visited /\ p = Parent(v)
  OBVIOUS
<1>2. names \in SUBSET Supported
  BY Zenon DEF Supported
<1>3. /\ builder' = [builder EXCEPT !.obj = <<v, 1>>, !.table_model = m]
      /\ Enters(Visited) /\ UNCHANGED <<file, error>>
  BY <1>1, Zenon DEF AddsTable
<1>4. DOMAIN builder' = DOMAIN builder /\ builder'.obj = <<v, 1>>
  BY <1>3 DEF IInv, TypeOK, LibBuilder
<1>5. /\ error = None /\ Is(v, names) /\ AtHome(p, TRUE)
      /\ <<Group(v).name, Group(p).name>> \in Nesting
  BY <1>1, <1>2, OnEntering
<1>6. Is(p, {"timing", "internal_power"})
  BY <1>5, ParentOf DEF Is
<1>7. AtHome(v, TRUE)'
  BY <1>1, <1>3, <1>4, <1>5, <1>6 DEF AtHome, Is, Group, Parent, DelayTables, PowerTables
<1>8. ASSUME NEW g, Higher(g, v) PROVE AtHome(g, FALSE)'
  <2>1. Is(v, DelayTables \cup PowerTables \cup CurrentTables)
    BY <1>5 DEF Is
  <2>2. /\ Is(g, {"library", "cell", "bus", "bundle", "pin", "timing", "internal_power"})
        /\ AtHome(g, FALSE)
    BY <1>1, <1>5, <1>8, <2>1, Above DEF Higher
  <2> QED BY <1>3, <1>4, <2>2
          DEF AtHome, Is, Group, Parent, InBus, Home, Portless, NoPorts, IInv, TypeOK, LibBuilder,
              Objects, DelayTables, PowerTables
<1> QED BY <1>1, <1>2, <1>3, <1>4, <1>7, <1>8, HomesAfterEntering

LEMMA EnteringTables ==
  ASSUME file \in LibFiles, IInv, visitTable \/ visitPowerTable PROVE IInv'
<1>1. CASE visitTable
  <2>1. Visits(DelayTables) /\ error = None
    BY <1>1, Zenon DEF visitTable, Visits, At, Reaches
  <2>2. \/ Stop("out of bounds")
        \/ \E m, kind, owner, field : AddsTable(m, kind, owner, field)
    BY <1>1, Zenon DEF visitTable
  <2> QED BY <2>1, <2>2, EnteringTable, HomesAfterStop
<1>2. CASE visitPowerTable
  <2>1. Visits(PowerTables)
    BY <1>2, Zenon DEF visitPowerTable
  <2>2. \E m, kind, owner, field : AddsTable(m, kind, owner, field)
    BY <1>2, Zenon DEF visitPowerTable
  <2> QED BY <2>1, <2>2, EnteringTable
<1> QED BY <1>1, <1>2

LEMMA EnteringVector ==
  ASSUME file \in LibFiles, IInv, visitVector PROVE IInv'
<1>1. PICK v, p : v = Visited /\ p = Parent(v)
  OBVIOUS
<1>2. Visits({"vector"}) /\ {"vector"} \in SUBSET Supported
  BY Zenon DEF visitVector, Supported
<1>3. /\ error = None /\ Is(v, {"vector"}) /\ <<Group(v).name, Group(p).name>> \in Nesting
  BY <1>1, <1>2, OnEntering
<1>4. CASE Stop("fatal")
  BY <1>3, <1>4, HomesAfterStop
<1>5. CASE /\ builder' = [builder EXCEPT !.obj = <<v, 1>>]
           /\ Enters(Visited) /\ UNCHANGED <<file, error>>
  <2>1. DOMAIN builder' = DOMAIN builder /\ builder'.obj = <<v, 1>>
    BY <1>5 DEF IInv, TypeOK, LibBuilder
  <2>2. Is(p, CurrentTables)
    BY <1>3, ParentOf DEF Is
  <2>3. AtHome(v, TRUE)'
    BY <1>1, <1>3, <1>5, <2>1, <2>2 DEF AtHome, Is, Group, Parent, CurrentTables
  <2>4. ASSUME NEW g, Higher(g, v) PROVE AtHome(g, FALSE)'
    <3>1. ~Is(g, Objects \cup {"leakage_power"}) /\ AtHome(g, FALSE)
      BY <1>1, <1>3, <2>4, Above DEF Higher
    <3> QED BY <1>5, <3>1
            DEF AtHome, Is, Group, Parent, InBus, Home, Portless, NoPorts, IInv, TypeOK, LibBuilder
  <2> QED BY <1>1, <1>2, <1>5, <2>1, <2>3, <2>4, HomesAfterEntering
<1> QED BY <1>1, <1>4, <1>5, Zenon DEF visitVector, Opens

\* The library is entered once, before any pointer is set.
Begun == builder # LibBuilder \/ stack # << >> => Library \in DOMAIN kinds

LEMMA EnteringLibrary ==
  ASSUME file \in LibFiles, IInv, Begun, visitLibrary PROVE IInv'
<1>1. /\ error = None /\ kinds = << >> /\ stack' = <<[g |-> 1, left |-> Left(1)]>>
      /\ UNCHANGED <<file, builder, error>>
  BY Zenon DEF visitLibrary
<1>2. builder = LibBuilder
  BY <1>1 DEF Begun
<1>3. NoPorts
  BY <1>2 DEF NoPorts, LibBuilder
<1>4. 1 \in Groups /\ Group(1).name = "library" /\ Left(1) \in SUBSET Nat
  BY GroupsOfFile DEF Left
<1> DEFINE frame == [g |-> 1, left |-> Left(1)]
<1>5. frame \in Frame
  BY <1>4 DEF Frame
<1>6. stack' \in Seq(Frame) /\ Len(stack') = 1 /\ stack'[1] = frame
  BY <1>1, <1>5
<1>7. FrameOK(1)'
  BY <1>1, <1>4, <1>6 DEF FrameOK, Is, Group, Groups, Parent, Left, Stmts
<1>8. AtHome(1, TRUE)'
  BY <1>1, <1>3, <1>4
     DEF AtHome, Is, Group, NoPorts, Objects, DelayTables, PowerTables
<1>9. TypeOK'
  BY <1>1, <1>2, <1>6, <1>7 DEF TypeOK
<1>10. ASSUME NEW k \in 1 .. Len(stack') PROVE (AtHome(stack[k].g, k = Len(stack)))'
  <2>1. k = Len(stack') /\ stack'[k].g = 1
    BY <1>6
  <2> QED BY <1>8, <2>1
<1> QED BY <1>9, <1>10 DEF IInv, PointersAtHome

-----------------------------------------------------------------------------
\* Leaving a group resets pointers of its own only, and on the way back to a
\* library or a cell no port is left.

\* What every handler that leaves a group finds.
LEMMA OnLeaving ==
  ASSUME file \in LibFiles, IInv, NEW names, Leaves(names), "library" \notin names,
         NEW t, t = Top.g, NEW p, p = Parent(t)
  PROVE  /\ Is(t, names) /\ <<Group(t).name, Group(p).name>> \in Nesting
         /\ AtHome(t, TRUE)
<1>0. PICK n : n = Len(stack)
  OBVIOUS
<1>1. error = None /\ stack # << >> /\ Group(t).name \in names
  BY DEF Leaves
<1>2. n \in Nat \ {0} /\ n \in 1 .. n /\ t = stack[n].g
  BY <1>0, <1>1, TopGroup DEF IInv
<1>3. FrameOK(n)
  BY <1>0, <1>2 DEF IInv, TypeOK
<1>4. n # 1
  <2>1. n = 1 => Group(t).name = "library"
    BY <1>2, <1>3, GroupsOfFile DEF FrameOK
  <2> QED BY <1>1, <2>1
<1>5. <<Group(t).name, Group(p).name>> \in Nesting
  BY <1>2, <1>3, <1>4 DEF FrameOK
<1> QED BY <1>1, <1>5, TopAtHome DEF Is

LEMMA LeavingWireLoad ==
  ASSUME file \in LibFiles, IInv, leaveWireLoad PROVE IInv'
<1>1. PICK t, p : t = Top.g /\ p = Parent(t)
  OBVIOUS
<1>2. /\ Leaves({"wire_load"})
      /\ builder' = [builder EXCEPT !.obj = None]
      /\ UNCHANGED <<file, error>>
  BY Zenon DEF leaveWireLoad, Closes
<1>3. /\ DOMAIN builder' = DOMAIN builder
      /\ builder'.obj = None
  BY <1>2 DEF IInv, TypeOK, LibBuilder
<1>4. /\ Is(t, {"wire_load"}) /\ AtHome(t, TRUE)
      /\ <<Group(t).name, Group(p).name>> \in Nesting
  BY <1>1, <1>2, OnLeaving
<1>5. Is(p, {"library"})
  BY <1>4, ParentOf DEF Is
<1>6. Is(p, {"library", "cell"}) => NoPorts'
  BY <1>1, <1>2, <1>3, <1>4, <1>5
     DEF AtHome, Is, InBus, NoPorts, IInv, TypeOK, LibBuilder
<1>7. ASSUME NEW g, Higher(g, t) PROVE AtHome(g, FALSE)'
  <2>1. Is(g, {"library"}) /\ AtHome(g, FALSE)
    BY <1>1, <1>4, <1>7, Above DEF Is, Higher
  <2> QED BY <1>2, <1>3, <2>1
          DEF AtHome, Is, Group, Parent, InBus, Home, Portless, NoPorts, IInv, TypeOK, LibBuilder,
              Objects, DelayTables, PowerTables
<1> QED BY <1>1, <1>2, <1>3, <1>6, <1>7, HomesAfterLeaving

LEMMA LeavingTemplate ==
  ASSUME file \in LibFiles, IInv, leaveTemplate PROVE IInv'
<1>1. PICK t, p : t = Top.g /\ p = Parent(t)
  OBVIOUS
<1>2. /\ Leaves({"lu_table_template", "power_lut_template", "output_current_template"})
      /\ builder' = [builder EXCEPT !.obj = None]
      /\ UNCHANGED <<file, error>>
  BY Zenon DEF leaveTemplate, Closes
<1>3. /\ DOMAIN builder' = DOMAIN builder
      /\ builder'.obj = None
  BY <1>2 DEF IInv, TypeOK, LibBuilder
<1>4. /\ Is(t, {"lu_table_template", "power_lut_template", "output_current_template"}) /\ AtHome(t, TRUE)
      /\ <<Group(t).name, Group(p).name>> \in Nesting
  BY <1>1, <1>2, OnLeaving
<1>5. Is(p, {"library"})
  BY <1>4, ParentOf DEF Is
<1>6. Is(p, {"library", "cell"}) => NoPorts'
  BY <1>1, <1>2, <1>3, <1>4, <1>5
     DEF AtHome, Is, InBus, NoPorts, IInv, TypeOK, LibBuilder
<1>7. ASSUME NEW g, Higher(g, t) PROVE AtHome(g, FALSE)'
  <2>1. Is(g, {"library"}) /\ AtHome(g, FALSE)
    BY <1>1, <1>4, <1>7, Above DEF Is, Higher
  <2> QED BY <1>2, <1>3, <2>1
          DEF AtHome, Is, Group, Parent, InBus, Home, Portless, NoPorts, IInv, TypeOK, LibBuilder,
              Objects, DelayTables, PowerTables
<1> QED BY <1>1, <1>2, <1>3, <1>6, <1>7, HomesAfterLeaving

LEMMA LeavingType ==
  ASSUME file \in LibFiles, IInv, leaveType PROVE IInv'
<1>1. PICK t, p : t = Top.g /\ p = Parent(t)
  OBVIOUS
<1>2. /\ Leaves({"type"})
      /\ builder' = [builder EXCEPT !.obj = None]
      /\ UNCHANGED <<file, error>>
  BY Zenon DEF leaveType, Closes
<1>3. /\ DOMAIN builder' = DOMAIN builder
      /\ builder'.obj = None
  BY <1>2 DEF IInv, TypeOK, LibBuilder
<1>4. /\ Is(t, {"type"}) /\ AtHome(t, TRUE)
      /\ <<Group(t).name, Group(p).name>> \in Nesting
  BY <1>1, <1>2, OnLeaving
<1>5. Is(p, {"library"})
  BY <1>4, ParentOf DEF Is
<1>6. Is(p, {"library", "cell"}) => NoPorts'
  BY <1>1, <1>2, <1>3, <1>4, <1>5
     DEF AtHome, Is, InBus, NoPorts, IInv, TypeOK, LibBuilder
<1>7. ASSUME NEW g, Higher(g, t) PROVE AtHome(g, FALSE)'
  <2>1. Is(g, {"library"}) /\ AtHome(g, FALSE)
    BY <1>1, <1>4, <1>7, Above DEF Is, Higher
  <2> QED BY <1>2, <1>3, <2>1
          DEF AtHome, Is, Group, Parent, InBus, Home, Portless, NoPorts, IInv, TypeOK, LibBuilder,
              Objects, DelayTables, PowerTables
<1> QED BY <1>1, <1>2, <1>3, <1>6, <1>7, HomesAfterLeaving

LEMMA LeavingCell ==
  ASSUME file \in LibFiles, IInv, leaveCell PROVE IInv'
<1>1. PICK t, p : t = Top.g /\ p = Parent(t)
  OBVIOUS
<1>2. /\ Leaves({"cell"})
      /\ builder' = [builder EXCEPT !.obj = None]
      /\ UNCHANGED <<file, error>>
  BY Zenon DEF leaveCell, Closes
<1>3. /\ DOMAIN builder' = DOMAIN builder
      /\ builder'.obj = None
  BY <1>2 DEF IInv, TypeOK, LibBuilder
<1>4. /\ Is(t, {"cell"}) /\ AtHome(t, TRUE)
      /\ <<Group(t).name, Group(p).name>> \in Nesting
  BY <1>1, <1>2, OnLeaving
<1>5. Is(p, {"library"})
  BY <1>4, ParentOf DEF Is
<1>6. Is(p, {"library", "cell"}) => NoPorts'
  BY <1>1, <1>2, <1>3, <1>4, <1>5
     DEF AtHome, Is, InBus, NoPorts, IInv, TypeOK, LibBuilder
<1>7. ASSUME NEW g, Higher(g, t) PROVE AtHome(g, FALSE)'
  <2>1. Is(g, {"library"}) /\ AtHome(g, FALSE)
    BY <1>1, <1>4, <1>7, Above DEF Is, Higher
  <2> QED BY <1>2, <1>3, <2>1
          DEF AtHome, Is, Group, Parent, InBus, Home, Portless, NoPorts, IInv, TypeOK, LibBuilder,
              Objects, DelayTables, PowerTables
<1> QED BY <1>1, <1>2, <1>3, <1>6, <1>7, HomesAfterLeaving

LEMMA LeavingLeakagePower ==
  ASSUME file \in LibFiles, IInv, leaveLeakagePower PROVE IInv'
<1>1. PICK t, p : t = Top.g /\ p = Parent(t)
  OBVIOUS
<1>2. /\ Leaves({"leakage_power"})
      /\ builder' = [builder EXCEPT !.obj = None]
      /\ UNCHANGED <<file, error>>
  BY Zenon DEF leaveLeakagePower, Closes
<1>3. /\ DOMAIN builder' = DOMAIN builder
      /\ builder'.obj = None
  BY <1>2 DEF IInv, TypeOK, LibBuilder
<1>4. /\ Is(t, {"leakage_power"}) /\ AtHome(t, TRUE)
      /\ <<Group(t).name, Group(p).name>> \in Nesting
  BY <1>1, <1>2, OnLeaving
<1>5. Is(p, {"cell"})
  BY <1>4, ParentOf DEF Is
<1>6. Is(p, {"library", "cell"}) => NoPorts'
  BY <1>1, <1>2, <1>3, <1>4, <1>5
     DEF AtHome, Is, InBus, NoPorts, IInv, TypeOK, LibBuilder
<1>7. ASSUME NEW g, Higher(g, t) PROVE AtHome(g, FALSE)'
  <2>1. Is(g, {"library", "cell"}) /\ AtHome(g, FALSE)
    BY <1>1, <1>4, <1>7, Above DEF Is, Higher
  <2> QED BY <1>2, <1>3, <2>1
          DEF AtHome, Is, Group, Parent, InBus, Home, Portless, NoPorts, IInv, TypeOK, LibBuilder,
              Objects, DelayTables, PowerTables
<1> QED BY <1>1, <1>2, <1>3, <1>6, <1>7, HomesAfterLeaving

LEMMA LeavingBus ==
  ASSUME file \in LibFiles, IInv, leaveBus PROVE IInv'
<1>1. PICK t, p : t = Top.g /\ p = Parent(t)
  OBVIOUS
<1>2. /\ Leaves({"bus", "bundle"})
      /\ builder' = [builder EXCEPT !.obj = None, !.port = None, !.port_bus = None]
      /\ UNCHANGED <<file, error>>
  BY Zenon DEF leaveBus, Closes
<1>3. /\ DOMAIN builder' = DOMAIN builder
      /\ builder'.obj = None
      /\ builder'.port = None
      /\ builder'.port_bus = None
  BY <1>2 DEF IInv, TypeOK, LibBuilder
<1>4. /\ Is(t, {"bus", "bundle"}) /\ AtHome(t, TRUE)
      /\ <<Group(t).name, Group(p).name>> \in Nesting
  BY <1>1, <1>2, OnLeaving
<1>5. Is(p, {"cell"})
  BY <1>4, ParentOf DEF Is
<1>6. Is(p, {"library", "cell"}) => NoPorts'
  BY <1>1, <1>2, <1>3, <1>4, <1>5
     DEF AtHome, Is, InBus, NoPorts, IInv, TypeOK, LibBuilder
<1>7. ASSUME NEW g, Higher(g, t) PROVE AtHome(g, FALSE)'
  <2>1. Is(g, {"library", "cell"}) /\ AtHome(g, FALSE)
    BY <1>1, <1>4, <1>7, Above DEF Is, Higher
  <2> QED BY <1>2, <1>3, <2>1
          DEF AtHome, Is, Group, Parent, InBus, Home, Portless, NoPorts, IInv, TypeOK, LibBuilder,
              Objects, DelayTables, PowerTables
<1> QED BY <1>1, <1>2, <1>3, <1>6, <1>7, HomesAfterLeaving

LEMMA LeavingPin ==
  ASSUME file \in LibFiles, IInv, leavePin PROVE IInv'
<1>1. PICK t, p : t = Top.g /\ p = Parent(t)
  OBVIOUS
<1>2. /\ Leaves({"pin"})
      /\ builder' = [builder EXCEPT !.obj = None, !.port = None]
      /\ UNCHANGED <<file, error>>
  BY Zenon DEF leavePin, Closes
<1>3. /\ DOMAIN builder' = DOMAIN builder
      /\ builder'.obj = None
      /\ builder'.port = None
  BY <1>2 DEF IInv, TypeOK, LibBuilder
<1>4. /\ Is(t, {"pin"}) /\ AtHome(t, TRUE)
      /\ <<Group(t).name, Group(p).name>> \in Nesting
  BY <1>1, <1>2, OnLeaving
<1>5. Is(p, {"cell", "bus", "bundle"})
  BY <1>4, ParentOf DEF Is
<1>6. Is(p, {"library", "cell"}) => NoPorts'
  BY <1>1, <1>2, <1>3, <1>4, <1>5
     DEF AtHome, Is, InBus, NoPorts, IInv, TypeOK, LibBuilder
<1>7. ASSUME NEW g, Higher(g, t) PROVE AtHome(g, FALSE)'
  <2>1. Is(g, {"library", "cell", "bus", "bundle"}) /\ AtHome(g, FALSE)
    BY <1>1, <1>4, <1>7, Above DEF Is, Higher
  <2> QED BY <1>2, <1>3, <2>1
          DEF AtHome, Is, Group, Parent, InBus, Home, Portless, NoPorts, IInv, TypeOK, LibBuilder,
              Objects, DelayTables, PowerTables
<1> QED BY <1>1, <1>2, <1>3, <1>6, <1>7, HomesAfterLeaving

LEMMA LeavingVector ==
  ASSUME file \in LibFiles, IInv, leaveVector PROVE IInv'
<1>1. PICK t, p : t = Top.g /\ p = Parent(t)
  OBVIOUS
<1>2. /\ Leaves({"vector"})
      /\ builder' = [builder EXCEPT !.obj = None]
      /\ UNCHANGED <<file, error>>
  BY Zenon DEF leaveVector, Closes
<1>3. /\ DOMAIN builder' = DOMAIN builder
      /\ builder'.obj = None
  BY <1>2 DEF IInv, TypeOK, LibBuilder
<1>4. /\ Is(t, {"vector"}) /\ AtHome(t, TRUE)
      /\ <<Group(t).name, Group(p).name>> \in Nesting
  BY <1>1, <1>2, OnLeaving
<1>5. Is(p, CurrentTables)
  BY <1>4, ParentOf DEF Is
<1>6. Is(p, {"library", "cell"}) => NoPorts'
  BY <1>1, <1>2, <1>3, <1>4, <1>5
     DEF AtHome, Is, InBus, NoPorts, IInv, TypeOK, LibBuilder
<1>7. ASSUME NEW g, Higher(g, t) PROVE AtHome(g, FALSE)'
  <2>1. ~Is(g, Objects \cup {"leakage_power"}) /\ AtHome(g, FALSE)
    BY <1>1, <1>4, <1>7, Above DEF Is, Higher
  <2> QED BY <1>2, <1>3, <2>1
          DEF AtHome, Is, Group, Parent, InBus, Home, Portless, NoPorts, IInv, TypeOK, LibBuilder,
              CurrentTables
<1> QED BY <1>1, <1>2, <1>3, <1>6, <1>7, HomesAfterLeaving

\* Of a group whose handler for leaving leaves the builder as it is.
LEMMA LeavingUnchanged ==
  ASSUME file \in LibFiles, IInv, NEW names, Leaves(names), UNCHANGED <<file, builder, error>>,
         names \in {{"library"}, {"timing"}, DelayTables \cup PowerTables, CurrentTables,
                   {"internal_power"}}
  PROVE  IInv'
<1>1. PICK t, p : t = Top.g /\ p = Parent(t)
  OBVIOUS
<1>2. ASSUME NEW g, Higher(g, t) PROVE AtHome(g, FALSE)'
  BY <1>2 DEF Higher, AtHome, Is, Group, Parent, InBus, Home, Portless, NoPorts
<1>3. Is(t, names)
  BY <1>1 DEF Leaves, Is
<1>4. ASSUME <<Group(t).name, Group(p).name>> \in Nesting, Is(p, {"library", "cell"})
      PROVE  NoPorts'
  <2>1. Is(t, {"internal_power"})
    BY <1>3, <1>4, ParentOf, Deeper
       DEF Is, Supported, DelayTables, PowerTables, CurrentTables
  <2>2. AtHome(t, TRUE)
    BY <1>1, TopAtHome DEF Leaves
  <2>3. NoPorts
    BY <1>1, <1>4, <2>1, <2>2 DEF AtHome, Is
  <2> QED BY <2>3 DEF NoPorts
<1>5. DOMAIN builder' = DOMAIN builder
  OBVIOUS
<1> QED BY <1>1, <1>2, <1>4, <1>5, HomesAfterLeaving

LEMMA LeavingInternalPower ==
  ASSUME file \in LibFiles, IInv, leaveInternalPower PROVE IInv'
<1>1. PICK t, p : t = Top.g /\ p = Parent(t)
  OBVIOUS
<1>2. Leaves({"internal_power"}) /\ UNCHANGED <<file, error>>
  BY Zenon DEF leaveInternalPower
<1>3. CASE UNCHANGED builder
  BY <1>2, <1>3, LeavingUnchanged
<1>4. CASE builder' = [builder EXCEPT !.obj = None, !.power_arc = None]
  <2>1. DOMAIN builder' = DOMAIN builder /\ builder'.obj = None
    BY <1>4 DEF IInv, TypeOK, LibBuilder
  <2>2. /\ Is(t, {"internal_power"}) /\ AtHome(t, TRUE)
        /\ <<Group(t).name, Group(p).name>> \in Nesting
    BY <1>1, <1>2, OnLeaving
  <2>3. Is(p, {"library", "cell"}) => NoPorts'
    BY <1>1, <1>4, <2>2 DEF AtHome, Is, NoPorts, IInv, TypeOK, LibBuilder
  <2>4. ASSUME NEW g, Higher(g, t) PROVE AtHome(g, FALSE)'
    <3>1. Is(g, {"library", "cell", "bus", "bundle", "pin"}) /\ AtHome(g, FALSE)
      BY <1>1, <2>2, <2>4, Above DEF Is, Higher
    <3> QED BY <1>2, <1>4, <2>1, <3>1
            DEF AtHome, Is, Group, Parent, InBus, Home, Portless, NoPorts, IInv, TypeOK, LibBuilder,
                Objects, DelayTables, PowerTables
  <2> QED BY <1>1, <1>2, <2>1, <2>3, <2>4, HomesAfterLeaving
<1> QED BY <1>3, <1>4, Zenon DEF leaveInternalPower

\* Leaving in general.
LEMMA LeavingGroup ==
  ASSUME file \in LibFiles, IInv, leaveGroup PROVE IInv'
<1>1. CASE leaveLibrary
  BY <1>1, LeavingUnchanged DEF leaveLibrary
<1>2. CASE leaveTiming
  <2>1. Leaves({"timing"}) /\ UNCHANGED <<file, builder, error>>
    BY <1>2, Zenon DEF leaveTiming
  <2> QED BY <2>1, LeavingUnchanged
<1>3. CASE leaveTable
  <2>1. Leaves(DelayTables \cup PowerTables) /\ UNCHANGED <<file, builder, error>>
    BY <1>3, Zenon DEF leaveTable
  <2> QED BY <2>1, LeavingUnchanged
<1>4. CASE leaveCurrentTable
  <2>1. CASE error = None /\ Stop("null pointer")
    BY <2>1, HomesAfterStop
  <2>2. CASE Leaves(CurrentTables) /\ UNCHANGED <<file, builder, error>>
    BY <2>2, LeavingUnchanged
  <2> QED BY <1>4, <2>1, <2>2, Zenon DEF leaveCurrentTable
<1> QED BY <1>1, <1>2, <1>3, <1>4, LeavingWireLoad, LeavingTemplate, LeavingType, LeavingCell,
           LeavingLeakagePower, LeavingBus, LeavingPin, LeavingInternalPower, LeavingVector
        DEF leaveGroup

\* Entering in general.
LEMMA EnteringGroup ==
  ASSUME file \in LibFiles, IInv, Begun, visitGroup PROVE IInv'
<1>1. CASE pass_over
  <2>1. error = None /\ stack # << >> /\ stack' = Advanced /\ UNCHANGED <<file, builder, error>>
    BY <1>1 DEF pass_over, Sets, At, Reaches
  <2> QED BY <2>1, HomesAfterAdvancing
<1> QED BY <1>1, EnteringLibrary, EnteringWireLoad, EnteringLuTableTemplate,
           EnteringCurrentTemplate, EnteringType, EnteringCell, EnteringLeakagePower,
           EnteringBus, EnteringPin, EnteringTiming, EnteringInternalPower, EnteringTables,
           EnteringCurrentTable, EnteringVector
        DEF visitGroup

-----------------------------------------------------------------------------
\* A statement that is no group touches no pointer.
LEMMA VisitingAttribute ==
  ASSUME file \in LibFiles, IInv, visitAttributes PROVE IInv'
<1>1. \/ /\ error = None /\ stack # << >> /\ stack' = Advanced
         /\ UNCHANGED <<file, builder, error>>
      \/ error = None /\ \E what : Stop(what)
  <2>1. CASE visitSimpleAttri
    BY <2>1, Zenon DEF visitSimpleAttri, At, Reaches
  <2>2. CASE capacitive_load_unit
    BY <2>2, Zenon DEF capacitive_load_unit, At, Reaches, Sets
  <2>3. CASE capacitance_range
    BY <2>3, Zenon DEF capacitance_range, At, Reaches, Sets
  <2>4. CASE fanout_length
    BY <2>4, Zenon DEF fanout_length, At, Reaches, Sets
  <2>5. CASE visitAxisOrValues
    BY <2>5, Zenon DEF visitAxisOrValues, At, Reaches, Sets
  <2>6. CASE other_complex
    BY <2>6, Zenon DEF other_complex, At, Reaches, Sets
  <2> QED BY <2>1, <2>2, <2>3, <2>4, <2>5, <2>6 DEF visitAttributes
<1> QED BY <1>1, HomesAfterAdvancing, HomesAfterStop

\* No object is forgotten.
LEMMA KindsGrow ==
  ASSUME Next PROVE DOMAIN kinds \subseteq DOMAIN kinds'
<1>1. kinds' = kinds \/ \E f : kinds' = f @@ kinds
  <2>1. CASE visitAttributes
    BY <2>1, Zenon
       DEF visitAttributes, visitSimpleAttri, capacitive_load_unit, capacitance_range,
           fanout_length, visitAxisOrValues, other_complex, Sets, Stop
  <2>2. CASE leaveGroup
    BY <2>2, Zenon
       DEF leaveGroup, leaveLibrary, leaveWireLoad, leaveTemplate, leaveType, leaveCell,
           leaveLeakagePower, leaveBus, leavePin, leaveTiming, leaveInternalPower, leaveTable,
           leaveCurrentTable, leaveVector, Closes, Stop
  <2>3. CASE visitGroup
    BY <2>3, Zenon
       DEF visitGroup, visitLibrary, visitWireLoad, visitLuTableTemplate,
           visitOutputCurrentTemplate, visitType, visitCell, visitLeakagePower, visitBus,
           visitPin, visitTiming, visitInternalPower, visitTable, visitPowerTable,
           visitCurrentTable, visitVector, pass_over, Opens, Creates, AddsTable, Sets, Stop
  <2>4. CASE cannot_read \/ nameless_library
    BY <2>4, Zenon DEF cannot_read, nameless_library, Stop
  <2> QED BY <2>1, <2>2, <2>3, <2>4 DEF Next
<1>2. ASSUME NEW f, kinds' = f @@ kinds PROVE DOMAIN kinds \subseteq DOMAIN kinds'
  <2>1. DOMAIN (f @@ kinds) = DOMAIN f \cup DOMAIN kinds
    BY MergeIs, Zenon
  <2> QED BY <1>2, <2>1, Zenon
<1> QED BY <1>1, <1>2, Zenon

LEMMA StaysBegun ==
  ASSUME Begun, Next PROVE Begun'
<1>1. CASE visitLibrary
  <2>1. kinds' = (Library :> "library") @@ kinds
    BY <1>1, Zenon DEF visitLibrary, Creates
  <2>2. Library \in DOMAIN (Library :> "library")
    BY OnlyIs
  <2> QED BY <2>1, <2>2, MergeIs DEF Begun, Library
<1>2. CASE stack # << >>
  BY <1>2, KindsGrow DEF Begun, Library
<1>4. CASE nameless_library
  BY <1>4, Zenon DEF nameless_library, Stop, Begun, Library, LibBuilder
<1>3. Next => visitLibrary \/ nameless_library \/ stack # << >>
  <2>1. visitAttributes => stack # << >>
    BY Zenon DEF visitAttributes, visitSimpleAttri, capacitive_load_unit, capacitance_range,
                 fanout_length, visitAxisOrValues, other_complex, At, Reaches
  <2>2. leaveGroup => stack # << >>
    BY Zenon
       DEF leaveGroup, leaveLibrary, leaveWireLoad, leaveTemplate, leaveType, leaveCell,
           leaveLeakagePower, leaveBus, leavePin, leaveTiming, leaveInternalPower, leaveTable,
           leaveCurrentTable, leaveVector, Leaves
  <2>3. visitGroup => visitLibrary \/ stack # << >>
    BY Zenon
       DEF visitGroup, visitWireLoad, visitLuTableTemplate,
           visitOutputCurrentTemplate, visitType, visitCell, visitLeakagePower, visitBus,
           visitPin, visitTiming, visitInternalPower, visitTable, visitPowerTable,
           visitCurrentTable, visitVector, pass_over, Visits, At, Reaches
  <2>4. cannot_read => stack # << >>
    BY Zenon DEF cannot_read, Reaches
  <2> QED BY <2>1, <2>2, <2>3, <2>4 DEF Next
<1> QED BY <1>1, <1>2, <1>3, <1>4

-----------------------------------------------------------------------------
(***************************************************************************)
(* As long as a cell is open no wire load is the object attributes go to: *)
(* a pin of no ports has no wire load to write to.                         *)
(***************************************************************************)
WireFree == builder.obj = None \/ (builder.obj \in DOMAIN kinds /\ kinds[builder.obj] # "wire_load")
NoWire == error = None => \A k \in 1 .. Len(stack) : Is(stack[k].g, {"cell"}) => WireFree

LEMMA FreeMerging ==
  ASSUME NEW f, kinds' = f @@ kinds, \A o \in DOMAIN f : f[o] # "wire_load",
         builder'.obj \in {None, builder.obj} \cup DOMAIN f
  PROVE  WireFree => WireFree'
<1>1. /\ DOMAIN (f @@ kinds) = DOMAIN f \cup DOMAIN kinds
      /\ \A z \in DOMAIN f : (f @@ kinds)[z] = f[z]
      /\ \A z \in DOMAIN kinds \ DOMAIN f : (f @@ kinds)[z] = kinds[z]
  BY MergeIs, Zenon
<1>2. /\ DOMAIN kinds' = DOMAIN f \cup DOMAIN kinds
      /\ \A z \in DOMAIN f : kinds'[z] = f[z]
      /\ \A z \in DOMAIN kinds \ DOMAIN f : kinds'[z] = kinds[z]
  BY <1>1, Zenon
<1> QED BY <1>2 DEF WireFree

LEMMA FreeCreating ==
  ASSUME NEW o, NEW kind, kind # "wire_load", kinds' = (o :> kind) @@ kinds,
         builder'.obj \in {None, builder.obj, o}
  PROVE  WireFree => WireFree'
<1>1. DOMAIN (o :> kind) = {o} /\ (o :> kind)[o] = kind
  BY OnlyIs
<1>2. PICK f : f = o :> kind
  OBVIOUS
<1>3. kinds' = f @@ kinds /\ DOMAIN f = {o} /\ f[o] = kind
  BY <1>1, <1>2, Zenon
<1> QED BY <1>3, FreeMerging

LEMMA FreeKeeping ==
  ASSUME UNCHANGED kinds, builder'.obj \in {None, builder.obj}
  PROVE  WireFree => WireFree'
  BY DEF WireFree

\* A step after which no other cell is open.
LEMMA FreeAround ==
  ASSUME NoWire, error = None, UNCHANGED file, WireFree => WireFree',
         NEW n, Len(stack) = n,
         \A k \in 1 .. Len(stack') : \/ k \in 1 .. n /\ stack'[k].g = stack[k].g
                                     \/ ~Is(stack'[k].g, {"cell"})
  PROVE  NoWire'
  BY DEF NoWire, Is, Group

LEMMA FreeEntering ==
  ASSUME file \in LibFiles, IInv, IInv', NoWire, NEW names \in SUBSET Supported, Visits(names),
         "cell" \notin names, Enters(Visited), UNCHANGED file, WireFree => WireFree'
  PROVE  NoWire'
<1>0. PICK n : n = Len(stack)
  OBVIOUS
<1>1. error = None /\ ~Is(Visited, {"cell"}) /\ DOMAIN builder' = DOMAIN builder
  BY DEF Visits, At, Reaches, Visited, Is, IInv, TypeOK, LibBuilder
<1>2. Len(stack') = n + 1 /\ SameGroups(n) /\ stack'[n + 1].g = Visited
  BY <1>0, <1>1, Entering DEF IInv
<1>3. n \in Nat
  BY <1>0, LenProperties DEF IInv, TypeOK
<1>4. ASSUME NEW k \in 1 .. Len(stack')
      PROVE  (k \in 1 .. n /\ stack'[k].g = stack[k].g) \/ ~Is(stack'[k].g, {"cell"})
  BY <1>1, <1>2, <1>3 DEF SameGroups
<1> QED BY <1>0, <1>1, <1>4, FreeAround

LEMMA FreeLeaving ==
  ASSUME file \in LibFiles, IInv, IInv', NoWire, NEW names, Leaves(names),
         UNCHANGED file, WireFree => WireFree'
  PROVE  NoWire'
<1>0. PICK n : n = Len(stack)
  OBVIOUS
<1>1. error = None /\ DOMAIN builder' = DOMAIN builder
  BY DEF Leaves, IInv, TypeOK, LibBuilder
<1>2. Len(stack') = n - 1 /\ SameGroups(n - 1)
  BY <1>0, <1>1, Leaving DEF IInv
<1>3. n \in Nat
  BY <1>0, LenProperties DEF IInv, TypeOK
<1>4. \A k \in 1 .. Len(stack') : k \in 1 .. n /\ stack'[k].g = stack[k].g
  BY <1>2, <1>3 DEF SameGroups
<1> QED BY <1>0, <1>1, <1>4, FreeAround

LEMMA FreeAdvancing ==
  ASSUME file \in LibFiles, IInv, NoWire, error = None, stack # << >>, stack' \in {stack, Advanced},
         UNCHANGED <<file, builder, kinds>>
  PROVE  NoWire'
<1>1. Len(stack') = Len(stack) /\ \A k \in 1 .. Len(stack) : stack'[k].g = stack[k].g
  BY AdvancedStack DEF IInv
<1>2. WireFree => WireFree'
  BY FreeKeeping
<1> QED BY <1>1, <1>2, FreeAround

LEMMA FreeStopping == ASSUME NoWire, error = None, NEW what, Stop(what) PROVE NoWire'
  BY DEF NoWire, Stop, WireFree, Is, Group

LEMMA FreeOpening ==
  ASSUME file \in LibFiles, IInv, IInv', NoWire, NEW names \in SUBSET Supported, Visits(names),
         "cell" \notin names, UNCHANGED file,
         NEW kind, kind # "wire_load", NEW b, Opens(kind, b),
         b.obj \in {None, builder.obj, <<Visited, 1>>}
  PROVE  NoWire'
<1>1. /\ Enters(Visited) /\ kinds' = (<<Visited, 1>> :> kind) @@ kinds
      /\ builder'.obj \in {None, builder.obj, <<Visited, 1>>}
  BY DEF Opens, Creates
<1>2. PICK o : o = <<Visited, 1>>
  OBVIOUS
<1>3. WireFree => WireFree'
  BY <1>1, <1>2, FreeCreating, Zenon
<1> QED BY <1>1, <1>3, FreeEntering

LEMMA FreeTable ==
  ASSUME file \in LibFiles, IInv, IInv', NoWire, NEW names \in {DelayTables, PowerTables},
         Visits(names), NEW m, NEW kind, NEW owner, NEW field, AddsTable(m, kind, owner, field),
         builder.table_model = None => kind # "wire_load"
  PROVE  NoWire'
<1>0. names \in SUBSET Supported /\ "cell" \notin names
  BY DEF Supported, DelayTables, PowerTables
<1>1. PICK t, f, e :
        /\ t = <<Visited, 1>>
        /\ e = IF builder.table_model = None THEN m :> kind ELSE << >>
        /\ f = (t :> "table") @@ e
  BY Zenon
<1>2. /\ kinds' = f @@ kinds /\ builder' = [builder EXCEPT !.obj = t, !.table_model = m]
      /\ Enters(Visited) /\ UNCHANGED file
  BY <1>1, Zenon DEF AddsTable
<1>3. \A o \in DOMAIN e : e[o] # "wire_load"
  <2>1. CASE builder.table_model = None
    <3>1. DOMAIN (m :> kind) = {m} /\ (m :> kind)[m] = kind
      BY OnlyIs
    <3>2. DOMAIN e = {m} /\ e[m] = kind
      BY <1>1, <2>1, <3>1, Zenon
    <3> QED BY <2>1, <3>2
  <2>2. CASE builder.table_model # None
    BY <1>1, <2>2
  <2> QED BY <2>1, <2>2
<1>4. DOMAIN (t :> "table") = {t} /\ (t :> "table")[t] = "table"
  BY OnlyIs
<1>5. /\ DOMAIN ((t :> "table") @@ e) = DOMAIN (t :> "table") \cup DOMAIN e
      /\ \A z \in DOMAIN (t :> "table") : ((t :> "table") @@ e)[z] = (t :> "table")[z]
      /\ \A z \in DOMAIN e \ DOMAIN (t :> "table") : ((t :> "table") @@ e)[z] = e[z]
  BY MergeIs, Zenon
<1>6. DOMAIN f = {t} \cup DOMAIN e /\ f[t] = "table" /\ \A z \in DOMAIN e \ {t} : f[z] = e[z]
  BY <1>1, <1>4, <1>5, Zenon
<1>7. t \in DOMAIN f /\ \A o \in DOMAIN f : f[o] # "wire_load"
  BY <1>3, <1>6
<1>8. builder'.obj = t
  BY <1>2 DEF IInv, TypeOK, LibBuilder
<1>9. WireFree => WireFree'
  BY <1>2, <1>7, <1>8, FreeMerging
<1> QED BY <1>0, <1>2, <1>9, FreeEntering

LEMMA FreeVisiting ==
  ASSUME file \in LibFiles, IInv, IInv', NoWire, visitGroup PROVE NoWire'
<1>0. /\ {"wire_load"} \in SUBSET Supported /\ {"cell"} \in SUBSET Supported
      /\ {"lu_table_template", "power_lut_template"} \in SUBSET Supported
      /\ {"output_current_template"} \in SUBSET Supported /\ {"type"} \in SUBSET Supported
      /\ {"leakage_power"} \in SUBSET Supported /\ {"bus", "bundle"} \in SUBSET Supported
      /\ {"pin"} \in SUBSET Supported /\ {"timing"} \in SUBSET Supported
      /\ {"internal_power"} \in SUBSET Supported /\ {"vector"} \in SUBSET Supported
      /\ DelayTables \in SUBSET Supported /\ PowerTables \in SUBSET Supported
      /\ CurrentTables \in SUBSET Supported
      /\ "cell" \notin DelayTables \cup PowerTables \cup CurrentTables
  BY DEF Supported, DelayTables, PowerTables, CurrentTables
<1>l. DOMAIN builder = DOMAIN LibBuilder
  BY DEF IInv, TypeOK
<1>1. CASE visitLibrary
  <2>1. stack' = <<[g |-> 1, left |-> Left(1)]>> /\ UNCHANGED file
    BY <1>1, Zenon DEF visitLibrary
  <2>2. Len(stack') = 1 /\ stack'[1].g = 1
    BY <2>1
  <2> QED BY <2>1, <2>2, GroupsOfFile DEF NoWire, Is, Group
<1>2. CASE visitWireLoad
  <2>0. PICK n, v : n = Len(stack) /\ v = Visited
    OBVIOUS
  <2>1. Visits({"wire_load"}) /\ Enters(Visited) /\ UNCHANGED file
    BY <1>2, Zenon DEF visitWireLoad, Opens
  <2>2. /\ error = None /\ stack # << >> /\ n \in Nat \ {0} /\ DOMAIN builder' = DOMAIN builder
    BY <2>0, <2>1, TopGroup DEF IInv, TypeOK, Visits, At, Reaches
  <2>3. /\ Len(stack') = n + 1 /\ stack'[n + 1].g = v /\ \A k \in 1 .. n : stack'[k].g = stack[k].g
    BY <1>0, <2>0, <2>1, <2>2, Entering DEF IInv, SameGroups
  <2>4. Is(v, {"wire_load"}) /\ Parent(v) = Top.g /\ Is(Top.g, {"library"})
    BY <1>0, <2>0, <2>1, VisitedGroup, ParentOf DEF IInv, Is
  <2>5. ASSUME NEW k \in 1 .. n PROVE ~Is(stack[k].g, {"cell"})
    <3>1. CASE k = n
      BY <2>0, <2>2, <2>4, <2>5, <3>1, TopGroup DEF IInv, Is
    <3>2. CASE k # n
      <4>0. k \in 1 .. Len(stack) - 1 /\ Group(Top.g).name = "library"
        BY <2>0, <2>2, <2>4, <2>5, <3>2 DEF Is
      <4>1. /\ Level[Group(stack[k].g).name] < Level["library"]
            /\ Group(stack[k].g).name \in Supported \cup {"library"}
        BY <2>2, <4>0, Below
      <4>2. Level[Group(stack[k].g).name] \in 0 .. 6
        BY <4>1, LevelIsNat
      <4> QED BY <4>1, <4>2, Levels
    <3> QED BY <3>1, <3>2
  <2>6. ASSUME NEW k \in 1 .. n + 1 PROVE ~Is(stack'[k].g, {"cell"})
    BY <2>2, <2>3, <2>4, <2>5 DEF Is
  <2>7. \A k \in 1 .. Len(stack') : ~(Is(stack[k].g, {"cell"}))'
    BY <2>1, <2>3, <2>6 DEF Is, Group
  <2> QED BY <2>7 DEF NoWire
<1>3. CASE visitLuTableTemplate
  <2>1. PICK b : b = [builder EXCEPT !.port = None, !.obj = <<Visited, 1>>]
    OBVIOUS
  <2>2. /\ Visits({"lu_table_template", "power_lut_template"}) /\ Opens("lut_template", b)
        /\ UNCHANGED file
    BY <1>3, <2>1, Zenon DEF visitLuTableTemplate
  <2> QED BY <1>0, <1>l, <2>1, <2>2, FreeOpening DEF LibBuilder
<1>4. CASE visitOutputCurrentTemplate
  <2>1. PICK b : b = [builder EXCEPT !.obj = <<Visited, 1>>]
    OBVIOUS
  <2>2. Visits({"output_current_template"}) /\ Opens("current_template", b) /\ UNCHANGED file
    BY <1>4, <2>1, Zenon DEF visitOutputCurrentTemplate
  <2> QED BY <1>0, <1>l, <2>1, <2>2, FreeOpening DEF LibBuilder
<1>5. CASE visitType
  <2>1. PICK b : b = [builder EXCEPT !.port = None, !.obj = <<Visited, 1>>]
    OBVIOUS
  <2>2. Visits({"type"}) /\ Opens("type", b) /\ UNCHANGED file
    BY <1>5, <2>1, Zenon DEF visitType
  <2> QED BY <1>0, <1>l, <2>1, <2>2, FreeOpening DEF LibBuilder
<1>6. CASE visitCell
  <2>0. PICK o : o = <<Visited, 1>>
    OBVIOUS
  <2>1. /\ builder' = [builder EXCEPT !.obj = o, !.cell = o]
        /\ kinds' = (o :> "cell") @@ kinds
    BY <1>6, <2>0, Zenon DEF visitCell, Opens, Creates
  <2>2. DOMAIN (o :> "cell") = {o} /\ (o :> "cell")[o] = "cell"
    BY OnlyIs
  <2>3. o \in DOMAIN ((o :> "cell") @@ kinds) /\ ((o :> "cell") @@ kinds)[o] = "cell"
    <3>1. /\ DOMAIN ((o :> "cell") @@ kinds) = DOMAIN (o :> "cell") \cup DOMAIN kinds
          /\ \A z \in DOMAIN (o :> "cell") : ((o :> "cell") @@ kinds)[z] = (o :> "cell")[z]
      BY MergeIs, Zenon
    <3> QED BY <2>2, <3>1, Zenon
  <2>4. o \in DOMAIN kinds' /\ kinds'[o] = "cell"
    BY <2>1, <2>3, Zenon
  <2>5. builder'.obj = o
    BY <1>l, <2>1 DEF LibBuilder
  <2> QED BY <2>4, <2>5 DEF NoWire, WireFree
<1>7. CASE visitLeakagePower
  <2>1. PICK b : b = [builder EXCEPT !.obj = <<Visited, 1>>, !.leakage_power = <<Visited, 1>>,
                                     !.own_pg_or_when_type = "leakage_power"]
    OBVIOUS
  <2>2. Visits({"leakage_power"}) /\ Opens("leakage_power", b) /\ UNCHANGED file
    BY <1>7, <2>1, Zenon DEF visitLeakagePower
  <2> QED BY <1>0, <1>l, <2>1, <2>2, FreeOpening DEF LibBuilder
<1>8. CASE visitBus
  <2>1. PICK b : b = [builder EXCEPT !.obj = <<Visited, 1>>, !.port = <<Visited, 1>>,
                                     !.port_bus = <<Visited, 1>>]
    OBVIOUS
  <2>2. Visits({"bus", "bundle"}) /\ Opens("bus", b) /\ UNCHANGED file
    BY <1>8, <2>1, Zenon DEF visitBus
  <2> QED BY <1>0, <1>l, <2>1, <2>2, FreeOpening DEF LibBuilder
<1>9. CASE visitPin
  <2>0. PICK v : v = Visited
    OBVIOUS
  <2>1. /\ Visits({"pin"}) /\ Enters(Visited) /\ UNCHANGED file
        /\ kinds' = [o \in Ports(v) |-> "port"] @@ kinds
        /\ \/ UNCHANGED builder
           \/ /\ Group(v).names # << >>
              /\ builder' = [builder EXCEPT !.obj = <<v, Len(Group(v).names)>>,
                                            !.port = <<v, Len(Group(v).names)>>]
    BY <1>9, <2>0, Zenon DEF visitPin
  <2>2. v \in Groups
    BY <1>0, <2>0, <2>1, VisitedGroup DEF IInv
  <2>3. Group(v).names # << >> => <<v, Len(Group(v).names)>> \in Ports(v)
    BY <2>2, GroupsOfFile DEF Ports
  <2>4. builder'.obj \in {None, builder.obj} \cup Ports(v)
    BY <1>l, <2>1, <2>3 DEF LibBuilder
  <2>5. WireFree => WireFree'
    <3>1. PICK f : f = [o \in Ports(v) |-> "port"]
      OBVIOUS
    <3>2. DOMAIN f = Ports(v) /\ \A o \in DOMAIN f : f[o] # "wire_load"
      BY <3>1
    <3>3. kinds' = f @@ kinds
      BY <2>1, <3>1, Zenon
    <3> QED BY <2>4, <3>2, <3>3, FreeMerging
  <2> QED BY <1>0, <2>1, <2>5, FreeEntering
<1>10. CASE visitTiming
  <2>1. PICK b : b = [builder EXCEPT !.obj = None, !.arc = <<Visited, 1>>, !.table_model = None,
                                     !.own_port_type = "arc"]
    OBVIOUS
  <2>2. \/ Stop("null pointer") /\ error = None
        \/ Visits({"timing"}) /\ Opens("arc", b) /\ UNCHANGED file
    BY <1>10, <2>1, Zenon DEF visitTiming, Visits, At, Reaches
  <2>3. b.obj = None
    BY <1>l, <2>1 DEF LibBuilder
  <2> QED BY <1>0, <2>2, <2>3, FreeOpening, FreeStopping
<1>11. CASE visitInternalPower
  <2>1. PICK b : b = [builder EXCEPT !.obj = None, !.power_arc = <<Visited, 1>>,
                        !.table_model = None, !.own_port_type = "power_arc",
                        !.own_pg_or_when_type = "power_arc"]
    OBVIOUS
  <2>2. Visits({"internal_power"}) /\ Opens("power_arc", b) /\ UNCHANGED file
    BY <1>11, <2>1, Zenon DEF visitInternalPower
  <2> QED BY <1>0, <1>l, <2>1, <2>2, FreeOpening DEF LibBuilder
<1>12. CASE visitTable \/ visitPowerTable
  <2>1. CASE visitTable
    <3>1. PICK a, m, new, kind :
            /\ a = builder.arc /\ m = ModelOf(a) /\ kind = ModelKind(m, new)
            /\ new = IF isCheckArc(a) THEN "check_model" ELSE "delay_model"
      BY Zenon
    <3>2. /\ Visits(DelayTables) /\ error = None
          /\ Stop("out of bounds") \/ AddsTable(m, kind, a, "table_model")
      BY <2>1, <3>1, Zenon DEF visitTable, Visits, At, Reaches
    <3>3. builder.table_model = None => kind # "wire_load"
      BY <3>1 DEF ModelKind
    <3> QED BY <3>2, <3>3, FreeTable, FreeStopping
  <2>2. CASE visitPowerTable
    <3>1. PICK a, m, kind :
            a = builder.power_arc /\ m = ModelOf(a) /\ kind = ModelKind(m, "power_model")
      BY Zenon
    <3>2. Visits(PowerTables) /\ AddsTable(m, kind, a, "power_table_model")
      BY <2>2, <3>1, Zenon DEF visitPowerTable
    <3>3. builder.table_model = None => kind # "wire_load"
      BY <3>1 DEF ModelKind
    <3> QED BY <3>2, <3>3, FreeTable
  <2> QED BY <1>12, <2>1, <2>2
<1>13. CASE visitCurrentTable
  <2>1. PICK b : b = [builder EXCEPT !.current_table = <<Visited, 1>>]
    OBVIOUS
  <2>2. Visits(CurrentTables) /\ Opens("current_table", b) /\ UNCHANGED file
    BY <1>13, <2>1, Zenon DEF visitCurrentTable
  <2> QED BY <1>0, <1>l, <2>1, <2>2, FreeOpening DEF LibBuilder
<1>14. CASE visitVector
  <2>1. PICK b : b = [builder EXCEPT !.obj = <<Visited, 1>>]
    OBVIOUS
  <2>2. /\ error = None /\ Visits({"vector"})
        /\ Stop("fatal") \/ (Opens("vector", b) /\ UNCHANGED file)
    BY <1>14, <2>1, Zenon DEF visitVector, Visits, At, Reaches
  <2>3. b.obj = <<Visited, 1>>
    BY <1>l, <2>1 DEF LibBuilder
  <2> QED BY <1>0, <2>2, <2>3, FreeOpening, FreeStopping
<1>15. CASE pass_over
  <2>1. /\ error = None /\ stack # << >> /\ stack' = Advanced
        /\ UNCHANGED <<file, builder, kinds>>
    BY <1>15, Zenon DEF pass_over, Sets, At, Reaches
  <2> QED BY <2>1, FreeAdvancing
<1> QED BY <1>1, <1>2, <1>3, <1>4, <1>5, <1>6, <1>7, <1>8, <1>9, <1>10, <1>11, <1>12, <1>13,
           <1>14, <1>15 DEF visitGroup

LEMMA FreeLeavingGroup ==
  ASSUME file \in LibFiles, IInv, IInv', NoWire, leaveGroup PROVE NoWire'
<1>1. \/ \E what : Stop(what) /\ error = None
      \/ \E names : Leaves(names) /\ UNCHANGED <<file, kinds>> /\ builder'.obj \in {None, builder.obj}
  <2>l. DOMAIN builder = DOMAIN LibBuilder
    BY DEF IInv, TypeOK
  <2>1. CASE \E c, o, names : /\ Leaves(names)
                              /\ Closes(o, c, [builder EXCEPT !.obj = None])
    BY <2>l, <2>1 DEF Closes, LibBuilder
  <2>2. CASE \E names : Leaves(names) /\ UNCHANGED <<file, kinds, builder>>
    BY <2>2
  <2>3. CASE leaveBus \/ leavePin \/ leaveVector \/ leaveInternalPower
    BY <2>l, <2>3 DEF leaveBus, leavePin, leaveVector, leaveInternalPower, LibBuilder
  <2>4. \/ \E c, o, names : Leaves(names) /\ Closes(o, c, [builder EXCEPT !.obj = None])
        \/ \E names : Leaves(names) /\ UNCHANGED <<file, kinds, builder>>
        \/ leaveBus \/ leavePin \/ leaveVector \/ leaveInternalPower
        \/ \E what : Stop(what) /\ error = None
    BY Zenon DEF leaveGroup, leaveLibrary, leaveWireLoad, leaveTemplate, leaveType, leaveCell,
                 leaveLeakagePower, leaveTiming, leaveTable, leaveCurrentTable
  <2> QED BY <2>1, <2>2, <2>3, <2>4
<1>2. ASSUME NEW names, Leaves(names), UNCHANGED <<file, kinds>>, builder'.obj \in {None, builder.obj}
      PROVE  NoWire'
  BY <1>2, FreeKeeping, FreeLeaving
<1> QED BY <1>1, <1>2, FreeStopping

LEMMA FreeAttributes ==
  ASSUME file \in LibFiles, IInv, NoWire, visitAttributes PROVE NoWire'
<1>1. /\ error = None /\ stack # << >>
      /\ \/ stack' = Advanced /\ UNCHANGED <<file, builder, kinds>>
         \/ \E what : Stop(what)
  <2>1. CASE visitSimpleAttri
    BY <2>1, Zenon DEF visitSimpleAttri, At, Reaches
  <2>2. CASE capacitive_load_unit
    BY <2>2, Zenon DEF capacitive_load_unit, At, Reaches, Sets
  <2>3. CASE capacitance_range
    BY <2>3, Zenon DEF capacitance_range, At, Reaches, Sets
  <2>4. CASE fanout_length
    BY <2>4, Zenon DEF fanout_length, At, Reaches, Sets
  <2>5. CASE visitAxisOrValues
    BY <2>5, Zenon DEF visitAxisOrValues, At, Reaches, Sets
  <2>6. CASE other_complex
    BY <2>6, Zenon DEF other_complex, At, Reaches, Sets
  <2> QED BY <2>1, <2>2, <2>3, <2>4, <2>5, <2>6 DEF visitAttributes
<1> QED BY <1>1, FreeAdvancing, FreeStopping


-----------------------------------------------------------------------------
\* The inductive invariant: IInv needs to know that the library is entered but
\* once, and that the file stays the same.
Inductive == file \in LibFiles /\ IInv /\ Begun /\ NoWire

LEMMA InductiveInit == Init => Inductive
<1> SUFFICES ASSUME Init PROVE Inductive
  OBVIOUS
<1>1. file \in LibFiles /\ stack = << >> /\ builder = LibBuilder
  BY DEF Init
<1>2. Len(stack) = 0 /\ stack \in Seq(Frame)
  BY <1>1
<1> QED BY <1>1, <1>2 DEF Inductive, IInv, TypeOK, PointersAtHome, Begun, NoWire

LEMMA InductiveNext ==
  ASSUME Inductive, [Next]_vars PROVE Inductive'
<1>1. CASE Next
  <2>1. file' = file
    <3>1. visitAttributes => UNCHANGED file
      BY Zenon
         DEF visitAttributes, visitSimpleAttri, capacitive_load_unit, capacitance_range,
             fanout_length, visitAxisOrValues, other_complex, Sets, Stop
    <3>2. leaveGroup => UNCHANGED file
      BY Zenon
         DEF leaveGroup, leaveLibrary, leaveWireLoad, leaveTemplate, leaveType, leaveCell,
             leaveLeakagePower, leaveBus, leavePin, leaveTiming, leaveInternalPower, leaveTable,
             leaveCurrentTable, leaveVector, Closes, Stop
    <3>3. visitGroup => UNCHANGED file
      BY Zenon
         DEF visitGroup, visitLibrary, visitWireLoad, visitLuTableTemplate,
             visitOutputCurrentTemplate, visitType, visitCell, visitLeakagePower, visitBus,
             visitPin, visitTiming, visitInternalPower, visitTable, visitPowerTable,
             visitCurrentTable, visitVector, pass_over, AddsTable, Sets, Stop
    <3>4. cannot_read \/ nameless_library => UNCHANGED file
      BY Zenon DEF cannot_read, nameless_library, Stop
    <3> QED BY <1>1, <3>1, <3>2, <3>3, <3>4 DEF Next
  <2>s. cannot_read \/ nameless_library => error = None /\ \E what : Stop(what)
    BY Zenon DEF cannot_read, nameless_library, Reaches
  <2>2. IInv'
    BY <1>1, <2>s, HomesAfterStop, VisitingAttribute, EnteringGroup, LeavingGroup
       DEF Inductive, Next
  <2>3. NoWire'
    BY <1>1, <2>s, <2>2, FreeStopping, FreeAttributes, FreeVisiting, FreeLeavingGroup
       DEF Inductive, Next
  <2> QED BY <1>1, <2>1, <2>2, <2>3, StaysBegun DEF Inductive
<1>2. CASE UNCHANGED vars
  <2>1. UNCHANGED <<file, stack, builder, kinds, error>>
    BY <1>2 DEF vars
  <2>2. TypeOK'
    <3>1. (DOMAIN builder = DOMAIN LibBuilder /\ stack \in Seq(Frame))'
      BY <2>1 DEF Inductive, IInv, TypeOK, LibBuilder, Frame
    <3>2. ASSUME NEW k \in 1 .. Len(stack) PROVE FrameOK(k)'
      <4>1. FrameOK(k)
        BY DEF Inductive, IInv, TypeOK
      <4> QED BY <2>1, <4>1 DEF FrameOK, Is, Group, Groups, Parent, Left, Stmts
    <3> QED BY <2>1, <3>1, <3>2 DEF TypeOK
  <2>3. PointersAtHome'
    <3>1. ASSUME NEW k \in 1 .. Len(stack), error = None
          PROVE  (AtHome(stack[k].g, k = Len(stack)))'
      <4>1. AtHome(stack[k].g, k = Len(stack))
        BY <3>1 DEF Inductive, IInv, PointersAtHome
      <4> QED BY <2>1, <4>1 DEF AtHome, Is, InBus, Home, Portless, Parent, Group, NoPorts
    <3> QED BY <2>1, <3>1 DEF PointersAtHome
  <2>4. NoWire'
    BY <2>1 DEF Inductive, NoWire, WireFree, Is, Group
  <2> QED BY <2>1, <2>2, <2>3, <2>4 DEF Inductive, IInv, Begun, LibBuilder
<1> QED BY <1>1, <1>2

\* Whatever file is linked, as long as no error stops it, an open group finds
\* itself in the builder's pointers (RustLibertyReader's visit functions).
THEOREM PointersStayHome == Spec => []IInv
<1>1. Spec => []Inductive
  BY InductiveInit, InductiveNext, PTL DEF Spec
<1>2. Inductive => IInv
  BY DEF Inductive
<1> QED BY <1>1, <1>2, PTL

-----------------------------------------------------------------------------
\* Where the pointers lead from an open group.

LEMMA ParentAtHome ==
  ASSUME file \in LibFiles, IInv, error = None, stack # << >>, ~Is(Top.g, {"library"}),
         NEW p, p = Parent(Top.g)
  PROVE  AtHome(p, FALSE) /\ p \in Nat
<1>0. PICK n : n = Len(stack)
  OBVIOUS
<1>1. n \in Nat \ {0} /\ n \in 1 .. n /\ Top = stack[n]
  BY <1>0, TopGroup DEF IInv
<1>2. FrameOK(n)
  BY <1>0, <1>1 DEF IInv, TypeOK
<1>3. n # 1
  BY <1>1, <1>2, GroupsOfFile DEF FrameOK, Is
<1>4. n - 1 \in 1 .. n - 1 /\ n - 1 \in 1 .. n /\ p = stack[n - 1].g
  BY <1>1, <1>2, <1>3 DEF FrameOK
<1>5. p \in Groups
  BY <1>0, <1>4, Below DEF IInv
<1> QED BY <1>0, <1>4, <1>5, Below, GroupsOfFile

LEMMA HomeIsThere ==
  ASSUME file \in LibFiles, IInv, error = None, stack # << >>, NEW t, t = Top.g
  PROVE  (Home(t) # None) <=> ~Portless(t)
<1>1. t \in Nat /\ Len(Group(t).names) \in Nat
  BY TopGroup, GroupsOfFile DEF IInv
<1>2. InBus(t) => Parent(t) \in Nat
  BY ParentAtHome DEF InBus, Is
<1>3. ~Portless(t) => Home(t) \in Nat \X Nat
  BY <1>1, <1>2 DEF Home, InBus, Is, Portless
<1>4. Portless(t) => Home(t) = None
  BY DEF Home, Portless
<1> QED BY <1>3, <1>4, NoneAssumption

\* What an attribute of the group on top reaches.
LEMMA Reached ==
  ASSUME file \in LibFiles, IInv, error = None, stack # << >>, NEW t, t = Top.g
  PROVE  /\ Is(t, {"pin", "bus", "bundle"}) =>
              PortInUse = Home(t) /\ builder.port \in {None, Home(t)}
         /\ Is(t, Objects) => builder.obj = Home(t)
         /\ Is(t, {"wire_load"}) => PortInUse = None
         /\ Is(t, {"bus", "bundle"}) => builder.port_bus = Home(t)
         /\ Is(t, {"cell"}) => builder.cell = Home(t)
         /\ Is(t, {"leakage_power"}) =>
              builder.leakage_power = Home(t) /\ builder.own_pg_or_when_type = "leakage_power"
         /\ Is(t, {"timing"}) => builder.arc = Home(t) /\ builder.own_port_type = "arc"
         /\ Is(t, {"internal_power"}) =>
              /\ builder.power_arc = Home(t) /\ builder.own_port_type = "power_arc"
              /\ builder.own_pg_or_when_type = "power_arc"
<1>1. AtHome(t, TRUE)
  BY TopAtHome
<1>2. ~Is(t, {"pin"}) => Home(t) = <<t, 1>>
  BY DEF Home, InBus, Is, Portless
<1>3. CASE Is(t, {"pin"}) /\ ~InBus(t)
  <2>1. builder.port = Home(t) /\ builder.port_bus = None
    BY <1>1, <1>3 DEF AtHome
  <2>3. PortInUse = Home(t)
    BY <2>1 DEF PortInUse
  <2> QED BY <1>3, <2>1, <2>3 DEF Is, Objects, DelayTables, PowerTables
<1>4. CASE InBus(t)
  <2>1. PICK p : p = Parent(t)
    OBVIOUS
  <2>2. AtHome(p, FALSE) /\ Is(p, {"bus", "bundle"}) /\ p \in Nat
    BY <1>4, <2>1, ParentAtHome DEF InBus, Is
  <2>3. Home(t) = <<p, 1>> /\ builder.port_bus = <<p, 1>> /\ builder.port \in {None, <<p, 1>>}
    BY <1>4, <2>1, <2>2 DEF AtHome, Home, Portless
  <2>4. PortInUse = Home(t)
    BY <2>3 DEF PortInUse
  <2> QED BY <1>4, <2>3, <2>4 DEF InBus, Is, Objects, DelayTables, PowerTables
<1>5. CASE ~Is(t, {"pin"})
  <2>1. /\ Is(t, {"bus", "bundle"}) =>
             builder.port_bus = <<t, 1>> /\ builder.port \in {None, <<t, 1>>}
        /\ Is(t, {"cell"}) => builder.cell = <<t, 1>>
        /\ Is(t, Objects) => builder.obj = <<t, 1>>
        /\ Is(t, {"leakage_power"}) =>
             builder.leakage_power = <<t, 1>> /\ builder.own_pg_or_when_type = "leakage_power"
        /\ Is(t, {"timing"}) => builder.arc = <<t, 1>> /\ builder.own_port_type = "arc"
        /\ Is(t, {"internal_power"}) =>
             /\ builder.power_arc = <<t, 1>> /\ builder.own_port_type = "power_arc"
             /\ builder.own_pg_or_when_type = "power_arc"
    BY <1>1 DEF AtHome
  <2>2. Is(t, {"bus", "bundle"}) => PortInUse = <<t, 1>>
    BY <2>1 DEF PortInUse
  <2>3. Is(t, {"wire_load"}) => PortInUse = None
    <3>1. SUFFICES ASSUME Is(t, {"wire_load"}) PROVE NoPorts
      BY DEF PortInUse, NoPorts
    <3>2. PICK n : n = Len(stack)
      OBVIOUS
    <3>3. n \in Nat \ {0} /\ n \in 1 .. n /\ t = stack[n].g
      BY <3>2, TopGroup DEF IInv
    <3>4. FrameOK(n)
      BY <3>2, <3>3 DEF IInv, TypeOK
    <3>5. n # 1
      BY <3>1, <3>3, <3>4, GroupsOfFile DEF FrameOK, Is
    <3>6. <<Group(t).name, Group(Parent(t)).name>> \in Nesting
      BY <3>3, <3>4, <3>5 DEF FrameOK
    <3>7. Is(Parent(t), {"library"})
      BY <3>1, <3>6, ParentOf DEF Is
    <3> QED BY <1>1, <3>1, <3>7 DEF AtHome, Is
  <2> QED BY <1>2, <1>5, <2>1, <2>2, <2>3 DEF Is
<1> QED BY <1>3, <1>4, <1>5 DEF InBus

-----------------------------------------------------------------------------
\* Where a simple attribute goes.

LEMMA HomeOfStatement ==
  ASSUME file \in LibFiles, IInv, At("simple") \/ At("complex"), NEW t, t = Top.g
  PROVE  /\ error = None /\ stack # << >>
         /\ Statement.kind = "simple" /\ Statement.attr \in DOMAIN Attributes =>
              <<Attributes[Statement.attr].of, Group(t).name>> \in HomesOf
         /\ Statement.kind = "complex" /\ Of(Statement) # "nobody" =>
              <<Of(Statement), Group(t).name>> \in HomesOf
<1>1. /\ error = None /\ stack # << >> /\ Top.left # {}
      /\ Statement.kind = "simple" \/ Statement.kind = "complex"
  BY DEF At, Reaches
<1>2. IsStatement(file, t, Statement) /\ Current \in Left(t)
  BY <1>1, StatementOfTop DEF IInv
<1>3. Group(t).name \in Supported \cup {"library"}
  BY <1>1, TopGroup DEF IInv
<1>4. ~(Statement.kind = "complex" /\ Group(t).name = "internal_power")
  BY <1>2 DEF Left, Statement
<1>5. Statement.kind = "simple" /\ Statement.attr \in DOMAIN Attributes =>
        Of(Statement) = Attributes[Statement.attr].of
  BY DEF Of
<1> QED BY <1>1, <1>2, <1>3, <1>4, <1>5 DEF IsStatement, Group

\* What a simple attribute may be: the pointers followed are those of HomesOf,
\* only an arc gets a timing type, only a condition may be for nobody, and a
\* condition sets nothing else.
Pointers == {"lib", "port", "port_bus", "port_or_wire_load", "cell", "cell_if_any", "wire_load",
             "arc", "own_arc", "leakage_power", "own_power", "own_power_if_any", "template",
             "vector", "type"}
OtherFields == {"snk_port", "table_template", "fanout_to_length", "table_values", "cap_unit"}
Special == OtherFields \cup {"timing_type", "when", "related_pg_port", "bus_type"}
Directs(a, d) ==
  /\ d.of \in Pointers
  /\ \A x \in d.at : x[1] = "timing_type" => d.of = "arc"
  /\ d.of = "own_power_if_any" => a = "when"
  /\ \A x \in d.at : x[1] \notin OtherFields
  /\ \A x \in d.at : x[1] \in {"when", "related_pg_port"} => d.at = One(x[1])
  /\ a = "when" => d.at = One("when")
  /\ a = "bus_type" => d.at = One("bus_type")
DirectsAll(f) == \A a \in DOMAIN f : Directs(a, f[a])

LEMMA MergeDirects == ASSUME NEW f, NEW g, DirectsAll(f), DirectsAll(g) PROVE DirectsAll(f @@ g)
<1>1. PICK h : h = f @@ g
  OBVIOUS
<1>2. /\ DOMAIN (f @@ g) = DOMAIN f \cup DOMAIN g
      /\ \A z \in DOMAIN f : (f @@ g)[z] = f[z]
      /\ \A z \in DOMAIN g \ DOMAIN f : (f @@ g)[z] = g[z]
  BY MergeIs, Zenon
<1>3. DirectsAll(h)
  BY <1>1, <1>2 DEF DirectsAll
<1> QED BY <1>1, <1>3, Zenon

LEMMA PairDirects == ASSUME NEW a, NEW d, Directs(a, d) PROVE DirectsAll(a :> d)
<1>1. PICK h : h = a :> d
  OBVIOUS
<1>2. DOMAIN h = {a} /\ h[a] = d
  BY <1>1, OnlyIs, Zenon
<1>3. DirectsAll(h)
  BY <1>2 DEF DirectsAll
<1> QED BY <1>1, <1>3, Zenon

LEMMA OneIs == ASSUME NEW f PROVE \A x \in One(f) : x[1] = f
<1>1. PICK e : e = ""
  OBVIOUS
<1>2. One(f) = {<<f, e>>}
  BY <1>1, Zenon DEF One
<1> QED BY <1>2

\* Of several fields, or elements of an array.
LEMMA SomeDirect ==
  ASSUME NEW a, NEW of \in Pointers, of # "own_power_if_any", NEW unit, NEW f, NEW m, NEW g, NEW n,
         f \notin Special, g \notin Special, a \notin {"when", "bus_type"}
  PROVE  /\ DirectsAll(a :> To(of, unit, {<<f, m>>, <<g, n>>}))
         /\ DirectsAll(a :> To(of, unit, {<<f, m>>}))
<1>1. ASSUME NEW at, \A x \in at : x[1] \notin Special PROVE DirectsAll(a :> To(of, unit, at))
  <2>1. Directs(a, To(of, unit, at))
    BY <1>1 DEF Directs, To, Special
  <2> QED BY <2>1, PairDirects
<1>2. (\A x \in {<<f, m>>, <<g, n>>} : x[1] \notin Special) /\ (\A x \in {<<f, m>>} : x[1] \notin Special)
  OBVIOUS
<1> QED BY <1>1, <1>2

LEMMA OneDirect ==
  ASSUME NEW a, NEW of \in Pointers, NEW unit, NEW f, f \notin OtherFields,
         f = "timing_type" => of = "arc", of = "own_power_if_any" => a = "when",
         a \in {"when", "bus_type"} => f = a
  PROVE  Directs(a, To(of, unit, One(f)))
<1>1. PICK at : at = One(f) /\ \A x \in at : x[1] = f
  BY OneIs
<1>2. Directs(a, To(of, unit, at))
  BY <1>1 DEF Directs, To
<1> QED BY <1>1, <1>2

LEMMA OneDirects ==
  ASSUME NEW a, NEW of \in Pointers, NEW unit, NEW f, f \notin OtherFields, f # "timing_type",
         of = "own_power_if_any" => a = "when", a \in {"when", "bus_type"} => f = a
  PROVE  DirectsAll(a :> To(of, unit, One(f)))
BY OneDirect, PairDirects

LEMMA FamilyDirects ==
  ASSUME NEW S, NEW of \in Pointers, NEW unit, of # "own_power_if_any",
         S \cap OtherFields = {}, "timing_type" \in S => of = "arc"
  PROVE  DirectsAll([a \in S |-> To(of, unit, One(a))])
<1>1. \A a \in S : Directs(a, To(of, unit, One(a)))
  BY OneDirect
<1> QED BY <1>1 DEF DirectsAll

LEMMA AttributesAre == DirectsAll(Attributes)
<1>1. DirectsAll(LibraryAttributes)
  <2>1. DirectsAll([a \in Thresholds |-> To("lib", "percent", One(a))])
    BY FamilyDirects, Zenon DEF Pointers, OtherFields, Thresholds
  <2>2. DirectsAll("nom_voltage" :> To("lib", "", One("nom_voltage")))
    BY OneDirects, Zenon DEF Pointers, OtherFields
  <2> QED BY <2>1, <2>2, MergeDirects, Zenon DEF LibraryAttributes
<1>2. DirectsAll(DerateAttribute)
  BY OneDirects, Zenon DEF Pointers, OtherFields, DerateAttribute
<1>3. DirectsAll(UnitAttributes)
  <2>1. DirectsAll("pulling_resistance_unit" :> To("lib", "", One("resistance_unit")))
    BY OneDirects, Zenon DEF Pointers, OtherFields
  <2>2. DirectsAll("time_unit" :> To("lib", "", One("time_unit")))
    BY OneDirects, Zenon DEF Pointers, OtherFields
  <2> QED BY <2>1, <2>2, MergeDirects, Zenon DEF UnitAttributes
<1>4. DirectsAll(DefaultAttributes)
  BY FamilyDirects, Zenon DEF Pointers, OtherFields, DefaultAttributes
<1>5. DirectsAll(LoadDefaults)
  BY FamilyDirects, Zenon DEF Pointers, OtherFields, LoadDefaults
<1>6. DirectsAll(DirectionAttribute)
  BY OneDirects, Zenon DEF Pointers, OtherFields, DirectionAttribute
<1>7. DirectsAll(ClockGatePinAttributes)
  BY FamilyDirects, Zenon DEF Pointers, OtherFields, ClockGatePinAttributes
<1>8. DirectsAll(FanoutLoadAttribute)
  BY OneDirects, Zenon DEF Pointers, OtherFields, FanoutLoadAttribute
<1>9. DirectsAll(CapacitanceAttribute)
  BY OneDirects, Zenon DEF Pointers, OtherFields, CapacitanceAttribute
<1>10. DirectsAll(EdgeCapAttributes)
  <2>1. DirectsAll("rise_capacitance" :> To("port", "cap", {<<"port_caps", "max rise">>, <<"port_caps", "min rise">>}))
    BY SomeDirect, Zenon DEF Pointers, Special, OtherFields
  <2>2. DirectsAll("fall_capacitance" :> To("port", "cap", {<<"port_caps", "max fall">>, <<"port_caps", "min fall">>}))
    BY SomeDirect, Zenon DEF Pointers, Special, OtherFields
  <2> QED BY <2>1, <2>2, MergeDirects, Zenon DEF EdgeCapAttributes
<1>11. DirectsAll(CapLimitAttributes)
  <2>1. DirectsAll("max_capacitance" :> To("port", "cap", {<<"cap_limits", "max">>}))
    BY SomeDirect, Zenon DEF Pointers, Special, OtherFields
  <2>2. DirectsAll("min_capacitance" :> To("port", "cap", {<<"cap_limits", "min">>}))
    BY SomeDirect, Zenon DEF Pointers, Special, OtherFields
  <2> QED BY <2>1, <2>2, MergeDirects, Zenon DEF CapLimitAttributes
<1>12. DirectsAll(SlewLimitAttributes)
  <2>1. DirectsAll("max_transition" :> To("port", "", {<<"cap_limits", "max">>}))
    BY SomeDirect, Zenon DEF Pointers, Special, OtherFields
  <2>2. DirectsAll("min_transition" :> To("port", "", {<<"cap_limits", "min">>}))
    BY SomeDirect, Zenon DEF Pointers, Special, OtherFields
  <2> QED BY <2>1, <2>2, MergeDirects, Zenon DEF SlewLimitAttributes
<1>13. DirectsAll(FunctionAttribute)
  BY SomeDirect, Zenon DEF Pointers, Special, OtherFields, FunctionAttribute
<1>14. DirectsAll(AreaAttribute)
  BY OneDirects, Zenon DEF Pointers, OtherFields, AreaAttribute
<1>15. DirectsAll(CellAttributes)
  <2>1. DirectsAll("is_macro_cell" :> To("cell", "", One("is_macro_cell")))
    BY OneDirects, Zenon DEF Pointers, OtherFields
  <2>2. DirectsAll("cell_leakage_power" :> To("cell", "", One("cell_leakage_power")))
    BY OneDirects, Zenon DEF Pointers, OtherFields
  <2>3. DirectsAll("clock_gating_integrated_cell" :> To("cell", "", {<<"clock_gating_integrated_cell", "">>, <<"is_clock_gating_integrated_cell", "">>}))
    BY SomeDirect, Zenon DEF Pointers, Special, OtherFields
  <2> QED BY <2>1, <2>2, <2>3, MergeDirects, Zenon DEF CellAttributes
<1>16. DirectsAll(WireLoadAttributes)
  <2>1. DirectsAll("resistance" :> To("wire_load", "res", One("resistance_per_length_unit")))
    BY OneDirects, Zenon DEF Pointers, OtherFields
  <2>2. DirectsAll("slope" :> To("wire_load", "", One("slope")))
    BY OneDirects, Zenon DEF Pointers, OtherFields
  <2> QED BY <2>1, <2>2, MergeDirects, Zenon DEF WireLoadAttributes
<1>17. DirectsAll(RelatedPinAttribute)
  BY OneDirects, Zenon DEF Pointers, OtherFields, RelatedPinAttribute
<1>18. DirectsAll(RelatedPgAttribute)
  BY OneDirects, Zenon DEF Pointers, OtherFields, RelatedPgAttribute
<1>19. DirectsAll(WhenAttribute)
  BY OneDirects, Zenon DEF Pointers, OtherFields, WhenAttribute
<1>20. DirectsAll(ValueAttribute)
  BY OneDirects, Zenon DEF Pointers, OtherFields, ValueAttribute
<1>21. DirectsAll(ArcAttributes)
  BY FamilyDirects, Zenon DEF Pointers, OtherFields, ArcAttributes
<1>22. DirectsAll(VariableAttributes)
  BY FamilyDirects, Zenon DEF Pointers, OtherFields, VariableAttributes
<1>23. DirectsAll(ReferenceTimeAttribute)
  BY OneDirects, Zenon DEF Pointers, OtherFields, ReferenceTimeAttribute
<1>24. DirectsAll(TypeAttributes)
  BY FamilyDirects, Zenon DEF Pointers, OtherFields, TypeAttributes
<1>25. DirectsAll(BusTypeAttribute)
  BY OneDirects, Zenon DEF Pointers, OtherFields, BusTypeAttribute
<1>26. DirectsAll(LibraryAttributes @@ DerateAttribute @@ UnitAttributes @@ DefaultAttributes)
  BY <1>1, <1>2, <1>3, <1>4, MergeDirects, Zenon
<1>27. DirectsAll(LibraryAttributes @@ DerateAttribute @@ UnitAttributes @@ DefaultAttributes
                @@ LoadDefaults @@ DirectionAttribute @@ ClockGatePinAttributes)
  BY <1>26, <1>5, <1>6, <1>7, MergeDirects, Zenon
<1>28. DirectsAll(LibraryAttributes @@ DerateAttribute @@ UnitAttributes @@ DefaultAttributes
                @@ LoadDefaults @@ DirectionAttribute @@ ClockGatePinAttributes
                @@ FanoutLoadAttribute @@ CapacitanceAttribute @@ EdgeCapAttributes)
  BY <1>27, <1>8, <1>9, <1>10, MergeDirects, Zenon
<1>29. DirectsAll(LibraryAttributes @@ DerateAttribute @@ UnitAttributes @@ DefaultAttributes
                @@ LoadDefaults @@ DirectionAttribute @@ ClockGatePinAttributes
                @@ FanoutLoadAttribute @@ CapacitanceAttribute @@ EdgeCapAttributes
                @@ CapLimitAttributes @@ SlewLimitAttributes @@ FunctionAttribute)
  BY <1>28, <1>11, <1>12, <1>13, MergeDirects, Zenon
<1>30. DirectsAll(LibraryAttributes @@ DerateAttribute @@ UnitAttributes @@ DefaultAttributes
                @@ LoadDefaults @@ DirectionAttribute @@ ClockGatePinAttributes
                @@ FanoutLoadAttribute @@ CapacitanceAttribute @@ EdgeCapAttributes
                @@ CapLimitAttributes @@ SlewLimitAttributes @@ FunctionAttribute @@ AreaAttribute
                @@ CellAttributes @@ WireLoadAttributes)
  BY <1>29, <1>14, <1>15, <1>16, MergeDirects, Zenon
<1>31. DirectsAll(LibraryAttributes @@ DerateAttribute @@ UnitAttributes @@ DefaultAttributes
                @@ LoadDefaults @@ DirectionAttribute @@ ClockGatePinAttributes
                @@ FanoutLoadAttribute @@ CapacitanceAttribute @@ EdgeCapAttributes
                @@ CapLimitAttributes @@ SlewLimitAttributes @@ FunctionAttribute @@ AreaAttribute
                @@ CellAttributes @@ WireLoadAttributes @@ RelatedPinAttribute @@ RelatedPgAttribute
                @@ WhenAttribute)
  BY <1>30, <1>17, <1>18, <1>19, MergeDirects, Zenon
<1>32. DirectsAll(LibraryAttributes @@ DerateAttribute @@ UnitAttributes @@ DefaultAttributes
                @@ LoadDefaults @@ DirectionAttribute @@ ClockGatePinAttributes
                @@ FanoutLoadAttribute @@ CapacitanceAttribute @@ EdgeCapAttributes
                @@ CapLimitAttributes @@ SlewLimitAttributes @@ FunctionAttribute @@ AreaAttribute
                @@ CellAttributes @@ WireLoadAttributes @@ RelatedPinAttribute @@ RelatedPgAttribute
                @@ WhenAttribute @@ ValueAttribute @@ ArcAttributes @@ VariableAttributes)
  BY <1>31, <1>20, <1>21, <1>22, MergeDirects, Zenon
<1>33. DirectsAll(LibraryAttributes @@ DerateAttribute @@ UnitAttributes @@ DefaultAttributes
                @@ LoadDefaults @@ DirectionAttribute @@ ClockGatePinAttributes
                @@ FanoutLoadAttribute @@ CapacitanceAttribute @@ EdgeCapAttributes
                @@ CapLimitAttributes @@ SlewLimitAttributes @@ FunctionAttribute @@ AreaAttribute
                @@ CellAttributes @@ WireLoadAttributes @@ RelatedPinAttribute @@ RelatedPgAttribute
                @@ WhenAttribute @@ ValueAttribute @@ ArcAttributes @@ VariableAttributes
                @@ ReferenceTimeAttribute @@ TypeAttributes @@ BusTypeAttribute)
  BY <1>32, <1>23, <1>24, <1>25, MergeDirects, Zenon
<1> QED BY <1>33 DEF Attributes

\* Which groups an attribute with a given pointer stands in.
LEMMA HomesAre ==
  ASSUME NEW of, NEW name, <<of, name>> \in HomesOf
  PROVE  \/ of = "lib"
         \/ of = "port" /\ name \in {"pin", "bus", "bundle"}
         \/ of = "port_bus" /\ name \in {"bus", "bundle"}
         \/ of = "port_or_wire_load" /\ name \in {"pin", "bus", "bundle", "wire_load"}
         \/ of \in {"cell", "cell_if_any"} /\ name = "cell"
         \/ of = "wire_load" /\ name = "wire_load"
         \/ of = "arc" /\ name = "timing"
         \/ of = "own_arc" /\ name \in {"timing", "internal_power"}
         \/ of = "leakage_power" /\ name = "leakage_power"
         \/ of = "own_power" /\ name \in {"leakage_power", "internal_power"}
         \/ of = "own_power_if_any" /\ name \in {"leakage_power", "internal_power", "timing"}
         \/ of \in {"template", "vector", "type", "obj", "table"} /\ name \in Objects
  BY DEF HomesOf, Objects

\* In a pin of no ports there is no wire load.
LEMMA NoWireLoad ==
  ASSUME file \in LibFiles, IInv, NoWire, error = None, stack # << >>, Portless(Top.g)
  PROVE  Cast({"wire_load"}) = None
<1>0. PICK n : n = Len(stack)
  OBVIOUS
<1>1. n \in Nat \ {0} /\ n \in 1 .. n /\ Top = stack[n]
  BY <1>0, TopGroup DEF IInv
<1>2. FrameOK(n) /\ Is(Top.g, {"pin"}) /\ ~InBus(Top.g)
  BY <1>0, <1>1 DEF IInv, TypeOK, Portless
<1>3. n # 1
  BY <1>1, <1>2, GroupsOfFile DEF FrameOK, Is
<1>4. /\ n - 1 \in 1 .. n /\ Parent(Top.g) = stack[n - 1].g
      /\ <<Group(Top.g).name, Group(stack[n - 1].g).name>> \in Nesting
  BY <1>1, <1>2, <1>3 DEF FrameOK
<1>5. Is(stack[n - 1].g, {"cell"})
  BY <1>2, <1>4, ParentOf DEF Is, InBus
<1>6. WireFree
  BY <1>0, <1>4, <1>5 DEF NoWire
<1> QED BY <1>6 DEF WireFree, Cast

LEMMA SimpleGoesHome ==
  ASSUME file \in LibFiles, IInv, NoWire, At("simple"), ~Strays, NEW t, t = Top.g,
         NEW o \in Receivers(Statement)
  PROVE  /\ o \in {None, Nobody, Library, Home(t)}
         /\ Statement.attr \in DOMAIN Attributes => o \in {None, Owner(t, Statement)}
<1>0. error = None /\ stack # << >> /\ Statement.kind = "simple"
  BY DEF At, Reaches
<1>1. CASE Statement.attr \notin DOMAIN Attributes
  BY <1>1 DEF Receivers
<1>2. CASE Statement.attr \in DOMAIN Attributes
  <2>1. PICK of : of = Attributes[Statement.attr].of
    OBVIOUS
  <2>2. <<of, Group(t).name>> \in HomesOf
    BY <1>0, <1>2, <2>1, HomeOfStatement
  <2>3. of = "own_power_if_any" => ~Is(t, {"timing"})
    BY <1>0, <1>2, <2>1 DEF Strays, Of
  <2>4. o \in CASE of = "lib" -> {Library}
                [] of = "port" -> {PortInUse}
                [] of = "port_or_wire_load" ->
                     {IF PortInUse # None THEN PortInUse ELSE Cast({"wire_load"})}
                [] of = "cell_if_any" -> {IF builder.cell = None THEN Nobody ELSE builder.cell}
                [] of = "wire_load" -> {Cast({"wire_load"})}
                [] of = "template" -> {Cast(Templates)}
                [] of = "vector" -> {Cast({"vector"})}
                [] of = "type" -> {Cast({"type"})}
                [] of = "own_arc" -> OwnArcs
                [] of = "own_power" -> OwnPowers
                [] of = "own_power_if_any" -> OwnPowersIfAny
                [] OTHER -> {builder[of]}
    BY <1>2, <2>1 DEF Receivers
  <2>5. \A classes : Cast(classes) \in {None, builder.obj}
    BY DEF Cast
  <2>0. SUFFICES o \in {None, IF of = "lib" THEN Library ELSE Home(t)}
    BY <2>1 DEF Owner
  <2>6. CASE of = "lib"
    BY <2>4, <2>6
  <2>7. CASE of = "port" /\ Is(t, {"pin", "bus", "bundle"})
    BY <1>0, <2>4, <2>7, Reached
  <2>8. CASE of = "port_bus" /\ Is(t, {"bus", "bundle"})
    BY <1>0, <2>4, <2>8, Reached
  <2>9. CASE of = "port_or_wire_load" /\ Is(t, {"pin", "bus", "bundle"})
    <3>1. PortInUse = Home(t)
      BY <1>0, <2>9, Reached
    <3>2. Portless(t) => Cast({"wire_load"}) = None
      BY <1>0, NoWireLoad
    <3>3. ~Portless(t) => Home(t) # None
      BY <1>0, HomeIsThere
    <3>4. o = IF PortInUse # None THEN PortInUse ELSE Cast({"wire_load"})
      BY <2>4, <2>9
    <3> QED BY <2>9, <3>1, <3>2, <3>3, <3>4
  <2>10. CASE of \in {"port_or_wire_load", "wire_load"} /\ Is(t, {"wire_load"})
    <3>1. PortInUse = None /\ builder.obj = Home(t)
      BY <1>0, <2>10, Reached DEF Is, Objects
    <3>2. o = Cast({"wire_load"})
      BY <2>4, <2>10, <3>1
    <3> QED BY <2>10, <2>5, <3>1, <3>2
  <2>11. CASE of \in {"cell", "cell_if_any"} /\ Is(t, {"cell"})
    <3>1. Home(t) # None
      BY <1>0, <2>11, HomeIsThere DEF Portless, Is
    <3> QED BY <1>0, <2>4, <2>11, <3>1, Reached
  <2>12. CASE of = "arc" /\ Is(t, {"timing"})
    BY <1>0, <2>4, <2>12, Reached
  <2>13. CASE of = "own_arc" /\ Is(t, {"timing", "internal_power"})
    <3>1. o \in OwnArcs
      BY <2>4, <2>13
    <3>2. \/ builder.own_port_type = "arc" /\ builder.arc = Home(t)
          \/ builder.own_port_type = "power_arc" /\ builder.power_arc = Home(t)
      BY <1>0, <2>13, Reached DEF Is
    <3> QED BY <2>13, <3>1, <3>2 DEF OwnArcs, Read
  <2>14. CASE of = "leakage_power" /\ Is(t, {"leakage_power"})
    BY <1>0, <2>4, <2>14, Reached
  <2>15. CASE of \in {"own_power", "own_power_if_any"} /\ Is(t, {"leakage_power", "internal_power"})
    <3>1. o \in OwnPowers \cup OwnPowersIfAny
      BY <2>4, <2>15
    <3>2. \/ builder.own_pg_or_when_type = "leakage_power" /\ builder.leakage_power = Home(t)
          \/ builder.own_pg_or_when_type = "power_arc" /\ builder.power_arc = Home(t)
      BY <1>0, <2>15, Reached DEF Is
    <3>3. Home(t) # None
      BY <1>0, <2>15, HomeIsThere DEF Portless, Is
    <3> QED BY <2>15, <3>1, <3>2, <3>3 DEF OwnPowers, OwnPowersIfAny, Read
  <2>16. CASE of \in {"template", "vector", "type"} /\ Is(t, Objects)
    <3>1. builder.obj = Home(t)
      BY <1>0, <2>16, Reached
    <3>2. o = builder.obj \/ \E classes : o = Cast(classes)
      BY <2>4, <2>16
    <3> QED BY <2>16, <2>5, <3>1, <3>2
  <2>17. of \in Pointers
    BY <1>2, <2>1, AttributesAre DEF DirectsAll, Directs
  <2> QED BY <2>2, <2>3, <2>6, <2>7, <2>8, <2>9, <2>10, <2>11, <2>12, <2>13, <2>14, <2>15, <2>16,
             <2>17, HomesAre DEF Is, Pointers
<1> QED BY <1>1, <1>2

-----------------------------------------------------------------------------
\* What a step may do to the attributes.
GoHome == \A k \in DOMAIN attrs' : (k \in DOMAIN attrs /\ attrs'[k] = attrs[k])
                                   \/ k[1] = Library \/ k[1] = Home(Top.g)

LEMMA MergeGoesHome ==
  ASSUME NEW w, attrs' = w @@ attrs, \A k \in DOMAIN w : k[1] \in {Library, Home(Top.g)}
  PROVE  GoHome
<1>1. /\ DOMAIN (w @@ attrs) = DOMAIN w \cup DOMAIN attrs
      /\ \A z \in DOMAIN attrs \ DOMAIN w : (w @@ attrs)[z] = attrs[z]
  BY MergeIs, Zenon
<1>2. /\ DOMAIN attrs' = DOMAIN w \cup DOMAIN attrs
      /\ \A z \in DOMAIN attrs \ DOMAIN w : attrs'[z] = attrs[z]
  BY <1>1, Zenon
<1> QED BY <1>2 DEF GoHome

LEMMA SameGoesHome == ASSUME attrs' = attrs PROVE GoHome
  BY DEF GoHome

LEMMA PairGoesHome ==
  ASSUME NEW o, NEW f, NEW n, NEW v, o \in {Library, Home(Top.g)}
  PROVE  \A k \in DOMAIN (<<o, f, n>> :> v) : k[1] \in {Library, Home(Top.g)}
<1>1. DOMAIN (<<o, f, n>> :> v) = {<<o, f, n>>}
  BY OnlyIs, Zenon
<1>2. ASSUME NEW k \in DOMAIN (<<o, f, n>> :> v) PROVE k[1] \in {Library, Home(Top.g)}
  <2>1. k = <<o, f, n>>
    BY <1>1, <1>2, Zenon
  <2> QED BY <2>1
<1> QED BY <1>2

LEMMA PairIsSet ==
  ASSUME NEW o, NEW f, NEW n, NEW v, o \in {Library, Home(Top.g)},
         attrs' = (<<o, f, n>> :> v) @@ attrs
  PROVE  GoHome
<1>1. \A k \in DOMAIN (<<o, f, n>> :> v) : k[1] \in {Library, Home(Top.g)}
  BY PairGoesHome
<1>2. PICK w : w = <<o, f, n>> :> v
  OBVIOUS
<1>3. attrs' = w @@ attrs /\ \A k \in DOMAIN w : k[1] \in {Library, Home(Top.g)}
  BY <1>1, <1>2, Zenon
<1> QED BY <1>3, MergeGoesHome

LEMMA NothingIsSet == ASSUME attrs' = << >> @@ attrs PROVE GoHome
<1> DEFINE w == << >>
<1>1. \A k \in DOMAIN w : k[1] \in {Library, Home(Top.g)}
  OBVIOUS
<1>2. attrs' = w @@ attrs
  OBVIOUS
<1> HIDE DEF w
<1> QED BY <1>1, <1>2, MergeGoesHome

LEMMA OfComplex ==
  ASSUME NEW s, s.kind = "complex"
  PROVE  /\ s.attr \in DOMAIN Ranges => Of(s) = "port"
         /\ s.attr = "fanout_length" => Of(s) = "wire_load"
         /\ s.attr \in Indices \cup {"values"} => Of(s) \in {"obj", "table"}
<1>1. DOMAIN Ranges = {"rise_capacitance_range", "fall_capacitance_range"}
  BY DEF Ranges
<1>2. CASE s.attr \in DOMAIN Ranges
  BY <1>1, <1>2 DEF Of, Indices
<1>3. CASE s.attr = "fanout_length"
  BY <1>1, <1>3 DEF Of, Indices
<1>4. CASE s.attr \in Indices \cup {"values"}
  BY <1>1, <1>4 DEF Of, Indices
<1> QED BY <1>1, <1>2, <1>3, <1>4

LEMMA SimpleSteps ==
  ASSUME file \in LibFiles, IInv, NoWire, visitSimpleAttri, ~Strays PROVE GoHome
<1>1. At("simple")
  BY Zenon DEF visitSimpleAttri
<1>2. PICK o \in Receivers(Statement) :
        \/ attrs' = attrs
        \/ /\ o # None /\ o # Nobody
           /\ attrs' = [k \in {<<o, at[1], at[2]>> : at \in Attributes[Statement.attr].at}
                          |-> Stored(Statement)] @@ attrs
  BY Zenon DEF visitSimpleAttri, Stop
<1>3. CASE attrs' = attrs
  BY <1>3, SameGoesHome
<1>4. CASE attrs' # attrs
  <2> DEFINE w == [k \in {<<o, at[1], at[2]>> : at \in Attributes[Statement.attr].at}
                     |-> Stored(Statement)]
  <2>1. attrs' = w @@ attrs /\ o # None /\ o # Nobody
    BY <1>2, <1>4, Zenon
  <2>2. o \in {Library, Home(Top.g)}
    BY <1>1, <2>1, SimpleGoesHome
  <2>3. \A k \in DOMAIN w : k[1] \in {Library, Home(Top.g)}
    BY <2>2
  <2> HIDE DEF w
  <2> QED BY <2>1, <2>3, MergeGoesHome
<1> QED BY <1>3, <1>4

LEMMA ComplexSteps ==
  ASSUME file \in LibFiles, IInv, visitAttributes, At("complex") PROVE GoHome
<1>1. PICK t : t = Top.g
  OBVIOUS
<1>2. error = None /\ stack # << >> /\ Statement.kind = "complex"
  BY DEF At, Reaches
<1>3. \A of : Of(Statement) = of /\ of # "nobody" => <<of, Group(t).name>> \in HomesOf
  BY <1>1, <1>2, HomeOfStatement, Zenon
<1>4. CASE capacitive_load_unit
  <2>1. PICK o, f, n, v : o = Library /\ f = "cap_unit" /\ n = "" /\ v = Plain("pf")
    BY Zenon
  <2>2. attrs' = (<<o, f, n>> :> v) @@ attrs \/ attrs' = << >> @@ attrs
    BY <1>4, <2>1, Zenon DEF capacitive_load_unit, Sets
  <2>3. o \in {Library, Home(Top.g)}
    BY <2>1, Zenon
  <2>4. CASE attrs' = (<<o, f, n>> :> v) @@ attrs
    BY <2>3, <2>4, PairIsSet
  <2> QED BY <2>2, <2>4, NothingIsSet
<1>5. CASE capacitance_range
  <2>1. PICK p, f, n, g, m, v, u :
          /\ p = builder.port
          /\ f = "port_caps" /\ n = Ranges[Statement.attr][1] /\ v = Plain(Statement.key)
          /\ g = "port_caps" /\ m = Ranges[Statement.attr][2] /\ u = Plain(Statement.val)
    OBVIOUS
  <2>2. \/ attrs' = attrs
        \/ p # None /\ attrs' = (<<p, f, n>> :> v @@ <<p, g, m>> :> u) @@ attrs
    BY <1>5, <2>1, Zenon DEF capacitance_range, Sets, Stop
  <2>3. Is(t, {"pin", "bus", "bundle"})
    <3>1. Of(Statement) = "port"
      BY <1>2, <1>5, OfComplex, Zenon DEF capacitance_range
    <3>2. PICK of, name : of = "port" /\ name = Group(t).name
      OBVIOUS
    <3>3. <<of, name>> \in HomesOf
      BY <1>3, <3>1, <3>2
    <3> QED BY <3>2, <3>3, HomesAre DEF Is
  <2>4. p # None => p \in {Library, Home(Top.g)}
    BY <1>1, <1>2, <2>1, <2>3, Reached
  <2>5. CASE attrs' = attrs
    BY <2>5, SameGoesHome
  <2>6. CASE p # None /\ attrs' = (<<p, f, n>> :> v @@ <<p, g, m>> :> u) @@ attrs
    <3>1. /\ \A k \in DOMAIN (<<p, f, n>> :> v) : k[1] \in {Library, Home(Top.g)}
          /\ \A k \in DOMAIN (<<p, g, m>> :> u) : k[1] \in {Library, Home(Top.g)}
      BY <2>4, <2>6, PairGoesHome
    <3>2. DOMAIN (<<p, f, n>> :> v @@ <<p, g, m>> :> u)
            = DOMAIN (<<p, f, n>> :> v) \cup DOMAIN (<<p, g, m>> :> u)
      BY MergeIs, Zenon
    <3>3. \A k \in DOMAIN (<<p, f, n>> :> v @@ <<p, g, m>> :> u) : k[1] \in {Library, Home(Top.g)}
      BY <3>1, <3>2, Zenon
    <3> QED BY <2>6, <3>3, MergeGoesHome, Zenon
  <2> QED BY <2>5, <2>6, <2>2
<1>6. CASE fanout_length
  <2>1. PICK w, f, n, v : /\ w = Cast({"wire_load"}) /\ f = "fanout_to_length"
                          /\ n = Statement.key /\ v = Plain(Statement.val)
    OBVIOUS
  <2>2. \/ attrs' = attrs \/ attrs' = << >> @@ attrs
        \/ /\ Cast({"wire_load"}) # None
           /\ attrs' = (<<Cast({"wire_load"}), "fanout_to_length", Statement.key>>
                          :> Plain(Statement.val)) @@ attrs
    BY <1>6, Zenon DEF fanout_length, Sets, Stop
  <2>3. Is(t, {"wire_load"})
    <3>1. Of(Statement) = "wire_load"
      BY <1>2, <1>6, OfComplex, Zenon DEF fanout_length
    <3>2. PICK of, name : of = "wire_load" /\ name = Group(t).name
      OBVIOUS
    <3>3. <<of, name>> \in HomesOf
      BY <1>3, <3>1, <3>2
    <3> QED BY <3>2, <3>3, HomesAre DEF Is
  <2>4. w # None => w \in {Library, Home(Top.g)}
    <3>1. builder.obj = Home(t)
      BY <1>1, <1>2, <2>3, Reached DEF Is, Objects
    <3> QED BY <1>1, <2>1, <3>1 DEF Cast
  <2>5. CASE w # None /\ attrs' = (<<w, f, n>> :> v) @@ attrs
    BY <2>4, <2>5, PairIsSet
  <2> QED BY <2>1, <2>2, <2>5, NothingIsSet, SameGoesHome
<1>7. CASE visitAxisOrValues
  <2>1. PICK w, f, n, v :
          /\ w = Cast(IF Statement.attr = "values" THEN Tables ELSE Tables \cup Templates)
          /\ f = "table_values" /\ n = "" /\ v = Plain(Statement.val)
    BY Zenon
  <2>2. \/ attrs' = attrs \/ attrs' = << >> @@ attrs
        \/ w # None /\ attrs' = (<<w, f, n>> :> v) @@ attrs
    BY <1>7, <2>1, Zenon DEF visitAxisOrValues, Sets, Stop
  <2>3. Is(t, Objects)
    <3>1. Of(Statement) \in {"obj", "table"}
      BY <1>2, <1>7, OfComplex, Zenon DEF visitAxisOrValues
    <3>2. PICK of, name : of = Of(Statement) /\ name = Group(t).name
      OBVIOUS
    <3>3. <<of, name>> \in HomesOf
      BY <1>3, <3>1, <3>2
    <3> QED BY <3>1, <3>2, <3>3, HomesAre DEF Is
  <2>4. w # None => w \in {Library, Home(Top.g)}
    <3>1. builder.obj = Home(t)
      BY <1>1, <1>2, <2>3, Reached
    <3> QED BY <1>1, <2>1, <3>1 DEF Cast
  <2>5. CASE w # None /\ attrs' = (<<w, f, n>> :> v) @@ attrs
    BY <2>4, <2>5, PairIsSet
  <2> QED BY <2>2, <2>5, NothingIsSet, SameGoesHome
<1>8. CASE other_complex
  <2>1. attrs' = << >> @@ attrs
    BY <1>8, Zenon DEF other_complex, Sets
  <2> QED BY <2>1, NothingIsSet
<1>9. ~visitSimpleAttri
  BY <1>2 DEF visitSimpleAttri, At, Reaches
<1> QED BY <1>4, <1>5, <1>6, <1>7, <1>8, <1>9 DEF visitAttributes

\* Whatever file is linked, an attribute is written to the library or to the
\* object of the group it stands in, but for conditions in timing groups
\* (visitSimpleAttri and visitComplexAttri of RustLibertyReader).
THEOREM NothingIsMisplaced == Spec => AttributesGoHome
<1>1. ASSUME Inductive, [Next]_vars
      PROVE  [(At("simple") \/ At("complex")) /\ ~Strays => GoHome]_vars
  <2> SUFFICES ASSUME Next, At("simple") \/ At("complex"), ~Strays PROVE GoHome
    BY <1>1
  <2>1. CASE visitAttributes
    <3>1. CASE visitSimpleAttri
      BY <1>1, <3>1, SimpleSteps DEF Inductive
    <3>2. CASE At("complex")
      BY <1>1, <2>1, <3>2, ComplexSteps DEF Inductive
    <3>3. At("simple") => visitSimpleAttri \/ At("complex")
      BY <2>1, Zenon
         DEF visitAttributes, capacitive_load_unit, capacitance_range, fanout_length,
             visitAxisOrValues, other_complex
    <3> QED BY <3>1, <3>2, <3>3
  <2>2. CASE leaveGroup
    <3>1. attrs' = attrs
      BY <2>2, Zenon
         DEF leaveGroup, leaveLibrary, leaveWireLoad, leaveTemplate, leaveType, leaveCell,
             leaveLeakagePower, leaveBus, leavePin, leaveTiming, leaveInternalPower, leaveTable,
             leaveCurrentTable, leaveVector, Closes, Stop
    <3> QED BY <3>1, SameGoesHome
  <2>3. CASE visitGroup
    <3>1. ~At("group")
      BY DEF At
    <3>2. visitLibrary
      BY <2>3, <3>1, Zenon
         DEF visitGroup, visitWireLoad, visitLuTableTemplate,
             visitOutputCurrentTemplate, visitType, visitCell, visitLeakagePower, visitBus,
             visitPin, visitTiming, visitInternalPower, visitTable, visitPowerTable,
             visitCurrentTable, visitVector, pass_over, Visits
    <3> QED BY <3>2, SameGoesHome, Zenon DEF visitLibrary
  <2>4. CASE cannot_read \/ nameless_library
    BY <2>4, SameGoesHome, Zenon DEF cannot_read, nameless_library, Stop
  <2> QED BY <2>1, <2>2, <2>3, <2>4 DEF Next
<1>2. Spec => []Inductive
  BY InductiveInit, InductiveNext, PTL DEF Spec
<1>3. Spec => [][(At("simple") \/ At("complex")) /\ ~Strays => GoHome]_vars
  BY <1>1, <1>2, PTL DEF Spec
<1> QED BY <1>3 DEF AttributesGoHome, GoHome

=============================================================================
