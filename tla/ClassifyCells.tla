--------------------------- MODULE ClassifyCells ---------------------------
(* LibClassifyCell: the cells of some libraries are put in classes of equal  *)
(* function, so that one can replace another of a different size.  A cell is *)
(* compared with the earlier cells of the same hash value.                   *)
(*                                                                           *)
(* A function is an expression: [op |-> "buffer", port], [op |-> "not",      *)
(* left] or [op, left, right], or None.  Hash values are taken for the free  *)
(* algebra of what the code combines: equal only where xor and + make them   *)
(* equal for every std::hash.  Collisions by chance only add comparisons.    *)
EXTENDS LibertyCell, BagsExt

CONSTANT LibSets  \* the lists of libraries to classify: sequences of sequences of cells

VARIABLES
  libs,           \* the libraries of the call
  todo,           \* the cells still to come, library after library
  hash_to_cells,  \* the cells seen so far, in order, by hash value
  same_cells      \* _func_same_cells: for a cell number, the cells of equal function

vars == <<libs, todo, hash_to_cells, same_cells>>

Cells == FlattenSeq(libs)

(* xor: what occurs an even number of times goes out.                        *)
Xor(a, b) == (a \cup b) \ (a \cap b)
CombineHash(a, b) == Xor({a}, {b})
hashCellPort(port) == CombineHash(port.name, <<"type", port.type>>)

RECURSIVE hashCellPortFuncExpr(_)
hashCellPortFuncExpr(expr) ==
  IF expr = None THEN {}
  ELSE CASE expr.op = "buffer" -> {expr.port}
         [] expr.op = "not" -> hashCellPortFuncExpr(expr.left)
         [] OTHER -> Xor(Xor(hashCellPortFuncExpr(expr.left), hashCellPortFuncExpr(expr.right)), {<<"op", expr.op>>})

(* The sum over the ports does not depend on their order.                    *)
calculateCellHash_InOrder(cell) ==
  [k \in DOMAIN cell.ports |-> <<hashCellPort(cell.ports[k]), hashCellPortFuncExpr(cell.ports[k].func)>>]
calculateCellHash(cell) ==
  FoldSeq(LAMBDA port, sum : BagAdd(BagAdd(sum, hashCellPort(port)), hashCellPortFuncExpr(port.func)),
          EmptyBag, cell.ports)

comparePort(p1, p2) == p1.name = p2.name /\ p1.type = p2.type

(* Operator by operator and port by port, left before right: equality.       *)
comparePortFunc(expr1, expr2) == expr1 = expr2

comparePorts(cell1, cell2) ==
  /\ Len(cell1.ports) = Len(cell2.ports)
  /\ \A k \in DOMAIN cell1.ports :
       LET p1 == cell1.ports[k]
           p2 == get_cell_port_or_port_bus(cell2, p1.name)
       IN  p2 # None /\ comparePort(p1, p2) /\ comparePortFunc(p1.func, p2.func)

compareTimingArc(set1, set2) ==
  Head(set1).src = Head(set2).src /\ Head(set1).snk = Head(set2).snk /\ Head(set1).type = Head(set2).type

(* getCellArcSetCount counts the ports, so a second cell may have more arcs. *)
getCellArcSetCount(cell) == Len(cell.ports)
compareTimingArcSets(cell1, cell2) ==
  /\ getCellArcSetCount(cell1) = getCellArcSetCount(cell2)
  /\ \A k \in DOMAIN cell1.arc_sets :
       LET arc == Head(cell1.arc_sets[k])
           found == findTypedArcSet(cell2, arc.src, arc.snk, arc.type)
       IN  found # 0 /\ compareTimingArc(cell1.arc_sets[k], cell2.arc_sets[found])

compareFunction(cell1, cell2) == comparePorts(cell1, cell2) /\ compareTimingArcSets(cell1, cell2)

-----------------------------------------------------------------------------
Init ==
  /\ libs \in LibSets
  /\ todo = [k \in DOMAIN Cells |-> k]
  /\ hash_to_cells = << >>
  /\ same_cells = << >>

InBucket(hash) == IF hash \in DOMAIN hash_to_cells THEN hash_to_cells[hash] ELSE <<>>
ClassOf(n) == IF n \in DOMAIN same_cells THEN same_cells[n] ELSE <<>>

(* A cell joins the class of every earlier cell it can stand for, and each   *)
(* of those joins its class.                                                 *)
classifyCell(n) ==
  LET hash == calculateCellHash(Cells[n])
      bucket == InBucket(hash)
      alike == SelectSeq(bucket, LAMBDA m : compareFunction(Cells[m], Cells[n]))
      Classes == DOMAIN same_cells \cup ToSet(alike) \cup (IF alike = <<>> THEN {} ELSE {n}) IN
  /\ hash_to_cells' = (hash :> Append(bucket, n)) @@ hash_to_cells
  /\ same_cells' = [m \in Classes |-> IF m = n THEN ClassOf(n) \o alike
                                      ELSE IF m \in ToSet(alike) THEN Append(ClassOf(m), n)
                                      ELSE ClassOf(m)]

(* The loop over the cells of a library; a cell not to be used is passed by. *)
classifyOneLibCell ==
  /\ todo # <<>>
  /\ IF Cells[Head(todo)].dont_use THEN UNCHANGED <<hash_to_cells, same_cells>>
     ELSE classifyCell(Head(todo))
  /\ todo' = Tail(todo)
  /\ UNCHANGED libs

(* Classifying again starts with no hashes but keeps the classes found.      *)
classifyLibCell ==
  /\ todo = <<>>
  /\ \A n \in DOMAIN same_cells : IsInjective(same_cells[n])  \* bound: one second call
  /\ todo' = [k \in DOMAIN Cells |-> k]
  /\ hash_to_cells' = << >>
  /\ UNCHANGED <<libs, same_cells>>

Next == classifyOneLibCell \/ classifyLibCell

Spec == Init /\ [][Next]_vars

-----------------------------------------------------------------------------
(* The classes, without buckets: of the cells seen, the pairs of which the   *)
(* later can stand for the earlier.                                          *)
Seen == {n \in DOMAIN Cells : \A k \in DOMAIN todo : todo[k] # n}
ArcKeys(cell) == {<<Head(cell.arc_sets[k]).src, Head(cell.arc_sets[k]).snk, Head(cell.arc_sets[k]).type>> :
                    k \in DOMAIN cell.arc_sets}
PortKeys(cell) == {<<cell.ports[k].name, cell.ports[k].type, cell.ports[k].func>> : k \in DOMAIN cell.ports}

(* Cells of equal ports, functions and arcs are in one another's class:      *)
(* buckets hide no such pair, in whatever order the ports, the arcs and the  *)
(* libraries come.  A class goes both ways, and nobody is in it whose ports  *)
(* or functions differ.  The file's header and the comments also claim equal *)
(* arcs (LibClassifyCell.cc:4); this is left out, since a later cell with    *)
(* more arcs is taken in.                                                    *)
ClassesAreAlike ==
  \A m, n \in Seen :
     (m # n /\ ~Cells[m].dont_use /\ ~Cells[n].dont_use)
       => LET equalPorts == PortKeys(Cells[m]) = PortKeys(Cells[n]) IN
          /\ equalPorts /\ ArcKeys(Cells[m]) = ArcKeys(Cells[n]) => Contains(ClassOf(m), n)
          /\ Contains(ClassOf(m), n) => Contains(ClassOf(n), m) /\ equalPorts

=============================================================================
