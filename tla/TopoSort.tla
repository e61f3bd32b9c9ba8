------------------------------ MODULE TopoSort ------------------------------
(***************************************************************************)
(* CircuitBuilder::get_toposorted_pins: the depth-first search that orders *)
(* the pins for every pass of Timer.  The recursion of dfs is kept as its  *)
(* activation records.  An arc is abstracted to the pin it leads to.       *)
(***************************************************************************)
EXTENDS PinOrder, FiniteSets, SequencesExt

CONSTANTS
  Pins,     \* the pins of the circuit
  Graphs,   \* the circuits: primary inputs, and each pin's fanout in order
  None      \* an empty std::optional

ASSUME PinsAssumption == IsFiniteSet(Pins)

ASSUME GraphsAssumption ==
  \A g \in Graphs : g.inputs \in SUBSET Pins /\ g.fanout \in [Pins -> Seq(Pins)]

ASSUME NoneAssumption == None \notin Seq(Pins)

VARIABLES
  graph,            \* the circuit the search works on
  inputs,           \* primary inputs the outer loop has still to come to
  visitied_pins,    \* the local set of that name
  calls,            \* activation records of dfs: pin, and next arc to look at
  stack,            \* the local vector of that name
  toposorted_pins   \* CircuitBuilder::toposorted_pins

vars == <<graph, inputs, visitied_pins, calls, stack, toposorted_pins>>

LinksOf(g) ==
  {l \in Pins \X Pins : \E h \in 1 .. Len(g.fanout[l[1]]) : g.fanout[l[1]][h] = l[2]}
Top == calls[Len(calls)]
TopFanout == graph.fanout[Top.pin]

Init ==
  /\ graph \in Graphs
  /\ inputs = graph.inputs
  /\ visitied_pins = {} /\ calls = << >> /\ stack = << >>
  /\ toposorted_pins = None

\* dfs(p), called with the activation records cs: it returns at once from a
\* pin that was visited before.
Dfs_Recurse(p, cs) ==   \* a pin is marked when it is left only
  calls' = Append(cs, [pin |-> p, next |-> 1]) /\ UNCHANGED visitied_pins
Dfs(p, cs) ==
  \/ p \in visitied_pins /\ calls' = cs /\ UNCHANGED visitied_pins
  \/ /\ p \notin visitied_pins
     /\ visitied_pins' = visitied_pins \cup {p}
     /\ calls' = Append(cs, [pin |-> p, next |-> 1])

\* The outer loop, over the primary inputs in the order of a hash table.
VisitInput ==
  /\ toposorted_pins = None /\ calls = << >>
  /\ \E p \in inputs : inputs' = inputs \ {p} /\ Dfs(p, calls)
  /\ UNCHANGED <<graph, stack, toposorted_pins>>

\* The loop over the fanout of the pin on top.
VisitArc_SameArc ==   \* the loop does not come to the next arc
  /\ calls # << >> /\ Top.next <= Len(TopFanout)
  /\ Dfs(TopFanout[Top.next], calls)
  /\ UNCHANGED <<graph, inputs, stack, toposorted_pins>>
VisitArc ==
  /\ calls # << >> /\ Top.next <= Len(TopFanout)
  /\ Dfs(TopFanout[Top.next], [calls EXCEPT ![Len(calls)].next = @ + 1])
  /\ UNCHANGED <<graph, inputs, stack, toposorted_pins>>

LeavePin ==
  /\ calls # << >> /\ Top.next > Len(TopFanout)
  /\ calls' = SubSeq(calls, 1, Len(calls) - 1)
  /\ stack' = Append(stack, Top.pin)
  /\ UNCHANGED <<graph, inputs, visitied_pins, toposorted_pins>>

Finish_NotReversed ==
  /\ toposorted_pins = None /\ calls = << >> /\ inputs = {}
  /\ toposorted_pins' = stack
  /\ UNCHANGED <<graph, inputs, visitied_pins, calls, stack>>
Finish ==
  /\ toposorted_pins = None /\ calls = << >> /\ inputs = {}
  /\ toposorted_pins' = Reverse(stack)
  /\ UNCHANGED <<graph, inputs, visitied_pins, calls, stack>>

Next == VisitInput \/ VisitArc \/ LeavePin \/ Finish

Spec == Init /\ [][Next]_vars

\* The search runs on the caller's thread to its end.
FairSpec == Spec /\ WF_vars(Next)

-----------------------------------------------------------------------------
\* Every local of the search stays in its type.
TypeOK ==
  /\ graph \in Graphs
  /\ inputs \in SUBSET graph.inputs
  /\ visitied_pins \in SUBSET Pins
  /\ calls \in Seq([pin : Pins, next : Nat \ {0}])
  /\ \A k \in 1 .. Len(calls) : calls[k].next <= Len(graph.fanout[calls[k].pin]) + 1
  /\ stack \in Seq(Pins)
  /\ toposorted_pins \in Seq(Pins) \cup {None}

Ranks == [Pins -> 1 .. Cardinality(Pins)]
Numbers(rank) == \A l \in LinksOf(graph) : rank[l[1]] < rank[l[2]]

\* There is no combinational loop: the pins can be numbered so that every
\* arc leads to a greater number.
Acyclic == \E rank \in Ranks : Numbers(rank)

\* The order that every pass of Timer visits the pins in is topological if
\* the circuit has no combinational loop, whatever order the hash table
\* hands out the primary inputs in (get_toposorted_pins).
SortsAcyclic ==
  toposorted_pins # None /\ Acyclic =>
    IsTopologicalOrder(toposorted_pins, Pins, graph.inputs, LinksOf(graph))

\* What a set of pins leads to is what is in every set around it that no arc
\* leaves.
Closed(S) == \A l \in LinksOf(graph) : l[1] \in S => l[2] \in S
From(P) == {q \in Pins : \A S \in SUBSET Pins : P \subseteq S /\ Closed(S) => q \in S}

\* With or without loops, a pass visits each pin that a primary input
\* reaches exactly once, and no other (get_toposorted_pins).
VisitsReachedOnce ==
  toposorted_pins # None =>
    /\ \A i, j \in 1 .. Len(toposorted_pins) : toposorted_pins[i] = toposorted_pins[j] => i = j
    /\ {toposorted_pins[i] : i \in 1 .. Len(toposorted_pins)} = From(graph.inputs)

\* Only an arc that lies on a combinational loop may lead back in the order:
\* a loop does no harm to the order of the rest of the circuit.
OnlyLoopsLeadBack ==
  toposorted_pins # None =>
    \A j \in 1 .. Len(toposorted_pins) : \A i \in j .. Len(toposorted_pins) :
      LET p == toposorted_pins[i]  q == toposorted_pins[j] IN
      <<p, q>> \in LinksOf(graph) => p \in From({q})

\* The search ends, also in a circuit with a combinational loop.
Returns == <>(toposorted_pins # None)
-----------------------------------------------------------------------------
(***************************************************************************)
(* The inductive invariant behind the three properties of the order.       *)
(***************************************************************************)
InStack(p) == \E i \in 1 .. Len(stack) : stack[i] = p
OnCalls(p) == \E k \in 1 .. Len(calls) : calls[k].pin = p
Linked(p, q) == <<p, q>> \in LinksOf(graph)

\* A pin is visited when its search has begun: it is under way or over.
VisitedExact ==
  /\ \A p \in Pins : p \in visitied_pins <=> InStack(p) \/ OnCalls(p)
  /\ \A i \in 1 .. Len(stack) : ~ OnCalls(stack[i])
  /\ \A i, j \in 1 .. Len(stack) : stack[i] = stack[j] => i = j
  /\ \A k, l \in 1 .. Len(calls) : calls[k].pin = calls[l].pin => k = l
  /\ \A p \in graph.inputs : p \in inputs \/ p \in visitied_pins

\* Each pin whose search is under way was reached from the one below it,
\* each pin whose search is over from one that is put down later.
Descends ==
  /\ \A k \in 1 .. Len(calls) :
       calls[k].pin \in graph.inputs \/ (k > 1 /\ Linked(calls[k - 1].pin, calls[k].pin))
  /\ \A i \in 1 .. Len(stack) :
       \/ stack[i] \in graph.inputs
       \/ \E j \in i + 1 .. Len(stack) : Linked(stack[j], stack[i])
       \/ \E k \in 1 .. Len(calls) : Linked(calls[k].pin, stack[i])

\* Nothing is visited that no primary input reaches, and a pin whose search is
\* under way leads to those above it.
VisitsReached == visitied_pins \subseteq From(graph.inputs)
LeadsUp ==
  \A k \in 1 .. Len(calls) : \A l \in k .. Len(calls) : calls[l].pin \in From({calls[k].pin})

\* Arcs that were looked at lead to visited pins; a pin is put down after
\* every pin it leads to, save one that leads back to it.
ArcsVisited ==
  /\ \A k \in 1 .. Len(calls) : \A h \in 1 .. calls[k].next - 1 :
       graph.fanout[calls[k].pin][h] \in visitied_pins
  /\ \A i \in 1 .. Len(stack), q \in Pins : Linked(stack[i], q) => q \in visitied_pins
PutDownAfter ==
  \A i \in 1 .. Len(stack), q \in Pins : Linked(stack[i], q) =>
    (\E j \in 1 .. i - 1 : stack[j] = q) \/ stack[i] \in From({q})

ResultIsStack ==
  toposorted_pins # None =>
    calls = << >> /\ inputs = {} /\ toposorted_pins = Reverse(stack)

IInv ==
  /\ TypeOK
  /\ VisitedExact
  /\ Descends
  /\ VisitsReached
  /\ LeadsUp
  /\ ArcsVisited
  /\ PutDownAfter
  /\ ResultIsStack
=============================================================================
