--------------------------- MODULE TopoSortProofs ---------------------------
(***************************************************************************)
(* The order CircuitBuilder::get_toposorted_pins returns has what the      *)
(* primary inputs reach once, only loops lead back in it, and it is        *)
(* topological for every circuit without a combinational loop.             *)
(***************************************************************************)
EXTENDS TopoSort, FiniteSetTheorems, SequenceTheorems, TLAPS

Record == [pin : Pins, next : Nat \ {0}]

\* cs are the activation records when dfs is called for p: those there were,
\* with the top one moved on to its next arc.
CalledFor(p, cs) ==
  /\ Len(cs) = Len(calls)
  /\ \A k \in 1 .. Len(calls) : cs[k].pin = calls[k].pin
  /\ \A k \in 1 .. Len(calls) : k < Len(calls) => cs[k].next = calls[k].next
  /\ \/ /\ calls = << >> /\ toposorted_pins = None
        /\ p \in graph.inputs /\ inputs' = inputs \ {p}
     \/ /\ calls # << >> /\ inputs' = inputs
        /\ Top.next <= Len(TopFanout) /\ p = TopFanout[Top.next]
        /\ cs[Len(calls)].next = Top.next + 1
  /\ Dfs(p, cs)
  /\ UNCHANGED <<graph, stack, toposorted_pins>>

\* The fanout of a pin is a sequence of pins.
LEMMA FanoutType ==
  ASSUME TypeOK
  PROVE  /\ graph.fanout \in [Pins -> Seq(Pins)]
         /\ graph.inputs \in SUBSET Pins
         /\ \A p \in Pins : graph.fanout[p] \in Seq(Pins) /\ Len(graph.fanout[p]) \in Nat
BY GraphsAssumption DEF TypeOK

\* The pins on the activation records are pins.
LEMMA CallsType ==
  ASSUME TypeOK
  PROVE  /\ calls \in Seq(Record) /\ Len(calls) \in Nat
         /\ \A k \in 1 .. Len(calls) : calls[k].pin \in Pins /\ calls[k].next \in Nat \ {0}
         /\ calls # << >> => Len(calls) \in 1 .. Len(calls)
<1>1. calls \in Seq(Record)
  BY DEF TypeOK, Record
<1>2. \A k \in 1 .. Len(calls) : calls[k] \in Record
  BY <1>1, ElementOfSeq
<1>3. Len(calls) \in Nat /\ (calls # << >> => Len(calls) \in Nat \ {0})
  BY <1>1, EmptySeq, LenProperties
<1> QED  BY <1>1, <1>2, <1>3 DEF Record

\* The steps of the search: dfs is called for a pin, or one of the others.
LEMMA Steps ==
  ASSUME TypeOK, [Next]_vars
  PROVE  \/ \E p \in Pins, cs \in Seq(Record) : CalledFor(p, cs)
         \/ LeavePin \/ Finish \/ UNCHANGED vars
<1>1. CASE VisitInput
  <2>1. PICK p \in inputs : inputs' = inputs \ {p} /\ Dfs(p, calls)
    BY <1>1 DEF VisitInput
  <2>2. p \in graph.inputs /\ p \in Pins
    BY FanoutType DEF TypeOK
  <2>3. CalledFor(p, calls)
    BY <1>1, <2>1, <2>2, CallsType DEF VisitInput, CalledFor
  <2> QED  BY <2>2, <2>3, CallsType
<1>2. CASE VisitArc
  <2> DEFINE n == Len(calls)
             p == TopFanout[Top.next]
             cs == [calls EXCEPT ![n].next = @ + 1]
  <2>1. n \in 1 .. Len(calls) /\ n \in Nat /\ Top.pin \in Pins /\ Top.next \in Nat \ {0}
    BY <1>2, CallsType DEF VisitArc, Top
  <2>2. p \in Pins
    BY <1>2, <2>1, FanoutType DEF VisitArc, TopFanout
  <2>3. /\ cs \in Seq(Record) /\ Len(cs) = n
        /\ \A k \in 1 .. n : cs[k].pin = calls[k].pin
        /\ \A k \in 1 .. n : k < n => cs[k].next = calls[k].next
        /\ cs[n].next = Top.next + 1
    <3> DEFINE e == [calls[n] EXCEPT !.next = @ + 1]
    <3>1. calls[n] \in Record
      BY <2>1, CallsType, ElementOfSeq
    <3>2. e \in Record /\ e.pin = calls[n].pin /\ e.next = Top.next + 1
      BY <3>1 DEF Record, Top
    <3>3. /\ cs \in Seq(Record) /\ Len(cs) = n
          /\ \A k \in 1 .. n : cs[k] = IF k = n THEN e ELSE calls[k]
      BY <2>1, <3>2, CallsType, ExceptSeq
    <3>4. \A k \in 1 .. n : k < n => k # n
      BY <2>1
    <3> HIDE DEF e, cs, n
    <3> QED  BY <2>1, <3>2, <3>3, <3>4
  <2>4. CalledFor(p, cs)
    BY <1>2, <2>3 DEF VisitArc, CalledFor
  <2> QED  BY <2>2, <2>3, <2>4
<1> QED  BY <1>1, <1>2 DEF Next

\* Whatever dfs does with the pin, the records it finds stay below.
LEMMA DfsType ==
  ASSUME NEW p \in Pins, NEW cs \in Seq(Record), Dfs(p, cs)
  PROVE  \/ p \in visitied_pins /\ visitied_pins' = visitied_pins /\ calls' = cs
         \/ /\ p \notin visitied_pins /\ visitied_pins' = visitied_pins \cup {p}
            /\ calls' \in Seq(Record) /\ Len(calls') = Len(cs) + 1
            /\ \A k \in 1 .. Len(cs) : calls'[k] = cs[k]
            /\ calls'[Len(cs) + 1] = [pin |-> p, next |-> 1]
            /\ calls'[Len(cs) + 1].pin = p /\ calls'[Len(cs) + 1].next = 1
<1>1. [pin |-> p, next |-> 1] \in Record
  BY DEF Record
<1>2. /\ Append(cs, [pin |-> p, next |-> 1]) \in Seq(Record)
      /\ Len(Append(cs, [pin |-> p, next |-> 1])) = Len(cs) + 1
      /\ \A k \in 1 .. Len(cs) : Append(cs, [pin |-> p, next |-> 1])[k] = cs[k]
      /\ Append(cs, [pin |-> p, next |-> 1])[Len(cs) + 1] = [pin |-> p, next |-> 1]
  BY <1>1, AppendProperties
<1> QED  BY <1>2 DEF Dfs

\* What dfs leaves behind: the record on top is gone, its pin put down.
LEMMA LeaveType ==
  ASSUME TypeOK, LeavePin
  PROVE  /\ Len(calls) \in 1 .. Len(calls) /\ Top.pin \in Pins
         /\ calls' \in Seq(Record) /\ Len(calls') = Len(calls) - 1
         /\ \A k \in 1 .. Len(calls') : calls'[k] = calls[k] /\ k \in 1 .. Len(calls)
         /\ stack' \in Seq(Pins) /\ Len(stack') = Len(stack) + 1
         /\ \A i \in 1 .. Len(stack) : stack'[i] = stack[i]
         /\ stack'[Len(stack) + 1] = Top.pin
         /\ Len(stack) \in Nat
         /\ UNCHANGED <<graph, inputs, visitied_pins, toposorted_pins>>
<1>1. Len(calls) \in 1 .. Len(calls) /\ Top.pin \in Pins /\ Len(calls) \in Nat
  BY CallsType DEF LeavePin, Top
<1>2. /\ calls' = SubSeq(calls, 1, Len(calls) - 1) /\ stack' = Append(stack, Top.pin)
      /\ UNCHANGED <<graph, inputs, visitied_pins, toposorted_pins>>
  BY DEF LeavePin
<1>3. stack \in Seq(Pins) /\ Len(stack) \in Nat
  BY DEF TypeOK
<1> DEFINE m == Len(calls) - 1
<1>4. \A k \in 1 .. m : calls[k] \in Record
  BY <1>1, CallsType, ElementOfSeq
<1>5. /\ SubSeq(calls, 1, m) \in Seq(Record)
      /\ Len(SubSeq(calls, 1, m)) = m
      /\ \A k \in 1 .. m : SubSeq(calls, 1, m)[k] = calls[k]
  <2>1. m \in Int /\ 1 \in Int /\ m >= 0
    BY <1>1
  <2>2. /\ SubSeq(calls, 1, m) \in Seq(Record)
        /\ Len(SubSeq(calls, 1, m)) = IF 1 <= m THEN m - 1 + 1 ELSE 0
        /\ \A k \in 1 .. m - 1 + 1 : SubSeq(calls, 1, m)[k] = calls[1 + k - 1]
    BY <1>4, <2>1, SubSeqProperties
  <2> HIDE DEF m
  <2> QED  BY <2>1, <2>2
<1> QED  BY <1>1, <1>2, <1>3, <1>4, <1>5

-----------------------------------------------------------------------------
\* The reverse of a sequence is one of the same elements.
LEMMA ReverseType ==
  ASSUME NEW s \in Seq(Pins)
  PROVE  /\ Reverse(s) \in Seq(Pins) /\ Len(Reverse(s)) = Len(s)
         /\ \A i \in 1 .. Len(s) : Reverse(s)[i] = s[(Len(s) - i) + 1]
<1>1. Len(s) \in Nat /\ \A i \in 1 .. Len(s) : s[i] \in Pins /\ (Len(s) - i) + 1 \in 1 .. Len(s)
  OBVIOUS
<1>2. Reverse(s) = [i \in 1 .. Len(s) |-> s[(Len(s) - i) + 1]]
  BY DEF Reverse
<1>3. Reverse(s) \in [1 .. Len(s) -> Pins]
  BY <1>1, <1>2
<1> QED  BY <1>1, <1>2, <1>3

\* The search starts with nothing visited.
LEMMA InitInv == Init => IInv
<1> SUFFICES ASSUME Init PROVE IInv
  OBVIOUS
<1>1. TypeOK
  BY GraphsAssumption DEF Init, TypeOK
<1>2. VisitedExact
  BY <1>1, FanoutType DEF Init, VisitedExact, InStack, OnCalls
<1>3. Descends /\ ResultIsStack
  BY NoneAssumption DEF Init, Descends, ResultIsStack
<1>4. VisitsReached /\ LeadsUp /\ ArcsVisited /\ PutDownAfter
  BY EmptySeq DEF Init, VisitsReached, LeadsUp, ArcsVisited, PutDownAfter
<1> QED  BY <1>1, <1>2, <1>3, <1>4 DEF IInv

\* Every local keeps its type.
LEMMA TypeNext == TypeOK /\ [Next]_vars => TypeOK'
<1> SUFFICES ASSUME TypeOK, [Next]_vars PROVE TypeOK'
  OBVIOUS
<1>1. CASE \E p \in Pins, cs \in Seq(Record) : CalledFor(p, cs)
  <2>1. PICK p \in Pins, cs \in Seq(Record) : CalledFor(p, cs)
    BY <1>1
  <2>2. /\ Len(cs) = Len(calls) /\ Len(calls) \in Nat
        /\ UNCHANGED <<graph, stack, toposorted_pins>> /\ inputs' \in SUBSET graph.inputs
    BY <2>1, CallsType DEF CalledFor, TypeOK
  <2>3. \A k \in 1 .. Len(cs) : cs[k].next <= Len(graph.fanout[cs[k].pin]) + 1
    <3> SUFFICES ASSUME NEW k \in 1 .. Len(cs)
                 PROVE  cs[k].next <= Len(graph.fanout[cs[k].pin]) + 1
      OBVIOUS
    <3>1. k \in 1 .. Len(calls) /\ cs[k].pin = calls[k].pin
          /\ calls[k].next <= Len(graph.fanout[calls[k].pin]) + 1
      BY <2>1, <2>2 DEF CalledFor, TypeOK
    <3>2. CASE calls # << >> /\ k = Len(calls)
      BY <2>1, <2>2, <3>1, <3>2, CallsType, FanoutType DEF CalledFor, Top, TopFanout
    <3>3. CASE calls = << >> \/ k < Len(calls)
      <4>1. calls # << >>
        BY <2>2, <3>1
      <4> QED  BY <2>1, <3>1, <3>3, <4>1 DEF CalledFor
    <3> QED  BY <2>2, <3>1, <3>2, <3>3
  <2>4. \/ visitied_pins' = visitied_pins /\ calls' = cs
        \/ /\ visitied_pins' = visitied_pins \cup {p}
           /\ calls' \in Seq(Record) /\ Len(calls') = Len(cs) + 1
           /\ \A k \in 1 .. Len(cs) : calls'[k] = cs[k]
           /\ calls'[Len(cs) + 1] = [pin |-> p, next |-> 1]
    BY <2>1, DfsType DEF CalledFor
  <2>5. calls' \in Seq(Record) /\ visitied_pins' \in SUBSET Pins
    BY <2>4 DEF TypeOK
  <2>6. \A k \in 1 .. Len(calls') : calls'[k].next <= Len(graph.fanout[calls'[k].pin]) + 1
    <3>1. CASE calls' = cs
      BY <2>3, <3>1
    <3>2. CASE /\ Len(calls') = Len(cs) + 1 /\ \A k \in 1 .. Len(cs) : calls'[k] = cs[k]
               /\ calls'[Len(cs) + 1] = [pin |-> p, next |-> 1]
      <4> SUFFICES ASSUME NEW k \in 1 .. Len(cs) + 1
                   PROVE  calls'[k].next <= Len(graph.fanout[calls'[k].pin]) + 1
        BY <3>2
      <4>1. CASE k \in 1 .. Len(cs)
        BY <2>3, <3>2, <4>1
      <4>2. CASE k = Len(cs) + 1
        <5>1. calls'[k].next = 1 /\ calls'[k].pin = p /\ Len(graph.fanout[p]) \in Nat
          BY <3>2, <4>2, FanoutType
        <5> QED  BY <5>1
      <4> QED  BY <2>2, <4>1, <4>2
    <3> QED  BY <2>4, <3>1, <3>2
  <2> QED  BY <2>2, <2>5, <2>6 DEF TypeOK, Record
<1>2. CASE LeavePin
  BY <1>2, LeaveType, Zenon DEF TypeOK, Record
<1>3. CASE Finish
  <2>1. toposorted_pins' \in Seq(Pins)
    BY <1>3, ReverseType DEF Finish, TypeOK
  <2> QED  BY <1>3, <2>1 DEF Finish, TypeOK
<1>4. CASE UNCHANGED vars
  BY <1>4 DEF vars, TypeOK
<1> QED  BY <1>1, <1>2, <1>3, <1>4, Steps

-----------------------------------------------------------------------------
\* What a call of dfs does to the records, seen from the pins on them: none,
\* or the pin is put on top, which an arc of the former top leads to.
LEMMA CallShape ==
  ASSUME TypeOK, NEW p \in Pins, NEW cs \in Seq(Record), CalledFor(p, cs)
  PROVE  /\ \/ /\ p \in visitied_pins /\ visitied_pins' = visitied_pins
               /\ Len(calls') = Len(calls)
            \/ /\ p \notin visitied_pins /\ visitied_pins' = visitied_pins \cup {p}
               /\ Len(calls') = Len(calls) + 1
               /\ calls'[Len(calls) + 1].pin = p /\ calls'[Len(calls) + 1].next = 1
         /\ \A k \in 1 .. Len(calls) : calls'[k] = cs[k] /\ calls'[k].pin = calls[k].pin
         /\ UNCHANGED <<graph, stack, toposorted_pins>>
         /\ \/ /\ calls = << >> /\ Len(calls) = 0 /\ toposorted_pins = None
               /\ p \in graph.inputs /\ inputs' = inputs \ {p}
            \/ /\ calls # << >> /\ Len(calls) \in 1 .. Len(calls) /\ inputs' = inputs
               /\ Linked(calls[Len(calls)].pin, p)
         /\ Len(calls) \in Nat
<1>1. Len(cs) = Len(calls) /\ Len(calls) \in Nat
  BY CallsType DEF CalledFor
<1>2. /\ \/ /\ p \in visitied_pins /\ visitied_pins' = visitied_pins
            /\ calls' = cs
         \/ /\ p \notin visitied_pins /\ visitied_pins' = visitied_pins \cup {p}
            /\ Len(calls') = Len(cs) + 1
            /\ \A k \in 1 .. Len(cs) : calls'[k] = cs[k]
            /\ calls'[Len(cs) + 1].pin = p /\ calls'[Len(cs) + 1].next = 1
  BY DfsType DEF CalledFor
<1>3. /\ \A k \in 1 .. Len(calls) : cs[k].pin = calls[k].pin
      /\ UNCHANGED <<graph, stack, toposorted_pins>>
  BY DEF CalledFor
<1>4. \/ /\ calls = << >> /\ Len(calls) = 0 /\ toposorted_pins = None
         /\ p \in graph.inputs /\ inputs' = inputs \ {p}
      \/ /\ calls # << >> /\ Len(calls) \in 1 .. Len(calls) /\ inputs' = inputs
         /\ Linked(calls[Len(calls)].pin, p)
  <2>1. CASE calls # << >>
    <3>1. Len(calls) \in 1 .. Len(calls) /\ Top.pin \in Pins /\ Top.next \in Nat \ {0}
      BY <2>1, CallsType DEF Top
    <3>2. /\ Top.next \in 1 .. Len(graph.fanout[Top.pin])
          /\ p = graph.fanout[Top.pin][Top.next] /\ inputs' = inputs
      BY <2>1, <3>1, FanoutType DEF CalledFor, TopFanout
    <3>3. Linked(Top.pin, p)
      BY <3>1, <3>2 DEF Linked, LinksOf
    <3> QED  BY <2>1, <3>1, <3>2, <3>3 DEF Top
  <2>2. CASE calls = << >>
    BY <2>2, EmptySeq DEF CalledFor
  <2> QED  BY <2>1, <2>2
<1> QED  BY <1>1, <1>2, <1>3, <1>4

\* A pin is visited exactly if its search is under way or over.
LEMMA VisitedNext ==
  ASSUME TypeOK, VisitedExact, [Next]_vars
  PROVE  VisitedExact'
<1>1. CASE \E p \in Pins, cs \in Seq(Record) : CalledFor(p, cs)
  <2>1. PICK p \in Pins, cs \in Seq(Record) : CalledFor(p, cs)
    BY <1>1
  <2>2. UNCHANGED <<graph, stack>> /\ Len(calls) \in Nat
    BY <2>1, CallShape
  <2>3. \A q \in graph.inputs : q \in inputs' \/ q \in visitied_pins'
    BY <2>1, CallShape DEF VisitedExact
  <2>4. \A q : InStack(q)' <=> InStack(q)
    BY <2>2 DEF InStack
  <2>5. CASE p \in visitied_pins
    <3>1. /\ visitied_pins' = visitied_pins /\ Len(calls') = Len(calls)
          /\ \A k \in 1 .. Len(calls) : calls'[k].pin = calls[k].pin
      BY <2>1, <2>5, CallShape
    <3>2. \A q : OnCalls(q)' <=> OnCalls(q)
      BY <3>1 DEF OnCalls
    <3> QED  BY <2>2, <2>3, <2>4, <3>1, <3>2 DEF VisitedExact
  <2>6. CASE p \notin visitied_pins
    <3>1. /\ visitied_pins' = visitied_pins \cup {p} /\ Len(calls') = Len(calls) + 1
          /\ \A k \in 1 .. Len(calls) : calls'[k].pin = calls[k].pin
          /\ calls'[Len(calls) + 1].pin = p
      BY <2>1, <2>6, CallShape
    <3>2. \A q : OnCalls(q)' <=> OnCalls(q) \/ q = p
      BY <2>2, <3>1 DEF OnCalls
    <3>3. ~ InStack(p) /\ ~ OnCalls(p)
      BY <2>6 DEF VisitedExact
    <3>4. \A k, l \in 1 .. Len(calls') : calls'[k].pin = calls'[l].pin => k = l
      BY <2>2, <3>1, <3>3 DEF OnCalls, VisitedExact
    <3>5. (\A i \in 1 .. Len(stack) : ~ OnCalls(stack[i]))'
      BY <2>2, <3>2, <3>3 DEF InStack, VisitedExact
    <3> QED  BY <2>2, <2>3, <2>4, <3>1, <3>2, <3>4, <3>5 DEF VisitedExact
  <2> QED  BY <2>5, <2>6
<1>2. CASE LeavePin
  <2>1. Len(calls) \in 1 .. Len(calls) /\ Len(calls) \in Nat /\ Len(stack) \in Nat
    BY <1>2, LeaveType, CallsType
  <2>2. \A q : InStack(q)' <=> InStack(q) \/ q = Top.pin
    BY <1>2, <2>1, LeaveType DEF InStack
  <2>3. \A q : OnCalls(q)' <=> OnCalls(q) /\ q # Top.pin
    BY <1>2, <2>1, LeaveType DEF OnCalls, VisitedExact, Top
  <2>4. OnCalls(Top.pin)
    BY <2>1 DEF OnCalls, Top
  <2>5. (\A i \in 1 .. Len(stack) : ~ OnCalls(stack[i]))'
    BY <1>2, <2>1, <2>3, LeaveType DEF VisitedExact
  <2>6. \A i, j \in 1 .. Len(stack') : stack'[i] = stack'[j] => i = j
    BY <1>2, <2>1, <2>4, LeaveType DEF VisitedExact
  <2>7. \A k, l \in 1 .. Len(calls') : calls'[k].pin = calls'[l].pin => k = l
    BY <1>2, LeaveType DEF VisitedExact
  <2>8. UNCHANGED <<graph, inputs, visitied_pins>>
    BY <1>2, LeaveType
  <2>9. \A p \in Pins : p \in visitied_pins <=> InStack(p)' \/ OnCalls(p)'
    BY <2>2, <2>3, <2>4 DEF VisitedExact
  <2> QED  BY <2>5, <2>6, <2>7, <2>8, <2>9 DEF VisitedExact
<1>3. CASE Finish \/ UNCHANGED vars
  <2>1. UNCHANGED <<graph, inputs, visitied_pins, calls, stack>>
    BY <1>3 DEF Finish, vars
  <2> QED  BY <2>1 DEF VisitedExact, InStack, OnCalls
<1> QED  BY <1>1, <1>2, <1>3, Steps

\* The records stay a path from a primary input, and every pin put down has
\* a reason to be in the order.
LEMMA DescendsNext ==
  ASSUME TypeOK, Descends, [Next]_vars
  PROVE  Descends'
<1>1. CASE \E p \in Pins, cs \in Seq(Record) : CalledFor(p, cs)
  <2>1. PICK p \in Pins, cs \in Seq(Record) : CalledFor(p, cs)
    BY <1>1
  <2>2. /\ UNCHANGED <<graph, stack>> /\ Len(calls) \in Nat
        /\ Len(calls') = Len(calls) \/ Len(calls') = Len(calls) + 1
        /\ \A k \in 1 .. Len(calls) : calls'[k].pin = calls[k].pin
    BY <2>1, CallShape
  <2>3. \A q, r : Linked(q, r)' <=> Linked(q, r)
    BY <2>2 DEF Linked, LinksOf
  <2>4. \A k \in 1 .. Len(calls) :
          \/ calls'[k].pin \in graph'.inputs
          \/ k > 1 /\ Linked(calls[k - 1].pin, calls[k].pin)
    BY <2>2 DEF Descends
  <2>5. \A k \in 1 .. Len(calls') :
          calls'[k].pin \in graph'.inputs
            \/ (k > 1 /\ Linked(calls'[k - 1].pin, calls'[k].pin))
    <3> SUFFICES ASSUME NEW k \in 1 .. Len(calls')
                 PROVE  calls'[k].pin \in graph'.inputs
                          \/ (k > 1 /\ Linked(calls'[k - 1].pin, calls'[k].pin))
      OBVIOUS
    <3>1. CASE k \in 1 .. Len(calls)
      <4>1. k > 1 => k - 1 \in 1 .. Len(calls)
        BY <2>2, <3>1
      <4> QED  BY <2>2, <2>4, <3>1, <4>1
    <3>2. CASE k \notin 1 .. Len(calls)
      <4>1. k = Len(calls) + 1 /\ Len(calls') = Len(calls) + 1
        BY <2>2, <3>2
      <4>2. calls'[k].pin = p
        BY <2>1, <2>2, <4>1, CallShape
      <4>3. CASE calls = << >>
        BY <2>1, <2>2, <4>2, <4>3, CallShape
      <4>4. CASE calls # << >>
        <5>1. Len(calls) \in 1 .. Len(calls) /\ Linked(calls[Len(calls)].pin, p)
          BY <2>1, <4>4, CallShape
        <5>2. k > 1 /\ k - 1 = Len(calls)
          BY <2>2, <4>1, <5>1
        <5> QED  BY <2>2, <4>2, <5>1, <5>2
      <4> QED  BY <4>3, <4>4
    <3> QED  BY <3>1, <3>2
  <2>6. \A i \in 1 .. Len(stack) :
          \/ stack[i] \in graph.inputs
          \/ \E j \in i + 1 .. Len(stack) : Linked(stack[j], stack[i])
          \/ \E k \in 1 .. Len(calls') : Linked(calls'[k].pin, stack[i])
    BY <2>2 DEF Descends
  <2> QED  BY <2>2, <2>3, <2>5, <2>6 DEF Descends
<1>2. CASE LeavePin
  <2> DEFINE n == Len(calls)  m == Len(stack)
  <2>1. /\ n \in 1 .. n /\ n \in Nat /\ m \in Nat
        /\ Len(calls') = n - 1 /\ Len(stack') = m + 1
        /\ \A k \in 1 .. n - 1 : calls'[k] = calls[k]
        /\ \A i \in 1 .. m : stack'[i] = stack[i]
        /\ stack'[m + 1] = calls[n].pin
        /\ UNCHANGED graph
    BY <1>2, LeaveType, CallsType DEF Top
  <2>2. \A q, r : Linked(q, r)' <=> Linked(q, r)
    BY <2>1 DEF Linked, LinksOf
  <2> HIDE DEF n, m
  <2>3. \A k \in 1 .. n - 1 :
          calls'[k].pin \in graph'.inputs
            \/ (k > 1 /\ Linked(calls'[k - 1].pin, calls'[k].pin))
    <3> SUFFICES ASSUME NEW k \in 1 .. n - 1
                 PROVE  calls'[k].pin \in graph'.inputs
                          \/ (k > 1 /\ Linked(calls'[k - 1].pin, calls'[k].pin))
      OBVIOUS
    <3>1. k \in 1 .. n /\ calls'[k] = calls[k] /\ (k > 1 => calls'[k - 1] = calls[k - 1])
      BY <2>1
    <3> QED  BY <2>1, <3>1 DEF Descends, n
  <2>4. ASSUME NEW i \in 1 .. m + 1
        PROVE  \/ stack'[i] \in graph.inputs
               \/ \E j \in i + 1 .. m + 1 : Linked(stack'[j], stack'[i])
               \/ \E k \in 1 .. n - 1 : Linked(calls'[k].pin, stack'[i])
    <3>1. CASE i = m + 1
      <4>1. calls[n].pin \in graph.inputs \/ (n > 1 /\ Linked(calls[n - 1].pin, calls[n].pin))
        BY <2>1 DEF Descends, n
      <4>2. n > 1 => n - 1 \in 1 .. n - 1 /\ calls'[n - 1] = calls[n - 1]
        BY <2>1
      <4> QED  BY <2>1, <3>1, <4>1, <4>2
    <3>2. CASE i \in 1 .. m
      <4>1. CASE stack[i] \in graph.inputs
        BY <2>1, <3>2, <4>1
      <4>2. CASE \E j \in i + 1 .. m : Linked(stack[j], stack[i])
        <5>1. PICK j \in i + 1 .. m : Linked(stack[j], stack[i])
          BY <4>2
        <5>2. j \in 1 .. m /\ j \in i + 1 .. m + 1
          BY <2>1, <3>2
        <5> QED  BY <2>1, <3>2, <5>1, <5>2
      <4>3. CASE \E k \in 1 .. n : Linked(calls[k].pin, stack[i])
        <5>1. PICK k \in 1 .. n : Linked(calls[k].pin, stack[i])
          BY <4>3
        <5>2. CASE k = n
          <6>1. m + 1 \in i + 1 .. m + 1
            BY <2>1, <3>2
          <6> QED  BY <2>1, <3>2, <5>1, <5>2, <6>1
        <5>3. CASE k \in 1 .. n - 1
          BY <2>1, <3>2, <5>1, <5>3
        <5> QED  BY <2>1, <5>2, <5>3
      <4> QED  BY <3>2, <4>1, <4>2, <4>3 DEF Descends, n, m
    <3> QED  BY <2>1, <3>1, <3>2
  <2> QED  BY <2>1, <2>2, <2>3, <2>4 DEF Descends
<1>3. CASE Finish \/ UNCHANGED vars
  <2>1. UNCHANGED <<graph, calls, stack>>
    BY <1>3 DEF Finish, vars
  <2> QED  BY <2>1 DEF Descends, Linked
<1> QED  BY <1>1, <1>2, <1>3, Steps

\* Ranks are numbers.
LEMMA RankType == ASSUME NEW rank \in Ranks, NEW p \in Pins PROVE rank[p] \in Int
<1>1. Cardinality(Pins) \in Nat
  BY PinsAssumption, FS_CardinalityType
<1> QED  BY <1>1 DEF Ranks

\* A pin leads to itself, and on along every arc.
LEMMA FromStart == ASSUME NEW P \in SUBSET Pins PROVE P \subseteq From(P) /\ From(P) \subseteq Pins
BY DEF From
LEMMA FromOn ==
  ASSUME NEW P \in SUBSET Pins, NEW p \in From(P), NEW q \in Pins, Linked(p, q)
  PROVE  q \in From(P)
BY DEF From, Closed, Linked

\* The circuit stays as it is, and what leads where with it.
LEMMA GraphStays ==
  ASSUME TypeOK, [Next]_vars
  PROVE  /\ graph' = graph
         /\ \A P : From(P)' = From(P)
         /\ \A p, q : Linked(p, q)' <=> Linked(p, q)
<1>1. graph' = graph
  <2>1. ASSUME NEW p \in Pins, NEW cs \in Seq(Record), CalledFor(p, cs) PROVE graph' = graph
    BY <2>1 DEF CalledFor
  <2> QED  BY <2>1, Steps DEF LeavePin, Finish, vars
<1> QED  BY <1>1 DEF From, Closed, Linked, LinksOf

\* The search goes where arcs lead, from the primary inputs on.
LEMMA ReachedNext ==
  ASSUME TypeOK, VisitedExact, VisitsReached, LeadsUp, [Next]_vars
  PROVE  VisitsReached' /\ LeadsUp'
<1>0. graph' = graph /\ (\A P : From(P)' = From(P)) /\ graph.inputs \in SUBSET Pins
  BY GraphStays, FanoutType
<1> DEFINE n == Len(calls)
<1>1. CASE \E p \in Pins, cs \in Seq(Record) : CalledFor(p, cs)
  <2>1. PICK p \in Pins, cs \in Seq(Record) : CalledFor(p, cs)
    BY <1>1
  <2>2. /\ n \in Nat
        /\ Len(calls') = n \/ Len(calls') = n + 1
        /\ \A k \in 1 .. n : calls'[k].pin = calls[k].pin
    BY <2>1, CallShape
  <2>3. p \in From(graph.inputs)
    <3>1. CASE calls = << >>
      BY <2>1, <3>1, <1>0, CallShape, FromStart
    <3>2. CASE calls # << >>
      <4>1. n \in 1 .. n /\ Linked(calls[n].pin, p) /\ calls[n].pin \in Pins
        BY <2>1, <3>2, CallShape, CallsType
      <4>2. calls[n].pin \in visitied_pins
        BY <4>1 DEF VisitedExact, OnCalls
      <4> QED BY <1>0, <4>1, <4>2, FromOn DEF VisitsReached
    <3> QED BY <3>1, <3>2
  <2>4. VisitsReached'
    <3>1. visitied_pins' \subseteq visitied_pins \cup {p}
      BY <2>1, CallShape
    <3> QED BY <1>0, <2>3, <3>1 DEF VisitsReached
  <2>5. ASSUME NEW k \in 1 .. Len(calls'), NEW l \in k .. Len(calls')
        PROVE  calls'[l].pin \in From({calls'[k].pin})
    <3>1. CASE l \in 1 .. n
      <4>1. k \in 1 .. n /\ l \in k .. n
        BY <2>2, <3>1
      <4>2. calls[l].pin \in From({calls[k].pin})
        BY <4>1 DEF LeadsUp
      <4>3. calls'[k].pin = calls[k].pin /\ calls'[l].pin = calls[l].pin
        BY <2>2, <3>1, <4>1
      <4> QED BY <4>2, <4>3
    <3>2. CASE l \notin 1 .. n
      <4>1. l = n + 1 /\ Len(calls') = n + 1
        BY <2>2, <3>2
      <4>2. calls'[l].pin = p
        BY <2>1, <2>2, <4>1, CallShape
      <4>3. CASE k = l
        BY <4>2, <4>3, FromStart
      <4>4. CASE k # l
        <5>1. k \in 1 .. n /\ calls # << >> /\ n \in k .. n
          BY <2>2, <4>1, <4>4, EmptySeq
        <5>2. Linked(calls[n].pin, p) /\ calls[k].pin \in Pins
          BY <2>1, <5>1, CallShape, CallsType
        <5>3. calls[n].pin \in From({calls[k].pin})
          BY <5>1 DEF LeadsUp
        <5>4. p \in From({calls[k].pin})
          BY <5>2, <5>3, FromOn
        <5>5. calls'[k].pin = calls[k].pin
          BY <2>2, <5>1
        <5> QED BY <4>2, <5>4, <5>5
      <4> QED BY <4>3, <4>4
    <3> QED BY <3>1, <3>2
  <2> QED BY <1>0, <2>4, <2>5 DEF LeadsUp
<1>2. CASE LeavePin
  <2>1. /\ Len(calls') = n - 1 /\ n \in Nat /\ visitied_pins' = visitied_pins
        /\ \A k \in 1 .. n - 1 : calls'[k] = calls[k]
    BY <1>2, LeaveType, CallsType
  <2>2. ASSUME NEW k \in 1 .. n - 1, NEW l \in k .. n - 1
        PROVE  calls'[l].pin \in From({calls'[k].pin})
    <3>1. k \in 1 .. n /\ l \in k .. n /\ calls'[k] = calls[k] /\ calls'[l] = calls[l]
      BY <2>1
    <3> QED BY <3>1 DEF LeadsUp
  <2> QED BY <1>0, <2>1, <2>2 DEF VisitsReached, LeadsUp
<1>3. CASE Finish \/ UNCHANGED vars
  <2>1. UNCHANGED <<calls, visitied_pins>>
    BY <1>3 DEF Finish, vars
  <2> QED BY <1>0, <2>1 DEF VisitsReached, LeadsUp
<1> QED BY <1>1, <1>2, <1>3, Steps

\* The arcs of a pin are looked at one by one and all of them before it is left.
LEMMA ArcsNext ==
  ASSUME TypeOK, ArcsVisited, [Next]_vars
  PROVE  ArcsVisited'
<1>0. graph' = graph /\ \A p, q : Linked(p, q)' <=> Linked(p, q)
  BY GraphStays
<1> DEFINE n == Len(calls)  m == Len(stack)
<1>1. CASE \E p \in Pins, cs \in Seq(Record) : CalledFor(p, cs)
  <2>1. PICK p \in Pins, cs \in Seq(Record) : CalledFor(p, cs)
    BY <1>1
  <2>2. /\ UNCHANGED stack /\ n \in Nat
        /\ Len(calls') = n \/ Len(calls') = n + 1
        /\ \A k \in 1 .. n : calls'[k].pin = calls[k].pin /\ calls'[k].next = cs[k].next
        /\ visitied_pins' = visitied_pins \cup {p}
    BY <2>1, CallShape
  <2>3. ASSUME NEW k \in 1 .. Len(calls'), NEW h \in 1 .. calls'[k].next - 1
        PROVE  graph.fanout[calls'[k].pin][h] \in visitied_pins'
    <3>1. CASE k \in 1 .. n /\ k < n
      <4>1. h \in 1 .. calls[k].next - 1 /\ calls'[k].pin = calls[k].pin
        BY <2>1, <2>2, <2>3, <3>1 DEF CalledFor
      <4> QED  BY <2>2, <3>1, <4>1 DEF ArcsVisited
    <3>2. CASE k = n
      <4>1. calls # << >>
        BY <2>2, <3>2, EmptySeq
      <4>2. /\ n \in 1 .. n /\ calls[n].next \in Nat
            /\ calls'[n].next = calls[n].next + 1 /\ calls'[n].pin = calls[n].pin
            /\ graph.fanout[calls[n].pin][calls[n].next] = p
        BY <2>1, <2>2, <4>1, CallsType DEF CalledFor, Top, TopFanout
      <4>3. CASE h \in 1 .. calls[n].next - 1
        BY <2>2, <3>2, <4>2, <4>3 DEF ArcsVisited
      <4>4. CASE h = calls[n].next
        BY <2>2, <3>2, <4>2, <4>4
      <4> QED  BY <2>3, <3>2, <4>2, <4>3, <4>4
    <3>3. CASE k \notin 1 .. n
      <4>1. k = n + 1 /\ Len(calls') = n + 1
        BY <2>2, <3>3
      <4>2. calls'[k].next = 1
        BY <2>1, <2>2, <4>1, CallShape
      <4> QED  BY <2>3, <4>2
    <3> QED  BY <2>2, <3>1, <3>2, <3>3
  <2>4. \A i \in 1 .. m, q \in Pins : Linked(stack[i], q) => q \in visitied_pins'
    BY <2>2 DEF ArcsVisited
  <2> QED  BY <1>0, <2>2, <2>3, <2>4 DEF ArcsVisited
<1>2. CASE LeavePin
  <2>1. /\ n \in 1 .. n /\ n \in Nat /\ m \in Nat /\ calls[n].pin \in Pins
        /\ Len(calls') = n - 1 /\ Len(stack') = m + 1
        /\ \A k \in 1 .. n - 1 : calls'[k] = calls[k]
        /\ \A i \in 1 .. m : stack'[i] = stack[i]
        /\ stack'[m + 1] = calls[n].pin /\ visitied_pins' = visitied_pins
    BY <1>2, LeaveType, CallsType DEF Top
  <2>2. ASSUME NEW k \in 1 .. n - 1, NEW h \in 1 .. calls'[k].next - 1
        PROVE  graph.fanout[calls'[k].pin][h] \in visitied_pins
    <3>1. k \in 1 .. n /\ calls'[k] = calls[k]
      BY <2>1
    <3> QED BY <3>1 DEF ArcsVisited
  <2>3. ASSUME NEW i \in 1 .. m + 1, NEW q \in Pins, Linked(stack'[i], q)
        PROVE  q \in visitied_pins
    <3>1. CASE i \in 1 .. m
      BY <2>1, <2>3, <3>1 DEF ArcsVisited
    <3>2. CASE i = m + 1
      <4>1. PICK h \in 1 .. Len(graph.fanout[calls[n].pin]) : graph.fanout[calls[n].pin][h] = q
        BY <2>1, <2>3, <3>2 DEF Linked, LinksOf
      <4>2. h \in 1 .. calls[n].next - 1
        <5>1. calls[n].next > Len(graph.fanout[calls[n].pin])
          BY <1>2 DEF LeavePin, Top, TopFanout
        <5>2. calls[n].next \in Nat /\ Len(graph.fanout[calls[n].pin]) \in Nat
          BY <2>1, FanoutType, CallsType
        <5> QED  BY <4>1, <5>1, <5>2
      <4> QED BY <2>1, <4>1, <4>2 DEF ArcsVisited
    <3> QED  BY <2>1, <3>1, <3>2
  <2> QED  BY <1>0, <2>1, <2>2, <2>3 DEF ArcsVisited
<1>3. CASE Finish \/ UNCHANGED vars
  <2>1. UNCHANGED <<calls, stack, visitied_pins>>
    BY <1>3 DEF Finish, vars
  <2> QED BY <1>0, <2>1 DEF ArcsVisited
<1> QED  BY <1>1, <1>2, <1>3, Steps

\* When a pin is put down, what it leads to lies below it, or is still on a
\* record and leads to it.
LEMMA PutDownNext ==
  ASSUME TypeOK, VisitedExact, LeadsUp, ArcsVisited, PutDownAfter, [Next]_vars
  PROVE  PutDownAfter'
<1>0. (\A P : From(P)' = From(P)) /\ \A p, q : Linked(p, q)' <=> Linked(p, q)
  BY GraphStays
<1>1. CASE UNCHANGED stack
  BY <1>0, <1>1 DEF PutDownAfter
<1>2. CASE LeavePin
  <2> DEFINE n == Len(calls)  m == Len(stack)
  <2>1. /\ n \in 1 .. n /\ n \in Nat /\ m \in Nat /\ calls[n].pin \in Pins
        /\ Len(stack') = m + 1
        /\ \A i \in 1 .. m : stack'[i] = stack[i]
        /\ stack'[m + 1] = calls[n].pin /\ visitied_pins' = visitied_pins
    BY <1>2, LeaveType, CallsType DEF Top
  <2>2. ArcsVisited'
    BY ArcsNext
  <2>3. ASSUME NEW i \in 1 .. m + 1, NEW q \in Pins, Linked(stack'[i], q)
        PROVE  (\E j \in 1 .. i - 1 : stack'[j] = q) \/ stack'[i] \in From({q})
    <3>1. CASE i \in 1 .. m
      <4>1. (\E j \in 1 .. i - 1 : stack[j] = q) \/ stack[i] \in From({q})
        BY <2>1, <2>3, <3>1 DEF PutDownAfter
      <4>2. \A j \in 1 .. i - 1 : j \in 1 .. m
        BY <2>1, <3>1
      <4> QED BY <2>1, <3>1, <4>1, <4>2
    <3>2. CASE i = m + 1
      <4>1. q \in visitied_pins
        BY <1>0, <2>1, <2>2, <2>3 DEF ArcsVisited
      <4>2. CASE InStack(q)
        <5>1. PICK j \in 1 .. m : stack[j] = q
          BY <4>2 DEF InStack
        <5>2. j \in 1 .. i - 1 /\ stack'[j] = q
          BY <2>1, <3>2, <5>1
        <5> QED BY <5>2
      <4>3. CASE OnCalls(q)
        <5>1. PICK k \in 1 .. n : calls[k].pin = q
          BY <4>3 DEF OnCalls
        <5>2. calls[n].pin \in From({q})
          BY <2>1, <5>1 DEF LeadsUp
        <5> QED BY <2>1, <3>2, <5>2
      <4> QED BY <4>1, <4>2, <4>3 DEF VisitedExact
    <3> QED BY <2>1, <3>1, <3>2
  <2> QED BY <1>0, <2>1, <2>3 DEF PutDownAfter
<1>3. ASSUME NEW p \in Pins, NEW cs \in Seq(Record), CalledFor(p, cs) PROVE UNCHANGED stack
  BY <1>3 DEF CalledFor
<1> QED  BY <1>1, <1>2, <1>3, Steps DEF Finish, vars

\* The result is the reversed stack, and nothing happens after it is there.
LEMMA ResultNext ==
  ASSUME TypeOK, ResultIsStack, [Next]_vars
  PROVE  ResultIsStack'
<1>1. CASE \E p \in Pins, cs \in Seq(Record) : CalledFor(p, cs)
  <2>1. PICK p \in Pins, cs \in Seq(Record) : CalledFor(p, cs)
    BY <1>1
  <2>2. toposorted_pins = None /\ toposorted_pins' = toposorted_pins
    BY <2>1 DEF CalledFor, ResultIsStack
  <2> QED  BY <2>2 DEF ResultIsStack
<1>2. CASE LeavePin
  BY <1>2 DEF LeavePin, ResultIsStack
<1>3. CASE Finish
  BY <1>3 DEF Finish, ResultIsStack
<1>4. CASE UNCHANGED vars
  BY <1>4 DEF vars, ResultIsStack
<1> QED  BY <1>1, <1>2, <1>3, <1>4, Steps

\* The inductive invariant of the search: what is visited, that it descends
\* from the primary inputs, and that a pin is put down after all it leads to
\* but what leads back to it.
THEOREM Inductive == Spec => []IInv
<1>1. IInv /\ [Next]_vars => IInv'
  BY TypeNext, VisitedNext, DescendsNext, ReachedNext, ArcsNext, PutDownNext, ResultNext DEF IInv
<1> QED  BY InitInv, <1>1, PTL DEF Spec

-----------------------------------------------------------------------------
\* When the search is over, the records and the outer loop are, and the result
\* is the reversed stack.
LEMMA ResultShape ==
  ASSUME IInv, toposorted_pins # None
  PROVE  LET s == toposorted_pins  n == Len(stack) IN
         /\ TypeOK /\ s \in Seq(Pins) /\ Len(s) = n /\ n \in Nat
         /\ \A i \in 1 .. n : (n - i) + 1 \in 1 .. n /\ s[i] = stack[(n - i) + 1]
         /\ \A k \in 1 .. n : (n - k) + 1 \in 1 .. n /\ s[(n - k) + 1] = stack[k]
         /\ Len(calls) = 0
         /\ \A p \in Pins : p \in visitied_pins <=> \E i \in 1 .. n : s[i] = p
         /\ graph.inputs \subseteq visitied_pins
         /\ \A i, j \in 1 .. n : s[i] = s[j] => i = j
<1> DEFINE n == Len(stack)  s == toposorted_pins
<1>1. TypeOK /\ VisitedExact /\ calls = << >> /\ inputs = {} /\ s = Reverse(stack)
  BY DEF IInv, ResultIsStack
<1>2. /\ s \in Seq(Pins) /\ Len(s) = n /\ n \in Nat
      /\ \A i \in 1 .. n : s[i] = stack[(n - i) + 1]
  BY <1>1, ReverseType DEF TypeOK
<1>3. Len(calls) = 0
  BY <1>1, EmptySeq
<1>4. graph.inputs \subseteq visitied_pins
  BY <1>1 DEF VisitedExact
<1>5. \A p \in Pins : p \in visitied_pins <=> \E k \in 1 .. n : stack[k] = p
  BY <1>1, <1>3 DEF VisitedExact, InStack, OnCalls
<1>6. \A k, l \in 1 .. n : stack[k] = stack[l] => k = l
  BY <1>1 DEF VisitedExact
<1> HIDE DEF n, s
<1>7. \A i \in 1 .. n : (n - i) + 1 \in 1 .. n /\ s[i] = stack[(n - i) + 1]
  BY <1>2
<1>8. ASSUME NEW k \in 1 .. n PROVE (n - k) + 1 \in 1 .. n /\ s[(n - k) + 1] = stack[k]
  <2>1. (n - k) + 1 \in 1 .. n /\ (n - ((n - k) + 1)) + 1 = k
    BY <1>2
  <2> QED BY <1>7, <2>1
<1>9. \A p \in Pins : p \in visitied_pins <=> \E i \in 1 .. n : s[i] = p
  BY <1>5, <1>7, <1>8
<1>10. ASSUME NEW i \in 1 .. n, NEW j \in 1 .. n, s[i] = s[j] PROVE i = j
  <2>1. (n - i) + 1 = (n - j) + 1
    BY <1>6, <1>7, <1>10
  <2> QED BY <1>2, <2>1
<1> QED BY <1>1, <1>2, <1>3, <1>4, <1>7, <1>8, <1>9, <1>10 DEF n, s

\* get_toposorted_pins returns what the primary inputs reach, each pin once,
\* in every circuit: loops, pins reached twice and pins nothing reaches do not
\* disturb it.
THEOREM ReachedAreVisitedOnce == Spec => []VisitsReachedOnce
<1>1. ASSUME IInv PROVE VisitsReachedOnce
  <2> SUFFICES ASSUME toposorted_pins # None
               PROVE  /\ \A i, j \in 1 .. Len(toposorted_pins) : toposorted_pins[i] = toposorted_pins[j] => i = j
                      /\ {toposorted_pins[i] : i \in 1 .. Len(toposorted_pins)} = From(graph.inputs)
    BY DEF VisitsReachedOnce
  <2> DEFINE s == toposorted_pins  n == Len(stack)
  <2>1. /\ TypeOK /\ s \in Seq(Pins) /\ Len(s) = n /\ n \in Nat /\ Len(calls) = 0
        /\ \A i, j \in 1 .. n : s[i] = s[j] => i = j
        /\ \A p \in Pins : p \in visitied_pins <=> \E i \in 1 .. n : s[i] = p
        /\ graph.inputs \subseteq visitied_pins
    BY <1>1, ResultShape
  <2>2. visitied_pins \in SUBSET Pins /\ visitied_pins \subseteq From(graph.inputs)
    BY <1>1, <2>1 DEF IInv, VisitsReached, TypeOK
  <2>3. Closed(visitied_pins)
    <3> SUFFICES ASSUME NEW p \in visitied_pins, NEW q \in Pins, Linked(p, q)
                 PROVE  q \in visitied_pins
      BY <2>2 DEF Closed, Linked, LinksOf
    <3>1. ~ OnCalls(p)
      BY <2>1 DEF OnCalls
    <3>2. PICK i \in 1 .. n : stack[i] = p
      BY <1>1, <2>2, <3>1 DEF IInv, VisitedExact, InStack
    <3> QED BY <1>1, <3>2 DEF IInv, ArcsVisited
  <2>4. From(graph.inputs) \subseteq visitied_pins
    BY <2>1, <2>2, <2>3 DEF From
  <2>5. \A i \in 1 .. n : s[i] \in Pins
    BY <2>1, ElementOfSeq
  <2>6. {s[i] : i \in 1 .. n} = visitied_pins
    BY <2>1, <2>2, <2>5
  <2> QED BY <2>1, <2>2, <2>4, <2>6
<1> QED BY <1>1, Inductive, PTL

\* An arc of get_toposorted_pins's order that leads back lies on a
\* combinational loop; the rest of such a circuit is still in order.
LEMMA LoopsLeadBack == ASSUME IInv PROVE OnlyLoopsLeadBack
<1> DEFINE s == toposorted_pins  n == Len(stack)
<1> SUFFICES ASSUME s # None, NEW j \in 1 .. Len(s), NEW i \in j .. Len(s), Linked(s[i], s[j])
             PROVE  s[i] \in From({s[j]})
  BY DEF OnlyLoopsLeadBack, Linked
<1>1. /\ TypeOK /\ s \in Seq(Pins) /\ Len(s) = n /\ n \in Nat
      /\ \A k \in 1 .. n : (n - k) + 1 \in 1 .. n /\ s[k] = stack[(n - k) + 1]
      /\ \A k, l \in 1 .. n : s[k] = s[l] => k = l
      /\ \A k \in 1 .. n : s[(n - k) + 1] = stack[k]
  BY ResultShape
<1>2. i \in 1 .. n /\ j \in 1 .. n /\ s[j] \in Pins
  BY <1>1, ElementOfSeq
<1>3. (\E k \in 1 .. ((n - i) + 1) - 1 : stack[k] = s[j]) \/ s[i] \in From({s[j]})
  BY <1>1, <1>2 DEF IInv, PutDownAfter
<1>4. ASSUME NEW k \in 1 .. ((n - i) + 1) - 1, stack[k] = s[j] PROVE FALSE
  <2>1. k \in 1 .. n /\ (n - k) + 1 \in 1 .. n
    BY <1>1, <1>2
  <2>2. (n - k) + 1 = j
    BY <1>1, <1>2, <1>4, <2>1
  <2> QED BY <1>1, <1>2, <2>1, <2>2
<1> QED BY <1>3, <1>4

\* Whatever loops there are, an arc that leads back in the order closes one
\* (get_toposorted_pins).
THEOREM LoopsOnlyLeadBack == Spec => []OnlyLoopsLeadBack
BY Inductive, LoopsLeadBack, PTL

\* In a circuit without loops no pin leads back to one that leads to it.
LEMMA NoWayBack ==
  ASSUME TypeOK, Acyclic, NEW p \in Pins, NEW q \in Pins, Linked(p, q)
  PROVE  p \notin From({q})
<1>1. PICK rank \in Ranks : Numbers(rank)
  BY DEF Acyclic
<1> DEFINE S == {r \in Pins : rank[q] <= rank[r]}
<1>2. ASSUME NEW l \in LinksOf(graph), l[1] \in S PROVE l[2] \in S
  <2>1. l[1] \in Pins /\ l[2] \in Pins /\ rank[l[1]] < rank[l[2]]
    BY <1>1 DEF Numbers, LinksOf
  <2>2. rank[l[1]] \in Int /\ rank[l[2]] \in Int /\ rank[q] \in Int
    BY <2>1, RankType
  <2> QED BY <1>2, <2>1, <2>2
<1>3. Closed(S) /\ S \in SUBSET Pins
  BY <1>2 DEF Closed
<1>4. rank[p] < rank[q] /\ rank[p] \in Int /\ rank[q] \in Int
  BY <1>1, RankType DEF Numbers, Linked
<1>5. q \in S /\ p \notin S
  BY <1>4
<1> HIDE DEF S
<1> QED BY <1>3, <1>5 DEF From

\* When the search is over its result is a topological order.
LEMMA ResultIsTopological == IInv => SortsAcyclic
<1> SUFFICES ASSUME IInv, toposorted_pins # None, Acyclic
             PROVE  IsTopologicalOrder(toposorted_pins, Pins, graph.inputs, LinksOf(graph))
  BY DEF SortsAcyclic
<1> DEFINE n == Len(stack)  s == toposorted_pins
<1>1. /\ TypeOK /\ s \in Seq(Pins) /\ Len(s) = n /\ n \in Nat
      /\ \A k \in 1 .. n : (n - k) + 1 \in 1 .. n /\ s[k] = stack[(n - k) + 1]
      /\ \A k \in 1 .. n : (n - k) + 1 \in 1 .. n /\ s[(n - k) + 1] = stack[k]
      /\ Len(calls) = 0
      /\ \A p \in Pins : p \in visitied_pins <=> \E i \in 1 .. n : s[i] = p
      /\ graph.inputs \subseteq visitied_pins
  BY ResultShape
<1>2. \A i, j \in 1 .. n : s[i] = s[j] => i = j
  BY ResultShape
<1>3. Descends /\ PutDownAfter /\ \A i \in 1 .. n : s[i] \in Pins
  BY <1>1, ElementOfSeq DEF IInv
<1> HIDE DEF n, s
<1>4. \A p \in graph.inputs : \E i \in 1 .. n : s[i] = p
  BY <1>1, FanoutType
<1>5. ASSUME NEW i \in 1 .. n, NEW v \in Pins, Linked(s[i], v)
      PROVE  \E j \in i + 1 .. n : s[j] = v
  <2>1. s[i] \notin From({v})
    BY <1>1, <1>3, <1>5, NoWayBack
  <2>2. PICK k \in 1 .. ((n - i) + 1) - 1 : stack[k] = v
    BY <1>1, <1>3, <1>5, <2>1 DEF PutDownAfter, n
  <2>3. k \in 1 .. n /\ (n - k) + 1 \in i + 1 .. n
    BY <1>1
  <2> QED  BY <1>1, <2>2, <2>3
<1>6. ASSUME NEW j \in 1 .. n, s[j] \notin graph.inputs
      PROVE  \E i \in 1 .. j - 1 : Linked(s[i], s[j])
  <2>1. PICK k \in ((n - j) + 1) + 1 .. n : Linked(stack[k], s[j])
    BY <1>1, <1>3, <1>6 DEF Descends, n
  <2>2. k \in 1 .. n /\ (n - k) + 1 \in 1 .. j - 1
    BY <1>1
  <2> QED  BY <1>1, <2>1, <2>2
<1>7. \A i \in 1 .. n, v \in Pins :
        <<s[i], v>> \in LinksOf(graph) => \E j \in i + 1 .. n : s[j] = v
  BY <1>5 DEF Linked
<1>8. \A j \in 1 .. n :
        s[j] \in graph.inputs \/ \E i \in 1 .. j - 1 : <<s[i], s[j]>> \in LinksOf(graph)
  BY <1>6 DEF Linked
<1>9. s \in Seq(Pins) /\ Len(s) = n
  BY <1>1
<1> QED  BY <1>2, <1>4, <1>7, <1>8, <1>9 DEF IsTopologicalOrder, s

\* get_toposorted_pins returns a topological order of what the primary
\* inputs reach, for every circuit without a combinational loop and every
\* order of its primary inputs: what Timer's circuit assumes of its orders.
THEOREM OrderIsTopological == Spec => []SortsAcyclic
BY Inductive, ResultIsTopological, PTL
=============================================================================
