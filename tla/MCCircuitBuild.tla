---------------------------- MODULE MCCircuitBuild ----------------------------
(***************************************************************************)
(* Netlists over three nets and two instances: the buffers take every      *)
(* connection, the assignments every pair of nets.  Odd netlists that no   *)
(* such combination gives are listed one by one.                           *)
(***************************************************************************)
EXTENDS CircuitBuildProperties

B_Names == {"a", "n", "z"}
B_Instances == {"u1", "u2"}
B_Ports == {"A", "Z", "CK", "D", "Q"}
B_Modules == {"BUF", "DFF", "ODD", "SWAP", "LOST"}

\* ODD has an arc from a port it does not have, SWAP the ports of BUF the other
\* way round; LOST is in no library.
B_Library ==
  [BUF |-> [ports |-> [A |-> "INPUT", Z |-> "OUTPUT"],
            arcs |-> <<[src_port |-> "A", snk_port |-> "Z", kind |-> "DELAY"]>>],
   DFF |-> [ports |-> [CK |-> "INPUT", D |-> "INPUT", Q |-> "OUTPUT"],
            arcs |-> <<[src_port |-> "CK", snk_port |-> "D", kind |-> "CONSTRAINT"],
                       [src_port |-> "CK", snk_port |-> "Q", kind |-> "DELAY"]>>],
   ODD |-> [ports |-> [Z |-> "OUTPUT"],
            arcs |-> <<[src_port |-> "A", snk_port |-> "Z", kind |-> "DELAY"]>>],
   SWAP |-> [ports |-> [A |-> "OUTPUT", Z |-> "INPUT"], arcs |-> << >>]]

Module(w, in, out, inst, asg) ==
  [wires |-> w, inputs |-> in, outputs |-> out, instances |-> inst, assignments |-> asg]
Inst(name, module, list) == [name |-> name, module |-> module, port_list |-> list]
At(port, net) == IF net = None THEN << >> ELSE <<[port |-> port, net |-> net]>>
Assign(l, r) == <<[lhs |-> l, rhs |-> r]>>
Flop(name, ck, d, q) == Inst(name, "DFF", At("CK", ck) \o At("D", d) \o At("Q", q))
Buf(name, x, z) == Inst(name, "BUF", At("A", x) \o At("Z", z))

Nets3 == <<"a", "n", "z">>
Ends == B_Names \cup {None}
Bufs(name) == {Buf(name, x, z) : x \in Ends, z \in Ends}
Assigns == {Assign(l, r) : l \in B_Names, r \in B_Names}

Regular ==
  {Module(Nets3, <<"a">>, <<"z">>, inst, asg) :
     inst \in {<<b, c>> : b \in Bufs("u1"), c \in Bufs("u2")}, asg \in {<< >>, Assign("z", "n"), Assign("n", "z")}}
Assigned2 ==
  {Module(Nets3, <<"a">>, <<"z">>, inst, x \o y) :
     inst \in {<< >>} \cup {<<Buf("u1", "a", z)>> : z \in Ends}, x \in Assigns, y \in Assigns}
Undriven ==
  {Module(Nets3, << >>, <<"z">>, <<Buf("u1", "a", z)>>, asg) : z \in {"n", None}, asg \in {<< >>, Assign("z", "a")}}
Undeclared ==
  {Module(w, <<"a">>, <<"z">>, <<Buf("u1", "a", "n")>>, Assign("z", "n")) :
     w \in {<<"a", "n">>, <<"a", "z">>, <<"n", "z">>}}
Clocked ==
  {Module(Nets3, in, out, <<Flop("u1", x, "a", None), b>>, << >>) :
     in \in {<<"a">>, <<"a", "n">>}, out \in {<<"z">>, <<"z", "z">>}, x \in Ends,
     b \in {Flop("u2", y, None, "z") : y \in Ends} \cup {Buf("u2", "a", "n"), Inst("u2", "LOST", << >>)}}
Odd ==
  {Module(Nets3, <<"a", "z">>, <<"z">>, << >>, << >>),
   Module(Nets3, <<"a">>, <<"z">>, <<Inst("u1", "ODD", At("Z", "z"))>>, << >>),
   Module(Nets3, <<"a">>, <<"z">>, <<Inst("u1", "BUF", At("A", "a") \o At("A", "n") \o At("Z", "n"))>>, << >>),
   Module(Nets3, <<"a">>, <<"z">>, <<Buf("u1", "a", "n"), Buf("u1", "n", None)>>, << >>)}

\* Two instances of one name but of different cells.
Namesakes ==
  {Module(Nets3, <<"a">>, <<"z">>, inst, << >>) :
     inst \in {<<Buf("u1", "a", "n"), Inst("u1", "SWAP", At("A", x) \o At("Z", y))>> : x \in Ends, y \in Ends}
               \cup {<<Inst("u1", "ODD", At("Z", "z")), Buf("u1", x, "n")>> : x \in Ends}}

\* A netlist read twice: VerilogParser appends to the module it has.
Twice(d) ==
  [wires |-> d.wires \o d.wires, inputs |-> d.inputs \o d.inputs, outputs |-> d.outputs \o d.outputs,
   instances |-> d.instances \o d.instances, assignments |-> d.assignments \o d.assignments]
ReadTwice == {Twice(d) : d \in Undriven \cup Odd}

\* A register clocked through a buffer: a legal netlist.
BufferedClock == {Module(Nets3, <<"a">>, <<"z">>, <<Buf("u1", "a", "n"), Flop("u2", "n", "a", "z")>>, << >>)}

B_Designs == Regular \cup Assigned2 \cup Undriven \cup Undeclared \cup Clocked \cup Odd \cup ReadTwice
             \cup BufferedClock \cup Namesakes
=============================================================================
