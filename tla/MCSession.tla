-------------------------------- MODULE MCSession --------------------------------
(***************************************************************************)
(* Verilog files of two modules: one of assignments only, in two files,    *)
(* one of a register, in two forms, and files that are refused.  Liberty   *)
(* files that are good, cannot be parsed, have a template that throws and  *)
(* are no library, or have cells with faults.                              *)
(***************************************************************************)
EXTENDS SessionProperties

S_Names == {"i", "o", "n", "b[0]"}
S_Instances == {"u1", "u2"}
S_Ports == {"A", "Z", "CK", "D", "Q"}
S_Modules == {"BUF", "DFF"}
S_Library ==
  [BUF |-> [ports |-> [A |-> "INPUT", Z |-> "OUTPUT"],
            arcs |-> <<[src_port |-> "A", snk_port |-> "Z", kind |-> "DELAY"]>>],
   DFF |-> [ports |-> [CK |-> "INPUT", D |-> "INPUT", Q |-> "OUTPUT"],
            arcs |-> <<[src_port |-> "CK", snk_port |-> "Q", kind |-> "DELAY"]>>]]
NoFaults == [c \in S_Modules |-> {}]
Sound == [cells |-> S_Modules, library |-> {}, walk |-> NoFaults, convert |-> NoFaults]
S_LibertyFiles ==
  [good |-> Sound,
   bad  |-> None,
   odd  |-> [Sound EXCEPT !.library = {"thrown", "undefined"}],
   worn |-> [Sound EXCEPT !.walk["DFF"] = {"undefined", "stopped"}, !.convert["BUF"] = {"undefined"}]]

Id(name) == [kind |-> IF name = "b[0]" THEN "bus_index_id" ELSE "id", name |-> name]
IdExpr(name) == [kind |-> "id_expr", id |-> Id(name)]
Dcl(type, name) == [kind |-> "dcl", type |-> type, name |-> name]
Wires(names) == [kind |-> "dcls", dcls |-> [k \in DOMAIN names |-> Dcl("KWire", names[k])]]
Assign(l, r) == [kind |-> "assign", left |-> IdExpr(l), right |-> IdExpr(r)]
At(port, expr) == [port_id |-> Id(port), net_expr |-> expr]
Inst(name, cell, connections) ==
  [kind |-> "inst", name |-> name, cell_name |-> cell, port_connections |-> connections]
Flop(ck) == Inst("u1", "DFF", <<At("CK", IdExpr(ck)), At("D", IdExpr("i")), At("Q", IdExpr("o"))>>)
Buf(x, z) == Inst("u2", "BUF", <<At("A", x), At("Z", IdExpr(z))>>)
Text(name, stmts) == <<[name |-> name, port_list |-> <<Id("i"), None>>, module_stmts |-> stmts]>>
Ends == <<Dcl("KInput", "i"), Dcl("KOutput", "o"), Dcl("KInout", "n")>>

S_VerilogFiles ==
  [wire  |-> Text("a", Ends \o <<Wires(<<"i", "o">>), Assign("o", "i")>>),
   more  |-> Text("a", <<Wires(<<"n">>), Assign("n", "i")>>),
   flop  |-> Text("b", Ends \o <<Wires(<<"i", "o">>), Flop("i")>>),
   gated |-> Text("b", Ends \o <<Wires(<<"i", "o", "b[0]">>), Buf(IdExpr("i"), "b[0]"), Flop("b[0]")>>),
   const |-> Text("b", Ends \o <<Wires(<<"o">>), Buf([kind |-> "constant_expr"], "o")>>),
   tri   |-> Text("b", Ends \o <<Dcl("KTri", "n")>>),
   two   |-> Text("a", << >>) \o Text("b", << >>),
   lost  |-> None]

Opt(option, value) == [option |-> option, value |-> value]
From(start, end) == Opt("T", <<start, end>>)
MaxMode == Opt("d", "max")
S_Arguments ==
  {<<MaxMode, From("REG", "OUT")>>,
   <<From("IN", "REG"), MaxMode, Opt("m", 5), Opt("m", 1), Opt("s", 0), Opt("c", None)>>,
   <<MaxMode, From("IN", "OUT"), Opt("m", -1)>>,
   <<MaxMode, From("OUT", "REG")>>, <<From("IN", "OUT")>>, <<MaxMode>>, <<MaxMode, From("IN", "OUT"), Opt("m", None)>>}
S_PathSlacks ==
  [p \in {"IN", "REG"} \X {"REG", "OUT"} |-> IF p[1] = "IN" THEN <<0, -1, 2, -1>> ELSE <<1, 0>>]
S_MaxCalls ==
  [p \in Interfaces \X {"read_verilog", "read_liberty", "link_design", "update_timing", "report_timing",
                        "link_lib", "select_cell", "exit"} |->
     IF p[2] \in {"select_cell", "exit"} \/ (p[1] # "pyLibertyParser" /\ p[2] = "read_liberty") THEN 1 ELSE 2]
=============================================================================
