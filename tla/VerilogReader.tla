----------------------------- MODULE VerilogReader -----------------------------
(***************************************************************************)
(* VerilogParser: what read_verilog makes of the syntax tree of a file.    *)
(* The parser keeps one module for each name it has met and adds what a    *)
(* later file says of a module to what it has; the module of the file read *)
(* last is the top module.                                                 *)
(*                                                                         *)
(* A failed LOG_ASSERT and a LOG_FATAL end the program, so that nobody     *)
(* sees a file half read: a file is taken over whole or not at all.        *)
(***************************************************************************)
EXTENDS Integers, SequencesExt

CONSTANT None

\* Identifiers and expressions of the syntax tree; a port connected to
\* nothing has no expression.
Ids(names) == [kind : {"id", "bus_index_id", "bus_slice_id"}, name : names]
Exprs(names) ==
  [kind : {"id_expr"}, id : Ids(names)] \cup [kind : {"concat_expr", "constant_expr"}] \cup {None}
DclTypes == {"KInput", "KInout", "KOutput", "KSupply0", "KSupply1", "KTri", "KWand", "KWire", "KWor"}

VerilogModule(name) ==
  [name |-> name, ports |-> << >>, inputs |-> << >>, outputs |-> << >>, wires |-> << >>,
   instances |-> << >>, assignments |-> << >>]

\* The parser before its first file.
VerilogParser == [modules |-> << >>, top_module_name |-> None]

-----------------------------------------------------------------------------
\* What get_id and get_expr_id assert: a name, or one bit of a bus, whose name
\* holds the brackets.
HasId(id) == id.kind \in {"id", "bus_index_id"}
HasExprId(expr) == expr # None /\ expr.kind = "id_expr" /\ HasId(expr.id)

port_list(connections) ==
  [k \in DOMAIN connections |->
     [port |-> connections[k].port_id.name, net |-> connections[k].net_expr.id.name]]

handle_port_list(module, list) ==
  LET ids == SelectSeq(list, LAMBDA id : id # None /\ id.kind = "id")
  IN [module EXCEPT !.ports = @ \o [k \in DOMAIN ids |-> ids[k].name]]

\* A declaration of a bus declares its name, without its range.
on_declaration(module, dcl) ==
  CASE dcl.type = "KInput"  -> [module EXCEPT !.inputs = Append(@, dcl.name)]
    [] dcl.type = "KOutput" -> [module EXCEPT !.outputs = Append(@, dcl.name)]
    [] dcl.type = "KWire"   -> [module EXCEPT !.wires = Append(@, dcl.name)]
    [] OTHER                -> module
on_declarations(module, dcls) == FoldLeft(on_declaration, module, dcls)

on_instance(module, inst) ==
  [module EXCEPT !.instances =
     Append(@, [name |-> inst.name, module |-> inst.cell_name,
                port_list |-> port_list(inst.port_connections)])]

on_assignment(module, stmt) ==
  [module EXCEPT !.assignments = Append(@, [lhs |-> stmt.left.id.name, rhs |-> stmt.right.id.name])]

process_statement(module, stmt) ==
  CASE stmt.kind = "inst"   -> on_instance(module, stmt)
    [] stmt.kind = "assign" -> on_assignment(module, stmt)
    [] stmt.kind = "dcl"    -> on_declaration(module, stmt)
    [] stmt.kind = "dcls"   -> on_declarations(module, stmt.dcls)

\* The statements and declarations that do not end the program.
DclAccepted(dcl) == dcl.type \in {"KInput", "KOutput", "KWire", "KInout"}
Accepted(stmt) ==
  CASE stmt.kind = "inst"   -> \A k \in DOMAIN stmt.port_connections :
                                 /\ HasId(stmt.port_connections[k].port_id)
                                 /\ HasExprId(stmt.port_connections[k].net_expr)
    [] stmt.kind = "assign" -> HasExprId(stmt.left) /\ HasExprId(stmt.right)
    [] stmt.kind = "dcl"    -> DclAccepted(stmt)
    [] stmt.kind = "dcls"   -> \A k \in DOMAIN stmt.dcls : DclAccepted(stmt.dcls[k])
    [] OTHER                -> FALSE

-----------------------------------------------------------------------------
\* A file is the sequence of the modules in it, None if it cannot be parsed.
autoTopModule(file) == file # None /\ Len(file) = 1
IsReadable(file) ==
  /\ autoTopModule(file)
  /\ \A k \in DOMAIN file[1].module_stmts : Accepted(file[1].module_stmts[k])

\* try_emplace: a module the parser has is kept.
try_emplace_Anew(modules, name) == VerilogModule(name)
try_emplace(modules, name) == IF name \in DOMAIN modules THEN modules[name] ELSE VerilogModule(name)

read_verilog(parser, file) ==
  LET text == file[1]
      module == FoldLeft(process_statement,
                         handle_port_list(try_emplace(parser.modules, text.name), text.port_list),
                         text.module_stmts)
  IN [modules |-> [name \in DOMAIN parser.modules \cup {text.name} |->
                     IF name = text.name THEN module ELSE parser.modules[name]],
      top_module_name |-> text.name]

\* modules.at(top_module_name) throws if no file was read.
HasTopModule(parser) == parser.top_module_name \in DOMAIN parser.modules
get_top_module(parser) == parser.modules[parser.top_module_name]
get_all_cell_name(parser) ==
  LET instances == get_top_module(parser).instances
  IN {instances[k].module : k \in DOMAIN instances}
=============================================================================
