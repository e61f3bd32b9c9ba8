--------------------------- MODULE SessionProperties ---------------------------
(***************************************************************************)
(* What a user may rely on, told by the commands given so far and the      *)
(* files they named, not by what the programs keep of them.                *)
(***************************************************************************)
EXTENDS Session

Now == Len(history)
Given(command) == {k \in DOMAIN history : history[k].command = command}
Earlier(command) == Given(command) \ {Now}
IsLast(k, commands) == k \in commands /\ \A l \in commands : l <= k

\* What the last command asked the libraries for.
Asked == IF interface = "pyLibertyParser" THEN history[Now].file ELSE get_all_cell_name(verilog_parser)

\* Of the commands, three may leave defined behaviour: the shell is asked to
\* update what was never linked, or for a report of a design that was not updated
\* since it was linked (cmd_update_timing, cmd_report_timing); a library is linked
\* twice, or has a fault in what is asked for: in its own groups, or in the walk or
\* the conversion of a cell that is needed (LibertyParser::link_lib).  Every other
\* order of commands is safe: no Timer outlives its circuit unnoticed, no cell the
\* tables that arcs point to.
UndefinedForCause ==
  status = "undefined" =>
    CASE history[Now].command = "update_timing" ->
           interface = "shell" /\ Earlier("link_design") = {}
      [] history[Now].command = "report_timing" ->
           /\ interface = "shell"
           /\ \A u \in Given("update_timing") : \E l \in Given("link_design") : u < l
      [] history[Now].command \in {"link_design", "link_lib"} ->
           \E r \in Given("read_liberty") :
             \/ \E l \in Earlier(history[Now].command) : r < l
             \/ "undefined" \in WalkFaults(history[r].file, Asked)
             \/ "undefined" \in ConvertFaults(history[r].file, Asked)
      [] OTHER -> FALSE

-----------------------------------------------------------------------------
\* What files say, read off their statements.
Statements(f) ==
  FlattenSeq([k \in DOMAIN VerilogFiles[f][1].module_stmts |->
                LET s == VerilogFiles[f][1].module_stmts[k]
                IN IF s.kind = "dcls" THEN s.dcls ELSE <<s>>])
OfKind(f, kind) == SelectSeq(Statements(f), LAMBDA s : s.kind = kind)
NamesOf(f, type) ==
  LET dcls == SelectSeq(OfKind(f, "dcl"), LAMBDA s : s.type = type)
  IN [k \in DOMAIN dcls |-> dcls[k].name]
Joined(files, Of(_)) == FlattenSeq([k \in DOMAIN files |-> Of(files[k])])
Says(module, files) ==
  /\ module.inputs = Joined(files, LAMBDA f : NamesOf(f, "KInput"))
  /\ module.outputs = Joined(files, LAMBDA f : NamesOf(f, "KOutput"))
  /\ module.wires = Joined(files, LAMBDA f : NamesOf(f, "KWire"))
  /\ Len(module.assignments) = Len(Joined(files, LAMBDA f : OfKind(f, "assign")))
  /\ LET insts == Joined(files, LAMBDA f : OfKind(f, "inst"))
     IN /\ Len(module.instances) = Len(insts)
        /\ \A k \in DOMAIN insts : /\ module.instances[k].name = insts[k].name
                                   /\ module.instances[k].module = insts[k].cell_name

TopName(f) == VerilogFiles[f][1].name
FilesBefore(k) == SelectSeq(SubSeq(history, 1, k), LAMBDA h : h.command = "read_verilog")
\* The files that make the top module at one point of the history.
FilesOfTop(k) ==
  LET read == FilesBefore(k)
      same == SelectSeq(read, LAMBDA h : TopName(h.file) = TopName(read[Len(read)].file))
  IN [n \in DOMAIN same |-> same[n].file]
\* No link comes back once a file was read that cannot be parsed, or whose
\* templates have a variable that mySTA does not know.
ComesBack(l) ==
  \A r \in Given("read_liberty") :
    LET file == LibertyFiles[history[r].file] IN r < l => file # None /\ "thrown" \notin file.library
\* What an update at one point of the history computed: the design of the last
\* link before it that came back.
UpdateOf(netlist, u) ==
  LET links == {l \in Given("link_design") : l < u /\ ComesBack(l)}
  IN \E l \in links : IsLast(l, links) /\ Says(netlist, FilesOfTop(l))

WorstPaths(slacks, o) ==
  LET kept == {k \in DOMAIN slacks : slacks[k] <= o.slack_lesser_than}
  IN /\ ToSet(shown.paths) \subseteq kept
     /\ Cardinality(ToSet(shown.paths)) = Len(shown.paths)
     /\ Len(shown.paths) \in {Cardinality(kept), o.max_paths}
     /\ o.max_paths < 0 => ToSet(shown.paths) = kept
     /\ \A k \in DOMAIN shown.paths : \A l \in kept \ ToSet(SubSeq(shown.paths, 1, k)) :
          slacks[shown.paths[k]] <= slacks[l]

\* A report of the shell shows the design as it was linked before the last
\* update, out of all files of that name read until then, the worst paths
\* first, none left out that is worse than one shown; but it is headed by the
\* name of the file read last, whether that was linked or not
\* (cmd_report_timing, report_timing_command, VerilogParser::read_verilog).
ShellReport ==
  /\ \A u \in Given("update_timing") : IsLast(u, Given("update_timing")) => UpdateOf(shown.netlist, u)
  /\ LET read == FilesBefore(Now) IN shown.design = TopName(read[Len(read)].file)
  /\ WorstPaths(PathSlacks[shown.options.start, shown.options.end], shown.options)
\* A report of pySTA shows what one of the updates computed, or nothing, if the
\* first report for its start point came before the first update of a design.
PySTAReport ==
  IF shown.netlist # None THEN \E u \in Given("update_timing") : UpdateOf(shown.netlist, u)
  ELSE /\ shown.paths = << >>
       /\ \A l \in Given("link_design"), u \in Given("update_timing") :
            l < u /\ ComesBack(l) /\ FilesBefore(l) # << >> => \E r \in Given("report_timing") : r < u
\* pyVerilogParser returns the module of one file, whatever was read before;
\* pyLibertyParser finds a cell if the last link_lib came back, asked for it by
\* name, and one of the files has it.
PyModule == Says(shown.module, <<history[Now].file>>)
PyCell ==
  shown.found <=>
    \E l \in Given("link_lib") :
      /\ IsLast(l, Given("link_lib")) /\ ComesBack(l) /\ shown.cell \in history[l].file
      /\ \E r \in Given("read_liberty") : r < l /\ shown.cell \in LibertyFiles[history[r].file].cells

\* Every result is about the files its user named, in every order of commands
\* that leads to it.
ResultsShowFiles ==
  shown # None =>
    CASE history[Now].command = "report_timing" -> IF interface = "shell" THEN ShellReport ELSE PySTAReport
      [] history[Now].command = "read_verilog"  -> PyModule
      [] history[Now].command = "select_cell"   -> PyCell
=============================================================================
