-------------------------------- MODULE Session --------------------------------
(***************************************************************************)
(* The programs around the engine: the shell and the three Python modules. *)
(* Each keeps its parsers, the circuit and the Timer in global variables   *)
(* and runs one command after the other, in whatever order the user gives  *)
(* them.  A command is one step.                                           *)
(*                                                                         *)
(* What a component does inside a command is the matter of its own module: *)
(* VerilogReader reads, Connectivity says which netlists build_circuit     *)
(* refuses, LibertyLink says how tasks and links go on beside each other,  *)
(* LibraryBuild and LibertyCell say which libraries cannot be walked and   *)
(* converted, Timer fills the cache of reports.                            *)
(***************************************************************************)
EXTENDS VerilogReader, FiniteSets

CONSTANTS
  Names, Instances, Ports, Modules, Library,  \* as in CircuitBuild
  VerilogFiles,   \* the syntax tree of each Verilog file
  LibertyFiles,   \* each Liberty file, None if it cannot be parsed
  Arguments,      \* what may follow report_timing, split at spaces
  PathSlacks,     \* the slacks of the paths Timer finds for two point types
  MaxCalls,       \* bound: calls of each command, by the program
  MaxCommands     \* bound: commands of a session

ASSUME NoneAssumption == None \notin Nat

\* A Liberty file: its cells, and what becomes of the program that links it when
\* the groups of the library or those of a cell cannot be walked, and when a cell
\* cannot be converted to a CellLib.  A file may have several faults; only a
\* variable of a template throws.
Faults == {"stopped", "undefined"}
LibertyFile(names) ==
  [cells : {names}, library : SUBSET (Faults \cup {"thrown"}),
   walk : [names -> SUBSET Faults], convert : [names -> SUBSET Faults]]
ASSUME LibertyAssumption ==
  \A f \in DOMAIN LibertyFiles :
    LibertyFiles[f] # None => LibertyFiles[f] \in LibertyFile(LibertyFiles[f].cells)

Interfaces == {"shell", "pySTA", "pyVerilogParser", "pyLibertyParser"}

VARIABLES
  interface,       \* the program that runs
  verilog_parser,
  readers,         \* LibertyParser::_liberty_readers: file and syntax tree
  libs,            \* the cells of LibertyParser::_libs
  cells,           \* the names of LibertyParser::_cells
  circuit,
  timer,
  shown,           \* what the last command printed or returned
  history,         \* the commands so far, each with the file it read
  status           \* "running", "exited", "stopped", "undefined"

inputs_read == <<verilog_parser, readers>>
vars == <<interface, inputs_read, libs, cells, circuit, timer, shown, history, status>>

\* link is the call of link_design that built the circuit; netlist is what
\* create_* have put into it.
Circuit(link, netlist) == [link |-> link, netlist |-> netlist]
\* A Timer holds a reference to a circuit; it sees the netlist as it was in
\* its last update, and keeps what a report found for each start type.
Timer(link) ==
  [circuit |-> link, sees |-> None, clock |-> FALSE, cache |-> [s \in {"IN", "REG"} |-> None]]
\* Null pointers: the shell has neither before it links and updates.
NoCircuit == Circuit(None, VerilogModule(None))
NoTimer == Timer(None)

Init ==
  /\ interface \in Interfaces
  /\ verilog_parser = VerilogParser
  /\ readers = << >> /\ libs = {} /\ cells = {}
  /\ circuit = IF interface = "pySTA" THEN Circuit(0, VerilogModule(None)) ELSE NoCircuit
  /\ timer = IF interface = "pySTA" THEN Timer(0) ELSE NoTimer
  /\ shown = None /\ history = << >> /\ status = "running"

Calls(command) == Cardinality({k \in DOMAIN history : history[k].command = command})
Run(command, programs) ==
  /\ status = "running" /\ interface \in programs
  /\ Calls(command) < MaxCalls[interface, command] /\ Len(history) < MaxCommands
Log(command, file) == history' = Append(history, [command |-> command, file |-> file])

End(how) ==
  /\ status' = how /\ shown' = None
  /\ UNCHANGED <<interface, inputs_read, libs, cells, circuit, timer>>
\* The shell catches no exception; pybind11 hands it to the caller.
Throw == End(IF interface = "shell" THEN "stopped" ELSE "running")

-----------------------------------------------------------------------------
\* pyVerilogParser uses a new parser for each file.
cmd_read_verilog ==
  /\ Run("read_verilog", {"shell", "pySTA", "pyVerilogParser"})
  /\ \E f \in DOMAIN VerilogFiles :
       /\ Log("read_verilog", f)
       /\ \/ ~ IsReadable(VerilogFiles[f]) /\ End("stopped")
          \/ /\ IsReadable(VerilogFiles[f])
             /\ verilog_parser' =
                  read_verilog(IF interface = "pyVerilogParser" THEN VerilogParser ELSE verilog_parser,
                               VerilogFiles[f])
             /\ shown' = IF interface = "pyVerilogParser"
                         THEN [module |-> get_top_module(verilog_parser')] ELSE None
             /\ UNCHANGED <<interface, readers, libs, cells, circuit, timer, status>>

\* The task that parses a file has ended when somebody looks at its tree; over a
\* file that cannot be parsed it ends the program, at any time until then.
cmd_read_liberty ==
  /\ Run("read_liberty", {"shell", "pySTA", "pyLibertyParser"})
  /\ \E f \in DOMAIN LibertyFiles :
       /\ Log("read_liberty", f)
       /\ readers' = Append(readers, [file |-> f, tree |-> IF LibertyFiles[f] = None THEN "null" ELSE "parsed"])
  /\ shown' = None
  /\ UNCHANGED <<interface, verilog_parser, libs, cells, circuit, timer, status>>

IsPending == \E k \in DOMAIN readers : readers[k].tree = "null"
readLib_panics ==
  /\ status = "running" /\ IsPending
  /\ End("stopped") /\ UNCHANGED history

\* What a link may meet in a file.  Needed cells only are walked and converted,
\* all of them walked and none converted if none is named.
Built(f, needed) == IF needed = {} THEN LibertyFiles[f].cells ELSE LibertyFiles[f].cells \cap needed
WalkFaults(f, needed) ==
  LibertyFiles[f].library \cup UNION {LibertyFiles[f].walk[c] : c \in Built(f, needed)}
ConvertFaults(f, needed) ==
  UNION {LibertyFiles[f].convert[c] : c \in LibertyFiles[f].cells \cap needed}

\* link_lib waits for all tasks, then walks one reader after the other, and frees
\* its syntax tree; readers and libraries stay for the calls to come.
Links(k, needed) == readers[k].tree = "parsed" /\ WalkFaults(readers[k].file, needed) = {}
Linked(n, needed) ==
  /\ readers' = [k \in DOMAIN readers |->
                   [readers[k] EXCEPT !.tree = IF k <= n THEN "freed" ELSE @]]
  /\ libs' = libs \cup UNION {Built(readers[k].file, needed) : k \in 1 .. n}
\* The first reader that does not link: one that was linked before, or what it
\* meets first of its faults.  After an exception the readers before it are linked.
Stumbles(k, needed) ==
  \/ readers[k].tree = "freed" /\ End("undefined")
  \/ /\ readers[k].tree = "parsed"
     /\ \E how \in Faults : how \in WalkFaults(readers[k].file, needed) /\ End(how)
  \/ /\ readers[k].tree = "parsed" /\ "thrown" \in WalkFaults(readers[k].file, needed)
     /\ Linked(k - 1, needed) /\ cells' = {}
     /\ status' = (IF interface = "shell" THEN "stopped" ELSE "running") /\ shown' = None
     /\ UNCHANGED <<interface, verilog_parser, circuit, timer>>
\* Each cell is converted out of the first file that has it, in hash order.
IsFirst(k, c) ==
  LET Has(l) == c \in LibertyFiles[readers[l].file].cells
  IN  Has(k) /\ \A l \in 1 .. k - 1 : ~ Has(l)
CellFaults(needed) ==
  UNION {ConvertFaults(readers[k].file, {c \in needed : IsFirst(k, c)}) : k \in DOMAIN readers}
link_lib_fails(needed) ==
  \/ IsPending /\ End("stopped")
  \/ /\ ~ IsPending
     /\ \E k \in DOMAIN readers :
          /\ ~ Links(k, needed) /\ \A l \in 1 .. k - 1 : Links(l, needed)
          /\ Stumbles(k, needed)
  \/ /\ \A k \in DOMAIN readers : Links(k, needed)
     /\ \E how \in Faults : how \in CellFaults(needed) /\ End(how)
link_lib(needed) ==
  /\ \A k \in DOMAIN readers : Links(k, needed)
  /\ CellFaults(needed) = {}
  /\ Linked(Len(readers), needed)
  /\ cells' = needed \cap libs'

\* What a build adds to the pins and nets of a circuit: a pin keeps the type
\* it has.
Extended(old, new) ==
  LET WasOutput(n) == Contains(old.outputs, n) /\ ~ Contains(old.inputs, n)
  IN [new EXCEPT
        !.wires = old.wires \o @,
        !.inputs = old.inputs \o SelectSeq(@, LAMBDA n : ~ WasOutput(n)),
        !.outputs = old.outputs \o SelectSeq(new.inputs, WasOutput) \o @,
        !.assignments = old.assignments \o @]
Netlist(design) ==
  INSTANCE Connectivity WITH
    Designs <- {}, MaxBuilds <- 0, nets <- {}, source <- << >>, sinks <- << >>, pin_type <- << >>,
    cells <- << >>, arcs <- << >>, clock <- None, phase <- "nets", i <- 1, j <- 1, done <- {},
    builds <- 1, error <- None
CanBuild(netlist, known) ==
  /\ \A k \in DOMAIN netlist.instances : netlist.instances[k].module \in known
  /\ Netlist(netlist)!WellFormed

\* The shell builds a new circuit, which destroys the old one; pySTA builds
\* into its only one.
build_circuit(netlist) ==
  IF CanBuild(netlist, cells')
  THEN /\ circuit' = Circuit(IF interface = "shell" THEN Calls("link_design") + 1 ELSE 0, netlist)
       /\ UNCHANGED status
  ELSE status' = "stopped" /\ UNCHANGED circuit
cmd_link_design ==
  /\ Run("link_design", {"shell", "pySTA"})
  /\ Log("link_design", None)
  /\ \/ ~ HasTopModule(verilog_parser) /\ Throw
     \/ HasTopModule(verilog_parser) /\ link_lib_fails(get_all_cell_name(verilog_parser))
     \/ /\ HasTopModule(verilog_parser)
        /\ link_lib(get_all_cell_name(verilog_parser))
        /\ \E netlist \in {IF interface = "shell" THEN get_top_module(verilog_parser)
                           ELSE Extended(circuit.netlist, get_top_module(verilog_parser))} :
             build_circuit(netlist)
        /\ shown' = None
        /\ UNCHANGED <<interface, verilog_parser, timer>>

\* A circuit nothing was built into has no pins.
Analysed == IF circuit.netlist.name = None THEN None ELSE circuit.netlist
\* Each update of the shell has a new Timer.
cmd_update_timing_OneTimer ==
  /\ Run("update_timing", {"shell", "pySTA"})
  /\ Log("update_timing", None)
  /\ \/ circuit = NoCircuit /\ End("undefined")
     \/ /\ circuit # NoCircuit
        /\ timer' = [(IF timer = NoTimer THEN Timer(circuit.link) ELSE timer) EXCEPT !.sees = Analysed]
        /\ shown' = None
        /\ UNCHANGED <<interface, inputs_read, libs, cells, circuit, status>>
cmd_update_timing ==
  /\ Run("update_timing", {"shell", "pySTA"})
  /\ Log("update_timing", None)
  /\ \/ circuit = NoCircuit /\ End("undefined")
     \/ /\ circuit # NoCircuit
        /\ timer' = [(IF interface = "shell" THEN Timer(circuit.link) ELSE timer)
                       EXCEPT !.sees = Analysed]
        /\ shown' = None
        /\ UNCHANGED <<interface, inputs_read, libs, cells, circuit, status>>

-----------------------------------------------------------------------------
\* parse_report_timing_options: later options replace earlier ones.  A number
\* that stoi or stof refuses, a mode or a point type with no such name and
\* a start_end_type that is not "X_to_Y" are None.
Options == [delay_type |-> None, max_paths |-> 1000, slack_lesser_than |-> 1000, start |-> None, end |-> None]
parse_option(options, o) ==
  CASE o.option = "d" -> [options EXCEPT !.delay_type = o.value]
    [] o.option = "m" -> [options EXCEPT !.max_paths = o.value]
    [] o.option = "s" -> [options EXCEPT !.slack_lesser_than = o.value]
    [] o.option = "T" -> [options EXCEPT !.start = o.value[1], !.end = o.value[2]]
    [] OTHER          -> options
parse_report_timing_options(arg) == FoldLeft(parse_option, Options, arg)
\* Conversions throw where they stand, before any option is checked.
IsThrown(arg) == \E k \in DOMAIN arg : arg[k].option \in {"m", "s"} /\ arg[k].value = None
\* What report_timing_command, pySTA's report_timing and Timer::report_timing assert.
AreAsserted(o) == o.delay_type # None /\ o.start \in {"IN", "REG"} /\ o.end \in {"REG", "OUT"}

\* deduce_clock, until the first register that a primary input clocks.
CK(netlist, k) == Netlist(netlist)!port_mapping(netlist.instances[k].port_list)["CK"]
ClocksBefore(netlist, k) == \A l \in 1 .. k - 1 : ~ Contains(netlist.inputs, CK(netlist, l))
HasClock(netlist) == \E k \in DOMAIN netlist.instances : Contains(netlist.inputs, CK(netlist, k))
ClockStops(netlist) ==
  \E k \in DOMAIN netlist.instances :
    /\ CK(netlist, k) # None /\ ClocksBefore(netlist, k)
    /\ ~ Contains(netlist.inputs \o netlist.outputs, CK(netlist, k))

\* The paths are filtered by slack, sorted and cut; a negative number of paths
\* is converted to a size_t larger than any list.
IsWorstFirst(slacks, p) == \A k \in 1 .. Len(p) - 1 : slacks[p[k]] <= slacks[p[k + 1]]
Selected(slacks, limit) == {k \in DOMAIN slacks : slacks[k] <= limit}
Cut(list, n) == IF n \in 0 .. Len(list) THEN SubSeq(list, 1, n) ELSE list
Printed(slacks, o) ==
  {Cut(p, o.max_paths) : p \in {q \in SetToSeqs(Selected(slacks, o.slack_lesser_than)) : IsWorstFirst(slacks, q)}}

\* A Timer that has found no clock looks for one in its circuit at every
\* report, one that has no report for the start type builds it there.
TimerOf(start) ==
  [timer EXCEPT !.clock = @ \/ HasClock(circuit.netlist),
                !.cache[start] = IF @ = None THEN [netlist |-> timer.sees] ELSE @]
UsesCircuit(start) == ~ timer.clock \/ timer.cache[start] = None
\* What is printed of a report: which design the header names, the options it
\* repeats, and the paths below it, none for "No constrained paths".
Printout(o, netlist, paths) ==
  [design |-> IF interface = "shell" THEN verilog_parser.top_module_name ELSE None,
   netlist |-> netlist, options |-> o, paths |-> paths]

report(o, print) ==
  \/ UsesCircuit(o.start) /\ timer.circuit # circuit.link /\ End("undefined")
  \/ /\ timer.circuit = circuit.link /\ ~ timer.clock /\ ClockStops(circuit.netlist)
     /\ End("stopped")
  \/ /\ UsesCircuit(o.start) => timer.circuit = circuit.link
     /\ timer.clock \/ ~ ClockStops(circuit.netlist)
     /\ timer' = IF UsesCircuit(o.start) THEN TimerOf(o.start) ELSE timer
     /\ \E paths \in IF timer'.cache[o.start].netlist = None THEN {<< >>} ELSE print :
          shown' = Printout(o, timer'.cache[o.start].netlist, paths)
     /\ UNCHANGED <<interface, inputs_read, libs, cells, circuit, status>>

cmd_report_timing ==
  /\ Run("report_timing", {"shell"})
  /\ Log("report_timing", None)
  /\ \E arg \in Arguments :
       LET o == parse_report_timing_options(arg)
       IN \/ timer = NoTimer /\ End("undefined")
          \/ timer # NoTimer /\ IsThrown(arg) /\ Throw
          \/ timer # NoTimer /\ ~ IsThrown(arg) /\ ~ AreAsserted(o) /\ End("stopped")
          \/ /\ timer # NoTimer /\ ~ IsThrown(arg) /\ AreAsserted(o)
             /\ report(o, Printed(PathSlacks[o.start, o.end], o))

report_timing ==
  /\ Run("report_timing", {"pySTA"})
  /\ Log("report_timing", None)
  /\ \E arg \in Arguments :
       LET o == parse_report_timing_options(SelectSeq(arg, LAMBDA x : x.option \in {"d", "T"}))
       IN \/ ~ AreAsserted(o) /\ End("stopped")
          \/ AreAsserted(o) /\ report(o, {[k \in DOMAIN PathSlacks[o.start, o.end] |-> k]})

-----------------------------------------------------------------------------
\* pyLibertyParser links any cells and gives copies of what was linked.
py_link_lib ==
  /\ Run("link_lib", {"pyLibertyParser"})
  /\ \E needed \in SUBSET Modules :
       /\ Log("link_lib", needed)
       /\ \/ link_lib_fails(needed)
          \/ /\ link_lib(needed)
             /\ shown' = None
             /\ UNCHANGED <<interface, verilog_parser, circuit, timer, status>>

py_select_cell ==
  /\ Run("select_cell", {"pyLibertyParser"})
  /\ Log("select_cell", None)
  /\ \E c \in Modules : shown' = [cell |-> c, found |-> c \in cells]
  /\ UNCHANGED <<interface, inputs_read, libs, cells, circuit, timer, status>>

cmd_exit ==
  /\ Run("exit", {"shell"})
  /\ Log("exit", None)
  /\ End(IF IsPending THEN "stopped" ELSE "exited")

Next == \/ cmd_read_verilog \/ cmd_read_liberty \/ cmd_link_design \/ cmd_update_timing
        \/ cmd_report_timing \/ report_timing \/ readLib_panics \/ py_link_lib \/ py_select_cell \/ cmd_exit
Spec == Init /\ [][Next]_vars
=============================================================================
