# A TLA+ development for mySTA

mySTA is a static timing analyser: it reads a gate-level Verilog netlist and
Liberty cell libraries, builds a graph of pins and timing arcs, propagates
capacitance, slew, delay and arrival time through it, computes required times,
and reports for each end point the path with the least slack. This directory
holds TLA+ models of that engine, of its readers of netlists and libraries and of
the programs around it, the TLC runs that check them on small inputs and the
TLAPS proofs that hold for every input.

Paths below are relative to the repository; `src/Timer.cc` means the C++ file.

## 1. Inventory

| component | state it keeps | operations | interacts with |
|---|---|---|---|
| Timer (`src/Timer.cc`) | clock pin, clock shape, report cache | `update_capacitance`, `propagate_slew/_delay/_arrival_time/_request_arrival_time`, two resets, `report_timing` | calls pins and arcs of the Circuit; called by shell, pySTA, benchmark |
| Pin (`src/Pin.cc`) | capacitance, slew, arrival, request arrival, predecessor by mode and edge; fanin, fanout | `update_*`, `propagate_*`, `reset_*`, `connect_to` | its arcs, its net |
| Arc (`src/Arc.cc`) | delay by mode and both edges; three table pairs | `is_clock_edge_valid`, `calc_*`, `update_delay`, `propagate_*` | its two pins |
| Pin order (`src/CircuitBuilder.cc:253`) | cached order | `get_toposorted_pins` | every pass reads it |
| Circuit build (`src/CircuitBuilder.cc`, `src/Net.cc`) | nets, pins, arcs, cells | `build_circuit`, `deduce_clock` | reads VerilogParser and LibertyParser |
| Lookup tables (`include/Lut.h`, `src/solver`) | grid, axes | `get_value`, `get_index` | arcs |
| LibertyParser (`src/Parser/LibertyParser.cc`) | futures of readers, library, cells | `read_liberty` (async), `link_lib`, `select_cell` | Liberty builder, circuit |
| VerilogParser (`src/Parser/VerilogParser.cc`) | modules by name, top | `read_verilog`, `get_all_cell_name` | Rust parser, circuit |
| Shell (`src/user-interface/shell`) | the four objects as globals | commands `read_*`, `link_design`, `update_timing`, `report_timing` | all of the above |
| pySTA (`src/user-interface/pybind11.cc`) | one circuit, one Timer | the same as functions | all of the above |
| Liberty builder (`utils/liberty/LibParserRustC.cc`) | `LibBuilder`: pointers to the current cell, port, bus, arc, table, and two flags | `linkLib`: one handler on entering and one on leaving each kind of group, handlers of attributes | fills the object model, called by `link_lib` |
| Liberty object model (`utils/liberty/Lib.cc`, `LibClassifyCell.cc`) | libraries, cells, ports, arcs, arc sets, tables | queries, look-up, classes of cells of equal function | LibertyParser reads it |
| Rust parsers | syntax trees | parsing | the two parsers |
| Python reference, difference test, visualizer | - | second implementation, comparison of reports, drawing | - |

Hard behaviours. The engine is sequential, so the hazards are those of *order*
and of *stale state*: one visit of every pin has to be enough; a report throws
away arrival times but keeps predecessors; values are kept "if worse" and never
undone, over repeated updates; a cache is filled once and handed out by
reference; assertions stop the program half way. At the edges: asynchronous
readers of libraries, objects replaced while others refer to them, ill-formed
netlists, and a builder whose handlers of attributes are not told which group they
are in. PROJECT.json lists each at its line.

What makes each part correct:

* pin order: topological whenever the circuit has no combinational loop, and in
  any case every reached pin once;
* passes: the values they leave are the worst over all arcs, independent of the
  pin order and of how often they ran;
* reports: for each start type the arrival times are exactly the longest and
  shortest paths without the left-out start pins, the path reported is one of
  them, the walk back ends and meets no empty value, a cached report never
  changes;
* build: the circuit is a function of the netlist and the libraries, not of a
  hash order, or the build stops, exactly for ill-formed netlists;
* libraries: nothing of a reader is used while its task runs, and which cell a
  netlist gets depends on the order of reading, not on which task was faster;
* Liberty builder: what is linked is what the nesting of the groups says, and
  linking stops only at a file that has a fault;
* object model: the library's lookup and the engine's copy of it agree, and a
  cell is answered for by all its arcs, not by the one met first;
* programs: under commands in any order, behaviour is defined but for named causes,
  and a result is about the files its user named.

## 2. Modules

| module | what it is |
|---|---|
| `PinOrder` | what a pass needs of the order of pins (`IsTopologicalOrder`) |
| `Circuit` | the timing graph as constants, with the pure functions of Arc and Pin |
| `Timer` | the engine as a state machine |
| `StaTables` | loads, slews, path delays, arrival and required times told from the circuit alone |
| `Sta` | abstract specification: reports as a function of the set of all paths |
| `TimerInvariants`, `TimerProofs` | the engine under any client: invariants, and their proofs for every circuit |
| `TimerSettled` | what whole updates settle, with its inductive invariant, which `TimerProofs` proves for every circuit of wires and cells |
| `TimerProperties`, `StaProofs` | refinement of `Sta`, with its inductive invariant and proof; liveness |
| `TopoSort`, `TopoSortProofs` | the depth-first search and its proof |
| `CircuitBuild` | the build of the circuit and `deduce_clock` as a state machine |
| `Connectivity` | what a netlist means: who drives and who loads a net, without any order |
| `CircuitBuildProperties` | properties of the build against `Connectivity`, and the inductive invariant |
| `CircuitBuildProofs` | proofs: what holds of any build, and that a build makes the circuit of its netlist |
| `LibertyLink`, `LibertyLinkProofs` | reading libraries by tasks and linking them; proofs |
| `LibraryBuild` | the walk of the Liberty builder over a file as a state machine |
| `LibraryObjects` | the classes of `Lib.hh`: which fields and containers an object has |
| `LibraryBuildProperties` | what linking promises, told from the nesting of groups |
| `LibraryBuildProofs`, `LibraryWalkProofs` | proofs: the builder's pointers at any moment; how far the walk has come, and when it stops |
| `Maps` | `:>` and `@@` with definitions the provers can use |
| `Fractions` | exact arithmetic for tables |
| `TableLookup` | `LibTable::findValue` of the library and `Lut::get_value` of the engine |
| `OutputCurrent` | current vectors (CCS): the four around a point, sampling, interpolation |
| `LibertyCell` | queries of ports, arcs, arc sets, cells and units; `build_ports`, `build_arcs`, which take a cell over |
| `ClassifyCells` | `LibClassifyCell`: hash values, comparison, classes |
| `LibraryQueries` | a finished library asked everything: the properties of the four modules above |
| `VerilogReader` | `read_verilog` over a syntax tree |
| `Session`, `SessionProperties`, `SessionProofs` | the shell and the three Python modules, one step per command; what a user may rely on; proofs |
| `MCRegister`, `MCGates`, `MCLatch`, `MCTopoSort`, `MCCircuitBuild`, `MCLibertyLink`, `MCLibraryBuild`, `MCLibraryQueries`, `MCSession` | instances for TLC |

How they compose: `TimerProofs` assumes of its circuit what
`TopoSortProofs` and `CircuitBuildProofs` prove of sort and build. `Session` takes its netlists from
`VerilogReader` and asks `Connectivity`, the specification that `CircuitBuild` is
checked against, which of them a build refuses. `LibraryQueries` asks objects of
the shape that `LibraryBuild` makes, and ends at the arcs and tables that
`CircuitBuild` and `Timer` take as given.

### Timer and the code

`capacitance`, `slew`, `arrival_time`, `request_arrival_time`, `predecessor` are
the tables of all pins, `delay` those of all arcs, `clock_pin` and `report_cache`
the fields of Timer. One step of a pass is one innermost call of the nested loops
"for pin in the order, for (mode, from edge, to edge), for arc in the fanout";
`pos`, `combo`, `hop` are these three counters, so a value read by one call and
written by the next is seen as in the code. `propagate_slew` stands for
`Arc::propagate_slew`, `Arc::calc_slew` and `Pin::update_slew`, and so on;
`propagate_request_arrival_time` has the early returns of the Arc method as
`Constrains`, and its `LOG_ASSERT` is the action `abort_no_constraint`.
`report_timing` does everything `build_report_cache` does before its loop over
pins; the loop is `skip_start_pin` / `propagate_arrival_time` / `EndFanout`; the
lambda `collect_paths` is `skip_end_point`, `start_walk`, `walk_step`,
`EndGroup`, with its assertions as `abort_walk`. The order of end points comes
from a hash table and is left open (`\E p \in end_points`).

Who calls what is the constant `Client`: the shell makes a new Timer for each
`update_timing` and reports only after one; pySTA has one Timer and reports at
any time; a "library" program (such as the benchmark) may call each public
method alone in any order.

Abstractions. Numbers are integers in one unit. A table is the bilinear surface
`k + x*slew + y*cap + xy*slew*cap` that `Lut::get_value` computes inside one grid
cell; the tables of wires (`ZeroLut`, `PassThroughLut`) are two of these. A path
carries pin, edge, arrival time and slew of each hop and its slack; its
capacitance column is left out. A cached report is the set of its paths, because
the order of the vector is that of the hash table.

### TopoSort and the code

The recursion of `dfs` is kept as the sequence `calls` of its activation records
(pin, next arc); `stack`, `visitied_pins`, `toposorted_pins` have the names of the
code. The outer loop takes the primary inputs in any order. What the inputs lead to
(`From`) is told without a search: it is in every set around them that no arc leaves. `OrderIsTopological`
is what discharges `ToposortAssumption` of `Circuit`.

### CircuitBuild and the code

A pin is named by a pair: `<<instance, port>>` for `"inst/port"`, `<<None, net>>`
for a primary pin; an escaped Verilog name that itself holds a `/` could collide
in the code and is left out. `graph` is the maps and vectors of CircuitBuilder, one action is
one turn of one of its loops, `done` is what such a loop has passed: where the
code walks a hash table the next item is any one left, where it walks a vector it
is the first. Every `LOG_ASSERT` on the way is an `error` in which the build
stops. Arcs are one sequence in order of creation; what Timer needs of them
(fanin and fanout) is its two projections. Capacitances and tables of cells are
not carried: they are copied, not decided upon. After a build the user may call
`deduce_clock`, or build once more into the same object (what pySTA's
`link_design` does when called twice, if its first half survives, see LibertyLink).

`Connectivity` says of a netlist, with no loop and no order, which pins drive
and load each net, what the arcs are, and what is ill formed: an undeclared or
doubly driven net, a cell no library has or one with an arc at a port it lacks,
an assign whose right side has no driver yet or whose left side has one. A net
without a driver is legal and stays without arcs. Instances may share a name, and then
pins: the first of them whose cell has a port makes the pin. Wires are counted: between
two pins there are as many as places where the second loads a net of the first.
`BuildsNetlist` and `RefusesIllFormed` compare.

### LibertyLink and the code

`read_liberty` starts a task and returns; `readLib` is the whole task, because
nothing it does can be seen before its last write. `link_lib` waits for the
futures one by one, links the readers one by one and then looks for each needed
cell; the destructor of the parser is `exit`, the same waits, `destroy_readers`
(members are destroyed in the reverse of their declaration, so futures, which
block, go before readers). What can go wrong is in the files: `Readable`, `Foreign`
(the outermost group is no library), `Throwing` (an unknown template variable), `Faulty` and
`Uncertain` (the groups of the library, or a cell, that cannot be walked, or not always) and
`Unusable` (a cell that cannot be converted); these are any sets, and `LibraryBuild` and
`LibertyCell` say which files and cells belong to them. A task over a file that cannot be parsed
panics: `rust_parse_lib` unwraps the error across an `extern "C"` boundary, which ends the process
(with toolchains before Rust 1.81, undefined behaviour), at any moment while the task runs. A
missing builder, a freed tree, a fault in the walk or the conversion end the behaviour with an
`error` that names them, be it a fatal log or undefined. An exception leaves `link_lib` with
the readers before it linked; the user may go on (`"thrown"`). Which of several faults in a file
comes first is left open.

### LibraryBuild and the code

A file is a sequence of groups in the order they open, each with its statements;
`stack` is the recursion of the visit, with the statements still left in each
open group: the simple ones go first, then the others in their order. `builder`
is `LibBuilder`. Each kind of group has an action for entering it
(`visitCell`, `visitPin`, ...) and one for leaving it (`leave...`); entering creates
an object and moves a pointer, leaving hangs the object into its owner and resets
some of the pointers. `visitSimpleAttri` is one action over a table that says, for
each of the attributes, which pointer its handler follows, which fields it sets and
from which unit it converts; `Receivers` resolves the pointer, an uninitialised flag
of the builder being any value. The kinds of complex attributes have an action
each. An object is named by the group that made it; `attrs` and `members` are the
fields and containers of all objects. A fatal log, a panic of the parser's library, an
exception, a null pointer or an index out of bounds is an `error` in which linking stops.
What a handler cannot read wherever it stands is told beforehand (`Flawed`): a value of the wrong
form (`Unreadable`; a number where a text is read, a text where a number is, a `function` that is no
expression, an unknown template variable), a complex attribute with too few or
unreadable values (`Incomplete`; among them a `fanout_length` that is not a pair), a group without a
name. A pin `A[0:3]` stands for no port (`Ports` is empty), and what is said of its port meets the
pointer that is there, which is none. Values stay the text of the file;
what a conversion decides (an unknown direction becomes `inout`, a capacitance
without a unit is femtofarads, the transition limits land in the capacitance
limits) is kept.

`LibraryBuildProperties` never looks at a pointer, but for `PointersAtHome`: it
says of each attribute, port, arc and table where the nesting of the groups puts it.

### Library queries and the code

Nothing changes a finished library, so a behaviour of `LibraryQueries` is a subject
(a table, a set of vectors, a cell) about which the invariants ask every question at
every point, or a call of the classifier that takes one cell after the other. A
query has an outcome: a value, `Stops` (an assertion or a fatal log) or
`Undefined` (an index out of an array, an empty optional, a template that is not there).
What is converted first decides: `build_arcs` stops at an arc without a type before it reads a
scalar table behind it, and is undefined the other way round. Numbers are exact
fractions. Hash values in `ClassifyCells` are terms of what the code combines,
equal only where xor and + make them equal for every `std::hash`; classes are
checked against agreement of the cells' ports and arcs.

### VerilogReader, Session and the code

`read_verilog` is a function from the parser and the syntax tree to the parser: a
failed assertion ends the program, so nobody sees half a file. A module of a name
met before is added to, and the module of the last file is the top module.

In `Session` a command is a step; `history` holds the commands with their files.
`circuit` and `timer` carry the number of the link that made the circuit, so that a
Timer which refers to a destroyed circuit can be told. What Timer found is taken from
a table (`PathSlacks`), since `Timer` and `Sta` say what it is; `Session` adds the
options of `report_timing`, the filter, the sort and the cut of its paths. `status`
says how a program ended: by itself, by an exception or assertion (`"stopped"`), or
in undefined behaviour. pybind11 hands exceptions to the caller, the shell ends. A Liberty file
is its cells and the outcomes its faults have: in the groups of the library, in the walk and in the
conversion of each cell (`LibertyFile`). After an exception out of `link_lib` the readers before it
are linked, their trees gone and no cell is there, and pySTA and pyLibertyParser go on from that.

### The abstract specification

`Sta` has one variable, the function from (start type, mode, end type) to reports.
Its steps forget all reports (a new Timer) or fix one. `IsReport` says what a
report is without any order of computation: one worst path per reportable end point,
consistent hop by hop with the tables of `StaTables`. These are told from the circuit
alone: loads by sums over sinks, slews by recursion over the arcs into a pin, delays
from both, arrivals as the worst element of the *set of all path delays*, required
times as the strictest of the ports and of the constraint arcs. A pin is `Reached` if
it is in every set around the inputs that no arc leaves. `ImplementsSta` is refinement
under `reports <- report_cache`; it is checked by TLC and proved.

## 3. Runs

PROJECT.json lists the properties of each. Deadlock is checked in `register_shell`,
`gates_python` and `latch_shell`; elsewhere the program may stop (an assertion, an
error, the end of a session) or the modelled method has returned.

* `register_shell`: clock, input, register, gate with feedback to the register;
  non-unate and negative-unate arcs merge, Z drives a register and an output.
  Two pin orders, two updates. Reports are exact and those of `Sta`, every call
  returns, a second update changes nothing.
* `gates_python`: reconvergent gates, a pin that no input reaches, no clock;
  reports before, between and after two updates on one Timer never change once made.
* `latch_library`: a ripple divider (a register on the falling edge that clocks a
  second one) without a setup table for one edge, under three calls of single
  methods in any order, with reports anywhere: the inductive invariant of the proofs
  holds in every state, also where an assertion stops the program.
* `latch_shell`: the same without a transition table for one edge, through the
  shell, against `Sta`.
* `toposort`: all graphs of four pins with two inputs, or with one input and
  loops; 39563 states.
* `circuit_build`: more than a thousand netlists of three nets: two buffers
  connected in every way, with and without an assign; every pair of assigns;
  registers clocked by a port, a net or nothing; undriven and undeclared nets, odd
  cells, modules read twice. Each is built in every hash order, then built again;
  32 thousand states.
* `clock_lookup`: a violation, the first finding below.
* `liberty_link`: two overlapping files (with a cell that cannot be walked, one that may not be,
  one that cannot be converted), one that cannot be parsed, one that is no library, one that throws
  or stops; up to three reads with repetition, two links with every set of needed cells, the end
  of the program at any moment; 50973 states.
* `library_build`: 121 files, 6449 states. Most have a library with templates, a type, a wire
  load and two cells; the unit statement stands before the first, after the
  templates or between the cells; the first cell is one of nine that leave or find
  the builder in a state of their own (a register with buses, conditional arcs and
  powers, output currents, repeated tables, six faulty ones), the second one of
  three; nine of them are linked for two named cells only. The others hold one odd thing each:
  ascending pins with and without anything said of their port, each form of value a handler
  cannot read and its readable neighbours, each kind of nameless group.
* `library_when`: a violation, the second finding.
* `library_queries`: tables of one to three breakpoints by every order of axes and
  variables; vectors on full grids and grids with gaps; cells of up to two arcs out of
  fourteen (scalar tables, missing models and types among them), in either time unit; libraries of three cells out of seven for the
  classifier. Points lie below, on, between and beyond the breakpoints.
* `session`: each of the four programs under every sequence of up to seven commands
  (two reads of Verilog, one of Liberty, two links, two updates, two reports) over
  four Verilog files that are read and four that are refused, four Liberty files (a good one,
  one that cannot be parsed, one with faults in its groups, one with faults in two cells), accepted
  and refused options; 1771102 states.

Findings.

1. `deduce_clock` asks `find_pin` for a pin with the name of the net on the
CK port of each cell (`src/CircuitBuilder.cc:300`) and only then whether that pin
is a primary input. A net inside the design has no pin of its name, and the
assertion of `find_pin` (`src/CircuitBuilder.cc:100`) stops the program: a
register clocked through a buffer, met before one clocked by a port, ends the
first report. The Python version (`python/timer.py:98`) skips such a cell.
`clock_lookup` shows it.

2. A `when` is written into the leakage power or power arc that the flag
`own_pg_or_when_type` of the builder names (`src/utils/liberty/LibParserRustC.cc:407`).
`visitTiming` (`:987-1008`) neither sets nor resets the flag, and a timing group
has conditions too: such a condition replaces that of the last power group before
it, of the same pin or of another cell. `library_when` shows it; every other attribute
goes home (`AttributesGoHome`, proved for every file). The engine does not read these
conditions; a reader of powers would.

Where comments and code part elsewhere, and no run says so. The answers to questions about sigma
come from the tables of delays and slews (`Lib.cc:484`, `:533`; the eight sigma tables of
`Lib.hh:372` have no place in a model). The count of arc sets of a cell is that of its ports
(`Lib.hh:1072`), so a later cell with more arcs joins the class of one with fewer, though
`LibClassifyCell.cc:4` and `:263` speak of equal arcs. The models follow the code in both
(`gateSigma`, `getCellArcSetCount`), and no property calls the outcome right: of sigma
only that its unit cancels, and `ClassesAreAlike` says what holds of the claim and of the code: equal
cells meet, classes go both ways, and ports and functions agree. Nothing in the repository
asks for either. An `area` in a wire load would go to the cell before it
(`LibParserRustC.cc:269`); Liberty has none there, and `HomesOf` leaves it out.

Bounds. `MaxCalls` bounds the calls counted (updates, single passes, resets);
reports need no bound because the cache answers repeated ones. Two updates are
enough for idempotence: the second starts from the state any later one would
start from, as `UpdateIsIdempotent` itself shows. Circuits have 6 to 13 pins:
every kind of arc, both kinds of start and end point, reconvergence, feedback
through a register and unreached pins occur. What holds of larger circuits is
the business of the proofs.

Fairness. The calls run on the client's own thread without waiting for anything:
`FairSpec` of Timer is weak fairness of `Pass \/ Collect` (a call once made runs
on; the client need not call again), that of TopoSort and of a build weak fairness of a step, for the same reason. In
LibertyLink a task ends by itself (parsing has no wait) and a call goes on when
no future blocks it: weak fairness of `readLib` and of `Call`. The user is never
obliged to call anything.

Two links and three reads are enough for LibertyLink: a third link meets the same
freed trees as the second, two tasks under one call already end in both orders, and each kind
of file meets a good one before and after it (the proofs are for any files and numbers).
Three nets are enough for the build: a net, its driver and a second net it could
be confused with or assigned from. Two cells are enough for the Liberty builder: all
pointers are per cell, so what one cell leaves behind shows in the next (and the
proof is for all files). A table of three breakpoints has a first, a middle and a last
grid cell. `Kilo`, the picoseconds in a nanosecond, is 10 in `library_queries`: only
that it is not 1 matters. `MaxCommands` and `MaxCalls` of a session let every command
come twice, which is what going stale takes: read, link, update, then again.

## 4. Proofs

`TimerProofs` proves for every circuit that satisfies the named assumptions of
`Circuit`, every client, every clock:

* `TypeCorrect`, `Inductive` (the invariant `IInv`), and from it
  `NoStalePredecessor`, `PathsStartAtInputs`, `NoAssertOnArrival`,
  `ReportsAreExact`, `WalksEnd`, `ReportsStay`.

The argument. `ReportedArrivalsExact` is not inductive: it speaks of the moment
when paths are collected. `ReportInProgress` says how far a report has come:
all arcs the loop has passed are relaxed (`VisitedRelaxed`), every arrival time is
exactly its predecessor's plus the arc's delay (`AllTight`) and comes from the
pins up to the present one (`ComesFromFirst`). A step writes only to the to pin
of the present arc, which is later in the order (`ArcsLeadForward`), so relaxed
arcs stay relaxed and tight times stay tight. At the end of the loop that covers
all arcs. A walk follows tight times, hence strictly descends. For single passes
in any order the weaker `ArrivalHasPredecessor` is kept by itself, because
delays, once set, stay set (`DelayStays`). `CacheFillsInOrder` relates the cache
to the group being collected; with it the test of the first entry is as good as
a test of all four.

The order of pins enters as `ToposortAssumption`. `TopoSortProofs` proves it of
the search: `Inductive` (`IInv`: what is visited is on the stack or under way;
records ascend in any numbering of an acyclic graph; a pin is put down after
all it leads to), and `OrderIsTopological`.

`TopoSortProofs` proves besides, for circuits with loops too, `ReachedAreVisitedOnce`
and `LoopsOnlyLeadBack`. Visited pins all come from the inputs (`VisitsReached`), and
at the end no arc leaves the visited set, so it is all the inputs lead to; a pin is
put down after all it leads to but what is below it on the stack (`PutDownAfter`).

`TimerProofs` proves besides, for clients that report only after whole updates (the
shell and pySTA, not the "library" program):

* `UpdatesAreIdempotent`: once the first update is complete, no report and no later
  update changes a capacitance, slew, delay or request arrival time;
* `NothingElseAborts`: the one assertion of the engine that can fail is that of a
  missing constraint table; in particular every pin on a reported path has a slew;
* `ValuesSettle`, the inductive invariant `SettledInv` behind both.

The argument. Each pass of the first update visits its arcs in topological order, so
an arc it has passed has *nothing left to do*: what it would compute from the values
of its two pins does not replace what is there (`SlewPropagated`, `DelayPropagated`,
`ArrivalPropagated`, `Requested`; later visits change neither pin). When the pass
ends that covers all arcs, and a later pass writes nothing. Capacitances are sums
that are built anew in every update: `Loaded` says that a partial-sum sequence along
the fanout ends in the capacitance, `TotalRepeats` that a later update walks along the same
sequence. Arrival times do change, since a report resets them and leaves out start
pins. `StaysWithin` relates them to the arrival times `A` the first update ended
with: later ones are never worse than `A`, and `A` asks for no new request arrival
time, so no later pass does either. A delay is set only where the slews at both ends
are (`DelayNeedsSlews`), so a walk, which follows delays, meets no pin without a slew.

Its hypotheses on the circuit are `WiresAndCells`. That constraints end at cells
(`ConstraintsAtCells`) and that wires have both tables is what CircuitBuilder and Arc
do. That a cell's arc into an input is a constraint (`LoadsHaveSlews`), and that what
leaves an output is a wire (`DriversDriveLoads`), is a condition on the library. The
latter is needed: a cell that times one output from another makes the load of the
first be read before the second has its own, and a second update then differs. The
instances of `register_shell`, `gates_python` and the two latch runs satisfy all three, which TLC evaluates. So is
`Client # "library"`: who calls the passes singly, and out of order, finds values
unsettled. `SettledInv` quantifies over functions and is not evaluated by TLC.

`StaProofs` proves `ShellImplementsSta`, that is `ImplementsSta` for the shell: for every
circuit of wires and cells, every order of its pins and every sequence of updates and
reports, each cached report is the report of the circuit. It needs `Client = "shell"`:
pySTA may report before its first update, and what it finds then is of no circuit.

The argument has three parts.

1. The tables are recursive functions of the circuit, and the provers cannot do induction
over data. But each is the *only* solution of its equation: two solutions agree at the
inputs, and at a pin if they agree before it, so along any topological order they agree
everywhere (`AlongOrder`, from the least number of a set). `SlewsAre` and `ArrivalIs`
say so; `PathsSolvable` builds the set of path delays pin by pin, which shows that the
recursion has a solution. `ArrivalIs` is the heart of it: arrival times that no
arc betters and that each come over some arc *are* the worst of all path delays.
2. Each pass of the first update solves the equations. `SettledInv` says that no
value is bettered over an arc. `ExactInv` adds the other half, that each value there
is comes over some arc from a pin the pass has visited (`SlewsCome`, `DelaysCome`,
`ArrivalsCome`, `RequestsCome`), and that before its pass a table is as the constructors
left it (`TablesWait`). So each pass, when done, leaves the table of `StaTables`
(`SlewsSolve`, `DelaysSolve`, `ArrivalsSolve`, `RequestsSolve`), and `TablesStay` keeps it.
3. A report computes arrivals anew without the pins left out, and `ReportsAreExact` makes
them those of `Arrival` for its start type (`ReportTables`). A walk back adds one hop at
a time over a tight arc (`WalkRight`) until it meets an input it may start from; and of
the end points looked at exactly those to be reported have a path (`PathsRight`). The
end of a group is then a step `FixReport` (`EndGroupFixes`).

`CircuitBuildProofs` proves for every netlist, library and hash order
`TypeCorrect`, `GraphInductive`, `LoadsOnly` (no arc leads into a primary input; a wire
joins the driver of its net to a load) and `DriversKept`. `GraphInv` adds to the
types what the nets hold: primary pins keep primary types, the source of a net is
a pin that drives and its sinks are pins that load, at every moment of the build
and across builds. This is what `Circuit` assumes of its arcs.

It proves besides, with what the loops have passed:

* `CircuitIsNetlist`: a build that succeeds makes the circuit of the netlist, every
  driver, every wire and every arc of a cell as often as the netlist has it;
* `RefusalIsRight`: it succeeds only with a well-formed netlist and stops only
  with an ill-formed one, in whatever order the hash tables are walked;
* `RebuildIsRefused`: a second build passes only if no net has a driver.

The argument. `BuildInv` says of each loop that what it has passed is in the state
(`CellsRight`, `NetsRight`, `PinsRight`, `DriversMet`, `AssignsMet`, `PortsMet`) and that
what is in the state comes from there (`SourcesMet`); every error then names a
violated clause of `WellFormed`. That nothing is there twice cannot be said of sets,
since an instance name used twice makes equal arcs: `CountInv` counts the occurrences of
each sink and arc against the places of the netlist met so far, and each step of a
loop adds one to both sides.

`LibertyLinkProofs` proves for every set of files and every number of tasks
`Inductive`, `NoTaskIsOvertaken`, `FirstFileIsTaken` (a cell is that of the first file
read that has it, whichever task was faster) and `LinkFailsForCause`: linking goes wrong
only over a file, a library or a cell that has the fault the error names, or over readers linked
before, and a link that comes back met no fault in what it built, so a faulty cell that nobody
asks for does no harm.
`TasksHaveEnded` by itself is not inductive:
`TasksHaveFutures` (every running task has a future still in the vector) and
`PassedHaveEnded` (futures the loop has passed belong to ended tasks) make it so.
`LinkInv` relates trees, libraries and results: a tree is missing exactly while its task runs
(`TreesHaveReasons`), libraries follow the order of the readers, also when an exception came
between (`LibsFollowReaders`, `LinksAreCounted`), they hold what the call in progress asks for,
walked without a fault (`BuiltAsNeeded`), and what was needed and is not left to do was looked up in
them and converted (`NeededAreLookedUp`). Nothing is assumed of how tasks end, nor of which
files, groups and cells are faulty.

`LibraryBuildProofs` proves for every Liberty file, of any number of groups and
statements, that the grammar nests as Liberty does (`FileAssumption`):

* `PointersStayHome`: `IInv`, that is: whenever an attribute is visited, the pointers
  of the builder are those of the groups that are open (`PointersAtHome`);
* `NothingIsMisplaced`: each attribute is written to the library or to the object of
  the group it stands in, conditions in timing groups excepted.

The argument. Groups nest by `Level`, which strictly rises along the stack. Entering
a group of a kind sets only the pointers of that kind, which no group around it
uses; that is one lemma for each kind (`Entering...`). Leaving resets pointers so that
no port is current at the library or in a cell outside its pins (`Leaving...`). The
invariant adds `Begun`, once a pointer is set there is a library, and `NoWire`, while a cell is open no
wire load is the object that attributes go to: a capacitance in a pin of no ports meets no pointer. An attribute
follows a pointer that `Nesting` allows where it stands, hence one at home.

`LibraryWalkProofs` proves for every Liberty file `StopsOnlyForCause`: linking stops only
at a fault of the file (a value or a name its handler cannot read, a pin of no ports of whose port
something is said, a range of capacitances in a bus after a pin of it, an
output current before any delay table of its arc or in a check arc, a slew table in a check
arc, a vector of an unknown template, a condition before any group that may own one), and a
file it gets through has none of them but the last. That one reads a flag that was never
set, so either may happen.

The argument. The properties speak of the file, a step of what the builder kept of it.
`WalkOK` relates the two: groups are entered in the order of their numbers (`InOrder`), a
group not entered yet is among the statements left of an open one (`StillLeft`), and simple
statements of a group are taken before its other ones, these in order (`SimpleFirst`). On
that stands what the builder's memory means: the model of the open arc exists once a delay
table of it was met, and is of the kind the arc's type says (`ModelOK`); the bus is the
current port until a pin of it was left (`BusOK`); the library holds the templates met
so far (`TemplatesOK`); the flag is unset only before all groups that own conditions
(`FlagOK`). Each handler that may stop is then shown to stop exactly at a fault, and
`RangesAhead`, `CurrentsAhead` and `TablesAhead` say that a fault not met yet is still ahead:
at the end of the walk nothing is. The type of an arc must not change once a table of it was met,
which `SimpleFirst` gives (`CauseStays`).

`LibraryWalkProofs` also proves for every Liberty file `AttributesAreOwners`
(`AttributesReachOwners`): in a file that was linked each simple attribute is found at the
object of its group, as the last statement that gives it says and in the unit in force
there, and no object has an attribute its group does not give it.

The argument. `Written` says which statements were taken: those of a group entered that are
no more among the statements left. The simple ones are taken in the order of their groups and
of the group (`InTurn`), and while a group of the library is open nothing of the library after it
was taken (`OneBranch`), so the unit statements that count for a group are those taken when its
attributes are read (`UnitOK`, `UnitInForce`). `AllSet` and `AllTold` say that what was taken is set,
and that what is set is what the last statement taken says. A simple statement goes to its
owner, by the pointers of `PointersAtHome` (`SimpleGoesHome`), after all that set the same
(`TakenLast`), so that it stands; whatever else writes (the direction of the pins of a bus, the
ranges of capacitances, ends of arcs, conditions) writes beside these (`Harmless`). At the end
every statement was taken.

`SessionProofs` proves for every set of files, their faults, options and bounds
`UndefinedOnlyForCause`: whatever commands are given in whatever order, behaviour is undefined only
as `UndefinedForCause` says: an update of the shell before any link, a report of the shell without an
update since the last link, a second link of a library, or a fault that the link meets in the walk or
conversion of what it asks for. `UndefinedForCause` speaks of the commands given; the
invariant says what they left: every reader is that of a file that was read, its tree
null only if that file cannot be parsed and freed only if a link came after it
(`ReadersKnown`), a program that has linked has a circuit (`LinkedHasCircuit`), and the Timer of an
update is that of the present circuit unless a link came after it (`TimerHasCircuit`).

Assumptions are those named in the modules: `Circuit` (its shape, and
`ToposortAssumption`), the two `FileAssumption`s, `LibertyAssumption` (what a file may do to a
link), `NoneAssumption`, the shapes of
the designs of a build, and `WiresAndCells` as a hypothesis of four theorems. The
`FileAssumption` of `LibraryBuild` says that a file is a tree of groups numbered in the
order they open (`IsNumbered`), which any tree can be, and which groups and statements the
Rust parser hands over where (`Nesting`, `HomesOf`).

Only model-checked:

* all of `library_queries`: recursive over tables, lists and classes, and a
  theorem about what a recursion computes needs induction over data;
* `PartsReachOwners`: what is held, arcs in sets and tables in their models; it needs an
  invariant for each container, as `TemplatesOK` is for the templates of the library;
* `ResultsShowFiles`: what it says of netlists is about folds over files of statements;
* `CallsReturn`, `Returns`, `CallsEnd`: liveness.

## 5. Not modelled

* The two Rust parsers: grammars; what matters here is the tree they return, and that they
  panic over a file, a value or an expression they refuse, which is modelled. The
  flattening of module hierarchies in `verilog_data.rs` is not called by mySTA.
* The JSON dump of a library (`printLibertyLibraryJson`), `AdjListGraphV`: nothing in
  the repository calls them. Move constructors, iterators and plain getters of the
  object model.
* The shell's `set`, `set_app_var`, `echo` and `help`, and the layout of reports:
  nothing reads what they leave.
* Single precision and rounding: integers in the engine, fractions in the tables.
* Python reference, difference test, visualizer, containers, strings, logging: they
  keep no state of the engine. Comparing the two implementations is planned.
* An arc between two output pins, names with a `/` in them, and stack depth.

## 6. Plan

What is left, in this order.

1. `Reference`: the Python engine with its own passes and guards, and where its
   results part from those of Timer (`ImplementsSta` under its own mapping).
2. `Compare`: the greedy matching of paths in the difference test; where it
   accepts reports that differ or rejects equal ones.
3. The flattening of module hierarchies in `verilog_data.rs`.
4. Proofs: `PartsReachOwners`, on the walk order of `LibraryWalkProofs`.
