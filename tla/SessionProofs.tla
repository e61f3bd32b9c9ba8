----------------------------- MODULE SessionProofs -----------------------------
(***************************************************************************)
(* For every set of files, every netlist and every order of commands: when *)
(* behaviour is undefined.                                                 *)
(***************************************************************************)
EXTENDS SessionProperties, SequenceTheorems, FiniteSetTheorems, TLAPS

\* The command of a program that links its readers.
LinkCommand == IF interface = "pyLibertyParser" THEN "link_lib" ELSE "link_design"

Files == DOMAIN VerilogFiles \cup DOMAIN LibertyFiles \cup {None} \cup SUBSET Modules
Commands ==
  {"read_verilog", "read_liberty", "link_design", "update_timing", "report_timing", "link_lib",
   "select_cell", "exit"}
Entry == [command : Commands, file : Files]
Reader == [file : DOMAIN LibertyFiles, tree : {"null", "parsed", "freed"}]

TypeOK ==
  /\ interface \in Interfaces
  /\ history \in Seq(Entry) /\ readers \in Seq(Reader)
  /\ circuit = Circuit(circuit.link, circuit.netlist) /\ circuit.link \in Nat \cup {None}
  /\ circuit.link = None => circuit = NoCircuit
  /\ DOMAIN timer = DOMAIN NoTimer /\ timer.circuit \in Nat \cup {None}

\* A program is given its own commands only.
OwnCommands ==
  /\ Given("link_design") # {} => interface \in {"shell", "pySTA"}
  /\ Given("link_lib") # {} => interface = "pyLibertyParser"

\* A reader whose tree is freed was linked after it was made.
ReadersKnown ==
  \A k \in 1 .. Len(readers) : \E r \in Given("read_liberty") :
    /\ history[r].file = readers[k].file
    /\ readers[k].tree = "freed" => \E l \in Given(LinkCommand) : r < l

\* What was linked has a circuit; the Timer of the last update has it until
\* the next link.
LinkedHasCircuit ==
  /\ interface = "pySTA" => circuit.link = 0 /\ timer.circuit = 0
  /\ interface = "shell" /\ Given("link_design") # {} => circuit.link # None
TimerHasCircuit ==
  interface = "shell" =>
    \A u \in Given("update_timing") :
      (\A l \in Given("link_design") : l < u) => timer.circuit # None /\ timer.circuit = circuit.link

IInv ==
  /\ TypeOK
  /\ status \notin {"undefined"} => ReadersKnown /\ OwnCommands
  /\ status = "running" => LinkedHasCircuit /\ TimerHasCircuit
  /\ UndefinedForCause

-----------------------------------------------------------------------------
\* What a command adds to the history.
LEMMA Logged ==
  ASSUME history \in Seq(Entry), NEW command \in Commands, NEW f \in Files, Log(command, f)
  PROVE  /\ history' \in Seq(Entry) /\ Now \in Nat /\ Now' = Now + 1
         /\ DOMAIN history = 1 .. Now /\ DOMAIN history' = 1 .. Now + 1
         /\ history'[Now + 1].command = command /\ history'[Now + 1].file = f
         /\ \A k \in 1 .. Now : history'[k] = history[k]
         /\ \A c : Given(c) \subseteq 1 .. Now
         /\ \A c : Given(c)' = Given(c) \cup (IF c = command THEN {Now + 1} ELSE {})
         /\ \A c : Earlier(c)' = Given(c)
<1> DEFINE e == [command |-> command, file |-> f]
<1>1. e \in Entry /\ history' = Append(history, e)
  BY DEF Entry, Log
<1>2. e.command = command /\ e.file = f
  OBVIOUS
<1> HIDE DEF e
<1>3. /\ history' \in Seq(Entry) /\ Now \in Nat /\ Now' = Now + 1
      /\ DOMAIN history = 1 .. Now /\ DOMAIN history' = 1 .. Now + 1
      /\ history'[Now + 1] = e
      /\ \A k \in 1 .. Now : history'[k] = history[k]
  BY <1>1, AppendProperties, LenProperties DEF Now
<1>4. \A c : Given(c) \subseteq 1 .. Now
  BY <1>3 DEF Given
<1>5. ASSUME NEW c PROVE Given(c)' = Given(c) \cup (IF c = command THEN {Now + 1} ELSE {})
  <2>1. Given(c)' = {k \in 1 .. Now + 1 : history'[k].command = c}
    BY <1>3 DEF Given
  <2>2. Given(c) = {k \in 1 .. Now : history[k].command = c}
    BY <1>3 DEF Given
  <2> QED BY <1>2, <1>3, <2>1, <2>2
<1>6. ASSUME NEW c PROVE Earlier(c)' = Given(c)
  <2>1. Earlier(c)' = Given(c)' \ {Now + 1}
    BY <1>3 DEF Earlier
  <2>2. Now + 1 \notin 1 .. Now
    BY <1>3
  <2> QED BY <1>4, <1>5, <2>1, <2>2
<1> QED BY <1>2, <1>3, <1>4, <1>5, <1>6

LEMMA SessionInit == Init => IInv
<1> SUFFICES ASSUME Init PROVE IInv
  OBVIOUS
<1>1. history = << >> /\ readers = << >> /\ interface \in Interfaces /\ status = "running"
  BY DEF Init
<1>2. history \in Seq(Entry) /\ readers \in Seq(Reader) /\ DOMAIN history = {} /\ Len(readers) = 0
  BY <1>1, EmptySeq
<1>3. \A c : Given(c) = {}
  BY <1>2 DEF Given
<1>4. /\ circuit = Circuit(circuit.link, circuit.netlist) /\ circuit.link \in Nat \cup {None}
      /\ interface = "pySTA" => circuit.link = 0
      /\ circuit.link = None => circuit = NoCircuit
  BY NoneAssumption DEF Init, Circuit, NoCircuit
<1>5. /\ DOMAIN timer = DOMAIN NoTimer /\ timer.circuit \in Nat \cup {None}
      /\ interface = "pySTA" => timer.circuit = 0
  BY DEF Init, Timer, NoTimer
<1>6. UndefinedForCause
  BY <1>1 DEF UndefinedForCause
<1> QED BY <1>1, <1>2, <1>3, <1>4, <1>5, <1>6
       DEF IInv, TypeOK, OwnCommands, ReadersKnown, LinkedHasCircuit, TimerHasCircuit

\* Commands that are given to a program that has them.
LEMMA StillOwn ==
  ASSUME TypeOK, OwnCommands, UNCHANGED interface, NEW command \in Commands, NEW f \in Files,
         Log(command, f),
         command = "link_design" => interface \in {"shell", "pySTA"},
         command = "link_lib" => interface = "pyLibertyParser"
  PROVE  OwnCommands'
<1>1. \A c : Given(c)' = Given(c) \cup (IF c = command THEN {Now + 1} ELSE {})
  BY Logged DEF TypeOK
<1>2. /\ command # "link_design" => Given("link_design")' = Given("link_design")
      /\ command # "link_lib" => Given("link_lib")' = Given("link_lib")
  BY <1>1
<1> QED BY <1>2 DEF OwnCommands

\* Readers stay known while commands are added.
LEMMA StillKnown ==
  ASSUME TypeOK, ReadersKnown, UNCHANGED <<interface, readers>>, NEW command \in Commands,
         NEW f \in Files, Log(command, f)
  PROVE  ReadersKnown'
<1>1. /\ \A c : Given(c) \subseteq 1 .. Now /\ Given(c) \subseteq Given(c)'
      /\ \A k \in 1 .. Now : history'[k] = history[k]
  BY Logged DEF TypeOK
<1>2. LinkCommand' = LinkCommand
  BY DEF LinkCommand
<1> SUFFICES ASSUME NEW k \in 1 .. Len(readers)
             PROVE  \E r \in Given("read_liberty")' :
                      /\ history'[r].file = readers[k].file
                      /\ readers[k].tree = "freed" => \E l \in Given(LinkCommand)' : r < l
  BY <1>2 DEF ReadersKnown
<1>3. PICK r \in Given("read_liberty") :
        /\ history[r].file = readers[k].file
        /\ readers[k].tree = "freed" => \E l \in Given(LinkCommand) : r < l
  BY DEF ReadersKnown
<1>4. r \in Given("read_liberty")' /\ history'[r] = history[r]
  BY <1>1
<1>5. \A l \in Given(LinkCommand) : l \in Given(LinkCommand)'
  <2>1. PICK c : c = LinkCommand
    OBVIOUS
  <2>2. Given(c) \subseteq Given(c)' /\ c = LinkCommand'
    BY <1>1, <1>2, <2>1
  <2> QED BY <2>1, <2>2
<1> QED BY <1>3, <1>4, <1>5

\* The circuit and the Timer stay as they should be.
LEMMA StillLinked ==
  ASSUME TypeOK, LinkedHasCircuit, TimerHasCircuit, UNCHANGED <<interface, circuit>>,
         timer'.circuit = timer.circuit,
         NEW command \in Commands \ {"link_design", "update_timing"}, NEW f \in Files, Log(command, f)
  PROVE  LinkedHasCircuit' /\ TimerHasCircuit'
<1>1. \A c : Given(c)' = Given(c) \cup (IF c = command THEN {Now + 1} ELSE {})
  BY Logged DEF TypeOK
<1>2. Given("link_design")' = Given("link_design") /\ Given("update_timing")' = Given("update_timing")
  BY <1>1
<1> QED BY <1>2 DEF LinkedHasCircuit, TimerHasCircuit

LEMMA NothingMissing ==
  ASSUME TypeOK
  PROVE  /\ circuit = NoCircuit => circuit.link = None
         /\ timer = NoTimer => timer.circuit = None
  BY DEF NoCircuit, NoTimer, Circuit, Timer

\* A program that ends while its behaviour is defined.
LEMMA Ending ==
  ASSUME IInv, status = "running", NEW how \in {"exited", "stopped", "running"}, End(how),
         NEW command \in Commands, NEW f \in Files, Log(command, f),
         command = "link_design" => interface \in {"shell", "pySTA"} /\ (how = "running" => interface = "pySTA"),
         command = "link_lib" => interface = "pyLibertyParser",
         command = "update_timing" => how # "running"
  PROVE  IInv'
<1>1. /\ UNCHANGED <<interface, verilog_parser, readers, libs, cells, circuit, timer>>
      /\ status' = how
  BY DEF End, inputs_read
<1>2. TypeOK'
  BY <1>1, Logged DEF IInv, TypeOK
<1>3. ReadersKnown' /\ OwnCommands'
  BY <1>1, StillKnown, StillOwn DEF IInv
<1>4. how = "running" => LinkedHasCircuit' /\ TimerHasCircuit'
  <2>1. CASE command \notin {"link_design", "update_timing"}
    BY <1>1, <2>1, StillLinked DEF IInv
  <2>2. CASE command = "link_design" /\ interface = "pySTA"
    BY <1>1, <2>2 DEF IInv, LinkedHasCircuit, TimerHasCircuit
  <2> QED BY <2>1, <2>2
<1>5. UndefinedForCause'
  BY <1>1 DEF UndefinedForCause
<1> QED BY <1>1, <1>2, <1>3, <1>4, <1>5 DEF IInv

-----------------------------------------------------------------------------
\* One command after the other.

LEMMA ReadingVerilog ==
  ASSUME IInv, cmd_read_verilog PROVE IInv'
<1>1. PICK f \in DOMAIN VerilogFiles :
        /\ Log("read_verilog", f)
        /\ \/ End("stopped")
           \/ UNCHANGED <<interface, readers, libs, cells, circuit, timer, status>>
  BY DEF cmd_read_verilog
<1>2. f \in Files /\ "read_verilog" \in Commands \ {"link_design", "update_timing"}
      /\ status = "running"
  BY DEF Files, Commands, cmd_read_verilog, Run
<1>3. CASE End("stopped")
  BY <1>1, <1>2, <1>3, Ending
<1>4. CASE UNCHANGED <<interface, readers, libs, cells, circuit, timer, status>>
  <2>1. TypeOK'
    BY <1>1, <1>2, <1>4, Logged DEF IInv, TypeOK
  <2>2. ReadersKnown' /\ OwnCommands' /\ LinkedHasCircuit' /\ TimerHasCircuit'
    BY <1>1, <1>2, <1>4, StillKnown, StillOwn, StillLinked DEF IInv
  <2> QED BY <1>2, <1>4, <2>1, <2>2 DEF IInv, UndefinedForCause
<1> QED BY <1>1, <1>3, <1>4

LEMMA ReadingLiberty ==
  ASSUME IInv, cmd_read_liberty PROVE IInv'
<1>1. PICK f \in DOMAIN LibertyFiles :
        /\ Log("read_liberty", f)
        /\ readers' = Append(readers, [file |-> f, tree |-> IF LibertyFiles[f] = None THEN "null" ELSE "parsed"])
  BY DEF cmd_read_liberty
<1>2. /\ f \in Files /\ "read_liberty" \in Commands \ {"link_design", "update_timing"}
      /\ status = "running" /\ UNCHANGED <<interface, libs, cells, circuit, timer, status>>
  BY DEF Files, Commands, cmd_read_liberty, Run
<1> DEFINE reader == [file |-> f, tree |-> IF LibertyFiles[f] = None THEN "null" ELSE "parsed"]
<1>3. reader \in Reader /\ reader.file = f /\ reader.tree # "freed"
  BY DEF Reader
<1>4. readers' = Append(readers, reader)
  BY <1>1
<1> HIDE DEF reader
<1>5. /\ readers' \in Seq(Reader) /\ Len(readers) \in Nat /\ Len(readers') = Len(readers) + 1
      /\ readers'[Len(readers) + 1] = reader
      /\ \A k \in 1 .. Len(readers) : readers'[k] = readers[k]
  BY <1>3, <1>4, AppendProperties, LenProperties DEF IInv, TypeOK
<1>6. TypeOK'
  BY <1>1, <1>2, <1>5, Logged DEF IInv, TypeOK
<1>7. OwnCommands' /\ LinkedHasCircuit' /\ TimerHasCircuit'
  BY <1>1, <1>2, StillOwn, StillLinked DEF IInv
<1>8. ReadersKnown'
  <2>1. /\ \A k \in 1 .. Now : history'[k] = history[k]
        /\ history'[Now + 1].file = f
        /\ \A c : Given(c) \subseteq 1 .. Now
        /\ \A c : Given(c)' = Given(c) \cup (IF c = "read_liberty" THEN {Now + 1} ELSE {})
    BY <1>1, <1>2, Logged DEF IInv, TypeOK
  <2>2. LinkCommand' = LinkCommand /\ LinkCommand # "read_liberty"
    BY <1>2 DEF LinkCommand
  <2>3. PICK c : c = LinkCommand
    OBVIOUS
  <2>4. Given(c)' = Given(c) /\ c = LinkCommand'
    BY <2>1, <2>2, <2>3
  <2> SUFFICES ASSUME NEW k \in 1 .. Len(readers')
               PROVE  \E r \in Given("read_liberty")' :
                        /\ history'[r].file = readers'[k].file
                        /\ readers'[k].tree = "freed" => \E l \in Given(c)' : r < l
    BY <2>4 DEF ReadersKnown
  <2>5. CASE k = Len(readers) + 1
    <3>1. Now + 1 \in Given("read_liberty")'
      BY <2>1
    <3> QED BY <1>3, <1>5, <2>1, <2>5, <3>1
  <2>6. CASE k # Len(readers) + 1
    <3>1. k \in 1 .. Len(readers) /\ readers'[k] = readers[k]
      BY <1>5, <2>6
    <3>2. PICK r \in Given("read_liberty") :
            /\ history[r].file = readers[k].file
            /\ readers[k].tree = "freed" => \E l \in Given(c) : r < l
      BY <1>2, <2>3, <3>1 DEF IInv, ReadersKnown
    <3>3. r \in Given("read_liberty")' /\ history'[r] = history[r]
      BY <2>1
    <3> QED BY <2>4, <3>1, <3>2, <3>3
  <2> QED BY <2>5, <2>6
<1> QED BY <1>2, <1>6, <1>7, <1>8 DEF IInv, UndefinedForCause

\* What linking frees is known to be linked.
LEMMA Freeing ==
  ASSUME TypeOK, ReadersKnown, UNCHANGED interface, NEW f \in Files, Log(LinkCommand, f),
         NEW n, NEW needed, Linked(n, needed)
  PROVE  readers' \in Seq(Reader) /\ ReadersKnown'
<1>1. PICK c : c = LinkCommand
  OBVIOUS
<1>2. c \in Commands /\ Log(c, f) /\ c = LinkCommand'
  BY <1>1 DEF LinkCommand, Commands
<1>3. /\ \A k \in 1 .. Now : history'[k] = history[k]
      /\ \A x : Given(x) \subseteq 1 .. Now /\ Given(x) \subseteq Given(x)'
      /\ Now + 1 \in Given(c)' /\ Now \in Nat
  BY <1>2, Logged DEF TypeOK
<1> DEFINE Left(k) == [readers[k] EXCEPT !.tree = IF k <= n THEN "freed" ELSE readers[k].tree]
<1>4. readers' = [k \in 1 .. Len(readers) |-> Left(k)]
  BY LenProperties DEF TypeOK, Linked
<1>5. \A k \in 1 .. Len(readers) : readers[k] \in Reader
  BY ElementOfSeq DEF TypeOK
<1>6. \A k \in 1 .. Len(readers) : Left(k) \in Reader /\ Left(k).file = readers[k].file
  BY <1>5 DEF Reader
<1> HIDE DEF Left
<1>7. Len(readers) \in Nat
  BY LenProperties DEF TypeOK
<1>8. /\ readers' \in Seq(Reader) /\ Len(readers') = Len(readers)
      /\ \A k \in 1 .. Len(readers) : readers'[k].file = readers[k].file
  <2>1. PICK m \in Nat : m = Len(readers)
    BY <1>7
  <2>2. readers' \in [1 .. m -> Reader] /\ \A k \in 1 .. m : readers'[k].file = readers[k].file
    BY <1>4, <1>6, <2>1
  <2>3. readers' \in Seq(Reader)
    BY <2>1, <2>2, SeqDef
  <2>4. DOMAIN readers' = 1 .. m
    BY <2>2
  <2>5. Len(readers') = m
    BY <2>1, <2>3, <2>4, LenProperties
  <2> QED BY <2>1, <2>2, <2>3, <2>5
<1> SUFFICES ASSUME NEW k \in 1 .. Len(readers)
             PROVE  \E r \in Given("read_liberty")' :
                      /\ history'[r].file = readers'[k].file
                      /\ readers'[k].tree = "freed" => \E l \in Given(c)' : r < l
  BY <1>2, <1>8 DEF ReadersKnown
<1>9. PICK r \in Given("read_liberty") : history[r].file = readers[k].file
  BY DEF ReadersKnown
<1>10. r \in 1 .. Now /\ r \in Given("read_liberty")' /\ history'[r] = history[r] /\ r < Now + 1
  BY <1>3
<1> QED BY <1>3, <1>8, <1>9, <1>10

\* Linking undefined: a reader for the second time, or one with a fault in what is asked for.
LEMMA LinkUndefined ==
  ASSUME IInv, status = "running", NEW f \in Files, NEW needed,
         Log(LinkCommand, f), End("undefined"),
         IF interface = "pyLibertyParser" THEN needed = f ELSE needed = get_all_cell_name(verilog_parser),
         NEW k \in 1 .. Len(readers),
         \/ readers[k].tree = "freed"
         \/ "undefined" \in WalkFaults(readers[k].file, needed)
         \/ "undefined" \in ConvertFaults(readers[k].file, needed)
  PROVE  IInv'
<1>1. /\ UNCHANGED <<interface, verilog_parser, readers, circuit, timer>> /\ status' = "undefined"
  BY DEF End, inputs_read
<1>2. PICK c : c = LinkCommand
  OBVIOUS
<1>3. c \in {"link_design", "link_lib"} /\ c \in Commands /\ Log(c, f)
  BY <1>2 DEF LinkCommand, Commands
<1>4. TypeOK'
  BY <1>1, <1>3, Logged DEF IInv, TypeOK
<1>5. /\ \A x \in 1 .. Now : history'[x] = history[x]
      /\ history'[Now + 1].command = c /\ history'[Now + 1].file = f /\ Now' = Now + 1
      /\ \A x : Given(x) \subseteq 1 .. Now /\ Given(x) \subseteq Given(x)' /\ Earlier(x)' = Given(x)
  BY <1>3, Logged DEF IInv, TypeOK
<1>6. Asked' = needed
  BY <1>1, <1>5 DEF Asked
<1>7. PICK r \in Given("read_liberty") :
        /\ history[r].file = readers[k].file
        /\ readers[k].tree = "freed" => \E l \in Given(c) : r < l
  BY <1>2 DEF IInv, ReadersKnown
<1>8. r \in Given("read_liberty")' /\ history'[r] = history[r]
  BY <1>5
<1>9. \/ \E l \in Earlier(c)' : r < l
      \/ "undefined" \in WalkFaults(history'[r].file, Asked')
      \/ "undefined" \in ConvertFaults(history'[r].file, Asked')
  BY <1>5, <1>6, <1>7, <1>8
<1>10. history'[Now'].command = c
  BY <1>5
<1>11. UndefinedForCause'
  BY <1>3, <1>8, <1>9, <1>10 DEF UndefinedForCause
<1> QED BY <1>1, <1>4, <1>11 DEF IInv

\* A link that does not come back as it should.
LEMMA LinkFailing ==
  ASSUME IInv, status = "running", NEW f \in Files, NEW needed,
         Log(LinkCommand, f), link_lib_fails(needed),
         LinkCommand = "link_design" => interface \in {"shell", "pySTA"},
         IF interface = "pyLibertyParser" THEN needed = f ELSE needed = get_all_cell_name(verilog_parser)
  PROVE  IInv'
<1>1. DOMAIN readers = 1 .. Len(readers)
  BY LenProperties DEF IInv, TypeOK
<1>2. /\ LinkCommand \in Commands
      /\ LinkCommand = "link_lib" => interface = "pyLibertyParser"
      /\ LinkCommand # "update_timing"
  BY DEF LinkCommand, Commands
<1>3. CASE End("stopped")
  <2>1. PICK c : c = LinkCommand
    OBVIOUS
  <2> QED BY <1>2, <1>3, <2>1, Ending
<1>4. ASSUME NEW k \in DOMAIN readers, End("undefined"),
             \/ readers[k].tree = "freed"
             \/ "undefined" \in WalkFaults(readers[k].file, needed)
             \/ "undefined" \in ConvertFaults(readers[k].file, needed)
      PROVE  IInv'
  BY <1>1, <1>4, LinkUndefined
<1>5. ASSUME NEW k \in DOMAIN readers, Linked(k - 1, needed),
             status' = (IF interface = "shell" THEN "stopped" ELSE "running"),
             UNCHANGED <<interface, verilog_parser, circuit, timer>>
      PROVE  IInv'
  <2>1. readers' \in Seq(Reader) /\ ReadersKnown'
    BY <1>5, Freeing DEF IInv
  <2>2. PICK c \in Commands : c = LinkCommand
    BY <1>2
  <2>3. TypeOK'
    BY <1>5, <2>1, <2>2, Logged DEF IInv, TypeOK
  <2>4. OwnCommands'
    BY <1>2, <1>5, <2>2, StillOwn DEF IInv
  <2>5. interface # "shell" => LinkedHasCircuit' /\ TimerHasCircuit'
    BY <1>5 DEF IInv, LinkedHasCircuit, TimerHasCircuit
  <2> QED BY <1>5, <2>1, <2>3, <2>4, <2>5 DEF IInv, UndefinedForCause
<1>6. ASSUME NEW how \in Faults, how \in CellFaults(needed), End(how) PROVE IInv'
  <2>1. PICK k \in DOMAIN readers : how \in ConvertFaults(readers[k].file, {c \in needed : IsFirst(k, c)})
    BY <1>6 DEF CellFaults
  <2>2. how \in ConvertFaults(readers[k].file, needed)
    BY <2>1 DEF ConvertFaults
  <2> QED BY <1>3, <1>4, <1>6, <2>2 DEF Faults
<1>7. ASSUME NEW k \in DOMAIN readers, Stumbles(k, needed) PROVE IInv'
  <2>1. ASSUME NEW how \in Faults, how \in WalkFaults(readers[k].file, needed), End(how) PROVE IInv'
    BY <1>3, <1>4, <2>1 DEF Faults
  <2> QED BY <1>4, <1>5, <1>7, <2>1 DEF Stumbles
<1> QED BY <1>3, <1>6, <1>7 DEF link_lib_fails

LEMMA LinkingDesign ==
  ASSUME IInv, cmd_link_design PROVE IInv'
<1>1. /\ status = "running" /\ interface \in {"shell", "pySTA"} /\ Log("link_design", None)
      /\ None \in Files /\ "link_design" \in Commands
  BY DEF cmd_link_design, Run, Files, Commands
<1>2. LinkCommand = "link_design" /\ Log(LinkCommand, None)
  BY <1>1 DEF LinkCommand
<1>3. CASE Throw
  BY <1>1, <1>3, Ending DEF Throw
<1>4. CASE link_lib_fails(get_all_cell_name(verilog_parser))
  BY <1>1, <1>2, <1>4, LinkFailing
<1>5. ASSUME link_lib(get_all_cell_name(verilog_parser)), NEW netlist, build_circuit(netlist),
             UNCHANGED <<interface, verilog_parser, timer>>
      PROVE  IInv'
  <2>1. readers' \in Seq(Reader) /\ ReadersKnown'
    BY <1>1, <1>2, <1>5, Freeing DEF IInv, link_lib
  <2>2. \/ /\ circuit' = Circuit(IF interface = "shell" THEN Calls("link_design") + 1 ELSE 0, netlist)
           /\ status' = status
        \/ status' = "stopped" /\ circuit' = circuit
    BY <1>5 DEF build_circuit
  <2>3. Calls("link_design") \in Nat
    <3> DEFINE given == {k \in DOMAIN history : history[k].command = "link_design"}
    <3>1. given \subseteq 1 .. Len(history) /\ Len(history) \in Nat
      BY LenProperties DEF IInv, TypeOK
    <3> HIDE DEF given
    <3>2. IsFiniteSet(1 .. Len(history))
      BY <3>1, FS_Interval
    <3>3. IsFiniteSet(given)
      BY <3>1, <3>2, FS_Subset
    <3>4. Cardinality(given) \in Nat
      BY <3>3, FS_CardinalityType
    <3> QED BY <3>4 DEF Calls, given
  <2>4. \A link : /\ Circuit(link, netlist).link = link
                  /\ Circuit(link, netlist) = Circuit(link, Circuit(link, netlist).netlist)
    BY DEF Circuit
  <2>5. /\ circuit' = Circuit(circuit'.link, circuit'.netlist) /\ circuit'.link \in Nat \cup {None}
        /\ circuit'.link = None => circuit' = NoCircuit
    BY <2>2, <2>3, <2>4, NoneAssumption DEF IInv, TypeOK
  <2>6. TypeOK'
    BY <1>1, <1>5, <2>1, <2>5, Logged DEF IInv, TypeOK
  <2>7. OwnCommands'
    BY <1>1, <1>5, StillOwn DEF IInv
  <2>8. status' = "running" => circuit'.link \in Nat /\ (interface = "pySTA" => circuit'.link = 0)
    BY <1>1, <2>2, <2>3, <2>4
  <2>9. ASSUME status' = "running" PROVE LinkedHasCircuit'
    BY <1>1, <1>5, <2>8, <2>9, NoneAssumption DEF IInv, LinkedHasCircuit
  <2>10. TimerHasCircuit'
    <3>1. /\ Given("update_timing")' = Given("update_timing") /\ Now + 1 \in Given("link_design")'
          /\ Given("update_timing") \subseteq 1 .. Now /\ Now \in Nat
      <4>1. /\ \A c : Given(c)' = Given(c) \cup (IF c = "link_design" THEN {Now + 1} ELSE {})
            /\ \A c : Given(c) \subseteq 1 .. Now
            /\ Now \in Nat
        BY <1>1, Logged DEF IInv, TypeOK
      <4> QED BY <4>1
    <3>2. \A u \in Given("update_timing")' : ~ (Now + 1 < u)
      BY <3>1
    <3>3. \A u \in Given("update_timing")' : \E l \in Given("link_design")' : ~ (l < u)
      BY <3>1, <3>2
    <3> QED BY <3>3 DEF TimerHasCircuit
  <2>11. UndefinedForCause'
    BY <1>1, <2>2 DEF UndefinedForCause
  <2> QED BY <2>1, <2>6, <2>7, <2>9, <2>10, <2>11 DEF IInv
<1> QED BY <1>3, <1>4, <1>5 DEF cmd_link_design

LEMMA LinkingLibrary ==
  ASSUME IInv, py_link_lib PROVE IInv'
<1>1. /\ status = "running" /\ interface = "pyLibertyParser" /\ "link_lib" \in Commands
      /\ LinkCommand = "link_lib"
  BY DEF py_link_lib, Run, Commands, LinkCommand
<1>2. PICK needed \in SUBSET Modules :
        /\ Log("link_lib", needed)
        /\ \/ link_lib_fails(needed)
           \/ link_lib(needed) /\ UNCHANGED <<interface, verilog_parser, circuit, timer, status>>
  BY DEF py_link_lib
<1>3. needed \in Files
  BY DEF Files
<1>4. CASE link_lib_fails(needed)
  BY <1>1, <1>2, <1>3, <1>4, LinkFailing
<1>5. CASE link_lib(needed) /\ UNCHANGED <<interface, verilog_parser, circuit, timer, status>>
  <2>1. readers' \in Seq(Reader) /\ ReadersKnown'
    BY <1>1, <1>2, <1>3, <1>5, Freeing DEF IInv, link_lib
  <2>2. TypeOK'
    BY <1>1, <1>2, <1>3, <1>5, <2>1, Logged DEF IInv, TypeOK
  <2>3. OwnCommands' /\ LinkedHasCircuit' /\ TimerHasCircuit'
    BY <1>1, <1>2, <1>3, <1>5, StillOwn, StillLinked DEF IInv
  <2> QED BY <1>1, <1>5, <2>1, <2>2, <2>3 DEF IInv, UndefinedForCause
<1> QED BY <1>2, <1>4, <1>5

LEMMA Updating ==
  ASSUME IInv, cmd_update_timing PROVE IInv'
<1>1. /\ status = "running" /\ interface \in {"shell", "pySTA"} /\ Log("update_timing", None)
      /\ None \in Files /\ "update_timing" \in Commands
  BY DEF cmd_update_timing, Run, Files, Commands
<1>2. /\ \A k \in 1 .. Now : history'[k] = history[k]
      /\ Now \in Nat /\ Now' = Now + 1 /\ history'[Now + 1].command = "update_timing"
      /\ \A c : Given(c) \subseteq 1 .. Now /\ Earlier(c)' = Given(c)
      /\ \A c : Given(c)' = Given(c) \cup (IF c = "update_timing" THEN {Now + 1} ELSE {})
  BY <1>1, Logged DEF IInv, TypeOK
<1>3. CASE circuit = NoCircuit /\ End("undefined")
  <2>1. UNCHANGED <<interface, readers, circuit, timer>> /\ status' = "undefined"
    BY <1>3 DEF End, inputs_read
  <2>2. TypeOK'
    BY <1>1, <2>1, Logged DEF IInv, TypeOK
  <2>3. circuit.link = None
    BY <1>3, NothingMissing DEF IInv
  <2>4. interface = "shell" /\ Given("link_design") = {}
    BY <1>1, <2>3, NoneAssumption DEF IInv, LinkedHasCircuit
  <2>5. history'[Now'].command = "update_timing" /\ interface' = "shell" /\ Earlier("link_design")' = {}
    BY <1>2, <2>1, <2>4
  <2>6. UndefinedForCause'
    BY <2>5 DEF UndefinedForCause
  <2> QED BY <2>1, <2>2, <2>6 DEF IInv
<1>4. CASE /\ circuit # NoCircuit
           /\ timer' = [(IF interface = "shell" THEN Timer(circuit.link) ELSE timer) EXCEPT !.sees = Analysed]
           /\ UNCHANGED <<interface, inputs_read, libs, cells, circuit, status>>
  <2>1. UNCHANGED <<interface, readers, circuit, status>>
    BY <1>4 DEF inputs_read
  <2>2. /\ DOMAIN timer' = DOMAIN NoTimer
        /\ timer'.circuit = IF interface = "shell" THEN circuit.link ELSE timer.circuit
    <3>1. DOMAIN NoTimer = {"circuit", "sees", "clock", "cache"}
      BY DEF NoTimer, Timer
    <3>2. DOMAIN timer = {"circuit", "sees", "clock", "cache"}
      BY <3>1 DEF IInv, TypeOK
    <3>3. CASE interface = "shell"
      BY <1>4, <3>1, <3>3 DEF Timer
    <3>4. CASE interface # "shell"
      BY <1>4, <3>1, <3>2, <3>4
    <3> QED BY <3>3, <3>4
  <2>3. TypeOK'
    BY <1>1, <2>1, <2>2, Logged DEF IInv, TypeOK
  <2>4. ReadersKnown' /\ OwnCommands'
    BY <1>1, <2>1, StillKnown, StillOwn DEF IInv
  <2>5. Given("link_design")' = Given("link_design")
    BY <1>2
  <2>6. LinkedHasCircuit'
    BY <1>1, <2>1, <2>2, <2>5 DEF IInv, LinkedHasCircuit
  <2>7. circuit.link # None
    BY <1>4 DEF IInv, TypeOK
  <2>8. TimerHasCircuit'
    BY <2>1, <2>2, <2>7 DEF TimerHasCircuit
  <2> QED BY <1>1, <2>1, <2>3, <2>4, <2>6, <2>8 DEF IInv, UndefinedForCause
<1> QED BY <1>3, <1>4 DEF cmd_update_timing

\* What either report does, but for ending: only its Timer learns.
LEMMA Reporting ==
  ASSUME IInv, status = "running", interface \in {"shell", "pySTA"}, NEW o, NEW print,
         report(o, print), Log("report_timing", None),
         interface = "shell" => timer # NoTimer
  PROVE  IInv'
<1>1. "report_timing" \in Commands \ {"link_design", "update_timing"} /\ None \in Files
  BY DEF Commands, Files
<1>2. /\ \A k \in 1 .. Now : history'[k] = history[k]
      /\ history'[Now'].command = "report_timing"
      /\ Given("update_timing")' = Given("update_timing")
      /\ Given("link_design")' = Given("link_design")
      /\ Given("update_timing") \subseteq 1 .. Now /\ Given("link_design") \subseteq 1 .. Now
      /\ Now \in Nat
  <2>1. /\ \A k \in 1 .. Now : history'[k] = history[k]
        /\ Now' = Now + 1 /\ history'[Now + 1].command = "report_timing" /\ Now \in Nat
        /\ \A c : Given(c) \subseteq 1 .. Now
        /\ \A c : Given(c)' = Given(c) \cup (IF c = "report_timing" THEN {Now + 1} ELSE {})
    BY <1>1, Logged DEF IInv, TypeOK
  <2> QED BY <2>1
<1>3. CASE timer.circuit # circuit.link /\ End("undefined")
  <2>1. UNCHANGED <<interface, readers, circuit, timer>> /\ status' = "undefined"
    BY <1>3 DEF End, inputs_read
  <2>2. TypeOK'
    BY <1>1, <2>1, Logged DEF IInv, TypeOK
  <2>3. interface = "shell"
    BY <1>3 DEF IInv, LinkedHasCircuit
  <2>4. \A u \in Given("update_timing") : \E l \in Given("link_design") : ~ (l < u)
    BY <1>3, <2>3 DEF IInv, TimerHasCircuit
  <2>5. \A u \in Given("update_timing") : \E l \in Given("link_design") : u < l
    <3> SUFFICES ASSUME NEW u \in Given("update_timing")
                 PROVE  \E l \in Given("link_design") : u < l
      OBVIOUS
    <3>1. PICK l \in Given("link_design") : ~ (l < u)
      BY <2>4
    <3>2. l \in 1 .. Now /\ u \in 1 .. Now
      BY <1>2
    <3>3. history[l].command = "link_design" /\ history[u].command = "update_timing"
      BY DEF Given
    <3>4. l # u
      BY <3>3
    <3> QED BY <1>2, <3>1, <3>2, <3>4
  <2>6. UndefinedForCause'
    BY <1>2, <2>1, <2>3, <2>5 DEF UndefinedForCause
  <2> QED BY <2>1, <2>2, <2>6 DEF IInv
<1>4. CASE End("stopped")
  BY <1>1, <1>4, Ending
<1>5. CASE /\ timer' = IF UsesCircuit(o.start) THEN TimerOf(o.start) ELSE timer
           /\ UNCHANGED <<interface, inputs_read, libs, cells, circuit, status>>
  <2>1. UNCHANGED <<interface, readers, circuit, status>>
    BY <1>5 DEF inputs_read
  <2>2. DOMAIN timer' = DOMAIN NoTimer /\ timer'.circuit = timer.circuit
    <3>1. DOMAIN timer = {"circuit", "sees", "clock", "cache"}
      BY DEF IInv, TypeOK, NoTimer, Timer
    <3>2. DOMAIN TimerOf(o.start) = DOMAIN timer /\ TimerOf(o.start).circuit = timer.circuit
      BY <3>1 DEF TimerOf
    <3> QED BY <1>5, <3>2 DEF IInv, TypeOK
  <2>3. TypeOK'
    BY <1>1, <2>1, <2>2, Logged DEF IInv, TypeOK
  <2>4. ReadersKnown' /\ OwnCommands' /\ LinkedHasCircuit' /\ TimerHasCircuit'
    BY <1>1, <2>1, <2>2, StillKnown, StillOwn, StillLinked DEF IInv
  <2> QED BY <2>1, <2>3, <2>4 DEF IInv, UndefinedForCause
<1> QED BY <1>3, <1>4, <1>5 DEF report

LEMMA ShellReporting ==
  ASSUME IInv, cmd_report_timing PROVE IInv'
<1>1. /\ status = "running" /\ interface = "shell" /\ Log("report_timing", None)
      /\ "report_timing" \in Commands /\ None \in Files
  BY DEF cmd_report_timing, Run, Commands, Files
<1>2. CASE timer = NoTimer /\ End("undefined")
  <2>1. UNCHANGED <<interface, readers, circuit, timer>> /\ status' = "undefined"
    BY <1>2 DEF End, inputs_read
  <2>2. TypeOK'
    BY <1>1, <2>1, Logged DEF IInv, TypeOK
  <2>3. timer.circuit = None
    BY <1>2, NothingMissing DEF IInv
  <2>4. /\ Given("update_timing")' = Given("update_timing")
        /\ Given("link_design")' = Given("link_design")
        /\ Given("update_timing") \subseteq 1 .. Now /\ Given("link_design") \subseteq 1 .. Now
        /\ history'[Now'].command = "report_timing" /\ Now \in Nat
    <3>1. /\ \A c : Given(c) \subseteq 1 .. Now
          /\ \A c : Given(c)' = Given(c) \cup (IF c = "report_timing" THEN {Now + 1} ELSE {})
          /\ Now' = Now + 1 /\ history'[Now + 1].command = "report_timing" /\ Now \in Nat
      BY <1>1, Logged DEF IInv, TypeOK
    <3> QED BY <3>1
  <2>5. \A u \in Given("update_timing") : \E l \in Given("link_design") : ~ (l < u)
    BY <1>1, <2>3 DEF IInv, TimerHasCircuit
  <2>6. \A u \in Given("update_timing") : \E l \in Given("link_design") : u < l
    <3> SUFFICES ASSUME NEW u \in Given("update_timing")
                 PROVE  \E l \in Given("link_design") : u < l
      OBVIOUS
    <3>1. PICK l \in Given("link_design") : ~ (l < u)
      BY <2>5
    <3>2. history[l].command = "link_design" /\ history[u].command = "update_timing"
      BY DEF Given
    <3>3. l # u /\ l \in 1 .. Now /\ u \in 1 .. Now
      BY <2>4, <3>2
    <3> QED BY <2>4, <3>1, <3>3
  <2>7. UndefinedForCause'
    BY <1>1, <2>1, <2>4, <2>6 DEF UndefinedForCause
  <2> QED BY <2>1, <2>2, <2>7 DEF IInv
<1>3. CASE Throw
  BY <1>1, <1>3, Ending DEF Throw
<1>4. CASE End("stopped")
  BY <1>1, <1>4, Ending
<1>5. ASSUME timer # NoTimer, NEW o, NEW print, report(o, print) PROVE IInv'
  BY <1>1, <1>5, Reporting
<1> QED BY <1>2, <1>3, <1>4, <1>5 DEF cmd_report_timing

LEMMA PyReporting ==
  ASSUME IInv, report_timing PROVE IInv'
<1>1. /\ status = "running" /\ interface = "pySTA" /\ Log("report_timing", None)
      /\ "report_timing" \in Commands /\ None \in Files
  BY DEF report_timing, Run, Commands, Files
<1>2. CASE End("stopped")
  BY <1>1, <1>2, Ending
<1>3. ASSUME NEW o, NEW print, report(o, print) PROVE IInv'
  BY <1>1, <1>3, Reporting
<1> QED BY <1>2, <1>3 DEF report_timing

LEMMA Selecting ==
  ASSUME IInv, py_select_cell PROVE IInv'
<1>1. /\ status = "running" /\ Log("select_cell", None) /\ None \in Files
      /\ "select_cell" \in Commands \ {"link_design", "update_timing"}
      /\ UNCHANGED <<interface, readers, circuit, timer, status>>
  BY DEF py_select_cell, Run, Files, Commands, inputs_read
<1>2. TypeOK'
  BY <1>1, Logged DEF IInv, TypeOK
<1>3. ReadersKnown' /\ OwnCommands' /\ LinkedHasCircuit' /\ TimerHasCircuit'
  BY <1>1, StillKnown, StillOwn, StillLinked DEF IInv
<1> QED BY <1>1, <1>2, <1>3 DEF IInv, UndefinedForCause

LEMMA Exiting ==
  ASSUME IInv, cmd_exit PROVE IInv'
<1>1. /\ status = "running" /\ Log("exit", None) /\ None \in Files /\ "exit" \in Commands
      /\ End("exited") \/ End("stopped")
  BY DEF cmd_exit, Run, Files, Commands
<1> QED BY <1>1, Ending

LEMMA Panicking ==
  ASSUME IInv, readLib_panics PROVE IInv'
<1>1. /\ UNCHANGED <<interface, readers, circuit, timer, history>>
      /\ status = "running" /\ status' = "stopped"
  BY DEF readLib_panics, End, inputs_read
<1>2. TypeOK' /\ UndefinedForCause'
  BY <1>1 DEF IInv, TypeOK, UndefinedForCause
<1>3. ReadersKnown' /\ OwnCommands'
  BY <1>1 DEF IInv, ReadersKnown, OwnCommands, Given, LinkCommand
<1> QED BY <1>1, <1>2, <1>3 DEF IInv

LEMMA Idling ==
  ASSUME IInv, UNCHANGED vars PROVE IInv'
<1>1. UNCHANGED <<interface, readers, circuit, timer, history, status>>
  BY DEF vars, inputs_read
<1>2. TypeOK' /\ UNCHANGED Asked
  BY <1>1 DEF IInv, TypeOK, Asked, Now, vars, inputs_read
<1>5. UndefinedForCause'
  BY <1>1, <1>2 DEF IInv, UndefinedForCause, Given, Earlier, Now
<1>3. ReadersKnown => ReadersKnown'
  BY <1>1 DEF ReadersKnown, Given, LinkCommand
<1>4. /\ OwnCommands => OwnCommands'
      /\ LinkedHasCircuit => LinkedHasCircuit'
      /\ TimerHasCircuit => TimerHasCircuit'
  BY <1>1 DEF OwnCommands, LinkedHasCircuit, TimerHasCircuit, Given
<1> QED BY <1>1, <1>2, <1>3, <1>4, <1>5 DEF IInv

LEMMA SessionNext ==
  ASSUME IInv, [Next]_vars PROVE IInv'
BY ReadingVerilog, ReadingLiberty, LinkingDesign, LinkingLibrary, Updating, ShellReporting,
   PyReporting, Selecting, Exiting, Panicking, Idling DEF Next

\* Of whatever files and in whatever order commands are given, a program leaves
\* defined behaviour in the ways of UndefinedForCause only: an update or a report
\* that its link or its update does not precede, a second link, a fault of a
\* library in what is asked of it (cmd_update_timing, cmd_report_timing,
\* LibertyParser::link_lib).
THEOREM UndefinedOnlyForCause == Spec => []UndefinedForCause
<1>1. IInv => UndefinedForCause
  BY DEF IInv
<1> QED BY <1>1, SessionInit, SessionNext, PTL DEF Spec
=============================================================================
