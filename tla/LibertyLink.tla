------------------------------ MODULE LibertyLink ------------------------------
(***************************************************************************)
(* LibertyParser: library files are read by tasks of their own while the   *)
(* user goes on, and link_lib turns what they left into the cells a        *)
(* netlist asks for.  This is the one place of mySTA where threads run     *)
(* beside each other.                                                      *)
(*                                                                         *)
(* A reader holds the syntax tree its task parsed.  Linking a reader walks *)
(* the tree and frees it.  The parser panics over a file it cannot read;   *)
(* linking a tree without a library uses a builder that is not there,      *)
(* linking one again walks freed memory, and the walk over the library or  *)
(* over a cell that is built may stop or be undefined (LibraryBuild says   *)
(* when).  All of these end the behaviour here with an `error'.  A variable *)
(* of a table template that mySTA does not know throws an exception out of *)
(* link_lib instead, after which the user may go on.                       *)
(***************************************************************************)
EXTENDS Integers, Sequences

CONSTANTS
  Files,      \* the library files
  CellNames,  \* names of cells
  Readable,   \* the files that can be parsed
  Foreign,    \* the files whose outermost group is no library
  Throwing,   \* the files with an unknown template variable
  CellsOf,    \* the cells of a file
  Faulty,     \* <<file, part>> whose walk goes wrong, part a cell or None for the rest
  Uncertain,  \* <<file, part>> whose walk may go wrong, over a flag that was never set
  Unusable,   \* <<file, cell>> whose conversion to CellLib goes wrong
  None,
  MaxReads,   \* bound: calls of read_liberty
  MaxLinks    \* bound: calls of link_lib

\* A file that is not parsed, a tree without a library, one that is gone, a part
\* of a library that cannot be walked, a cell without a CellLib.
Errors == {"ParserPanics", "NoBuilder", "FreedTree", "WalkFails", "UnusableCell"}

ASSUME FileAssumption == /\ Readable \cup Foreign \cup Throwing \subseteq Files
                         /\ CellsOf \in [Files -> SUBSET CellNames]
                         /\ Faulty \cup Uncertain \subseteq Files \X (CellNames \cup {None})
                         /\ Unusable \subseteq Files \X CellNames
                         /\ None \notin Files \cup CellNames \cup Errors
ASSUME BoundAssumption == MaxReads \in Nat /\ MaxLinks \in Nat

VARIABLES
  readers,  \* LibertyParser::_liberty_readers: file and syntax tree
  tasks,    \* the readers whose task still runs
  futures,  \* LibertyParser::_read_futures, each by its reader
  libs,     \* LibertyParser::_libs: file and cells that were built
  cells,    \* LibertyParser::_cells, by the file the cell came from
  needed,   \* the argument of link_lib
  phase,    \* where link_lib or the destructor is
  i, todo,  \* its position in a vector, what is left of a hash set
  links,    \* calls of link_lib
  error

vars == <<readers, tasks, futures, libs, cells, needed, phase, i, todo, links, error>>

Reader == [file : Files, tree : {"null", "parsed", "freed"}]
Lib == [file : Files, cells : SUBSET CellNames]
Phases == {"idle", "thrown", "wait", "link", "select", "exit", "gone"}

Init ==
  /\ readers = << >> /\ tasks = {} /\ futures = << >> /\ libs = << >>
  /\ cells = [c \in CellNames |-> None]
  /\ needed = {} /\ phase = "idle" /\ i = 1 /\ todo = {} /\ links = 0
  /\ error = None

Stop(what) ==
  /\ error' = what
  /\ UNCHANGED <<readers, tasks, futures, libs, cells, needed, phase, i, todo, links>>

Goto(name) == phase' = name /\ i' = 1

\* Between the calls; an exception has left the last one in "thrown".
AtUser == phase \in {"idle", "thrown"}

-----------------------------------------------------------------------------
\* read_liberty starts a task and comes back.
read_liberty ==
  /\ AtUser /\ Len(readers) < MaxReads
  /\ \E f \in Files : readers' = Append(readers, [file |-> f, tree |-> "null"])
  /\ tasks' = tasks \cup {Len(readers) + 1}
  /\ futures' = Append(futures, Len(readers) + 1)
  /\ UNCHANGED <<libs, cells, needed, phase, i, todo, links, error>>

\* The task of a reader, RustLibertyReader::readLib.
Parses(k) ==
  /\ tasks' = tasks \ {k}
  /\ readers' = [readers EXCEPT ![k].tree = "parsed"]
  /\ UNCHANGED <<futures, libs, cells, needed, phase, i, todo, links, error>>
readLib_NeverPanics == \E k \in tasks : readers[k].file \in Readable /\ Parses(k)
readLib ==
  \E k \in tasks : \/ readers[k].file \in Readable /\ Parses(k)
                   \/ readers[k].file \notin Readable /\ Stop("ParserPanics")

call_link_lib ==
  /\ AtUser /\ links < MaxLinks
  /\ needed' \in SUBSET CellNames
  /\ cells' = [c \in CellNames |-> None]
  /\ links' = links + 1
  /\ Goto("wait")
  /\ UNCHANGED <<readers, tasks, futures, libs, todo, error>>

\* fut.get() blocks until the task has ended.
HasEnded_Any(k) == TRUE
HasEnded(k) == k \notin tasks
get_future ==
  /\ phase \in {"wait", "exit"} /\ i \in 1 .. Len(futures)
  /\ HasEnded(futures[i])
  /\ i' = i + 1
  /\ UNCHANGED <<readers, tasks, futures, libs, cells, needed, phase, todo, links, error>>

got_futures ==
  /\ phase = "wait" /\ i > Len(futures)
  /\ futures' = << >>
  /\ Goto("link")
  /\ UNCHANGED <<readers, tasks, libs, cells, needed, todo, links, error>>

\* Only needed cells are built, all of them if none is named, and only they are
\* walked, besides the groups of the library itself.  What in a file comes first
\* is left open when it has several faults.
Built(f) == IF needed = {} THEN CellsOf[f] ELSE CellsOf[f] \cap needed
Walks(f, parts) == \E part \in {None} \cup Built(f) : <<f, part>> \in parts
Linked(f) ==
  /\ libs' = Append(libs, [file |-> f, cells |-> Built(f)])
  /\ readers' = [readers EXCEPT ![i].tree = "freed"]
  /\ i' = i + 1
  /\ UNCHANGED <<tasks, futures, cells, needed, phase, todo, links, error>>
Thrown ==
  /\ Goto("thrown")
  /\ UNCHANGED <<readers, tasks, futures, libs, cells, needed, todo, links, error>>
Walk_PassesOver(f) == Linked(f)
Walk(f) ==
  \/ Walks(f, Faulty \cup Uncertain) /\ Stop("WalkFails")
  \/ f \in Throwing /\ Thrown
  \/ f \notin Throwing /\ ~Walks(f, Faulty) /\ Linked(f)
link_reader ==
  /\ phase = "link" /\ i \in 1 .. Len(readers)
  /\ LET f == readers[i].file  tree == readers[i].tree IN
     \/ (tree = "null" \/ (tree = "parsed" /\ f \in Foreign)) /\ Stop("NoBuilder")
     \/ tree = "freed" /\ Stop("FreedTree")
     \/ tree = "parsed" /\ f \notin Foreign /\ Walk(f)

linked_readers ==
  /\ phase = "link" /\ i > Len(readers)
  /\ todo' = needed
  /\ Goto("select")
  /\ UNCHANGED <<readers, tasks, futures, libs, cells, needed, links, error>>

\* For one of the needed cells, in hash order, the first library that has it.
Builds(k, c) == k \in 1 .. Len(libs) /\ c \in libs[k].cells
IsFirstLib_Last(k, c) == Builds(k, c) /\ \A l \in k + 1 .. Len(libs) : ~Builds(l, c)
IsFirstLib(k, c) == Builds(k, c) /\ \A l \in 1 .. k - 1 : ~Builds(l, c)
Found(c, file) ==
  /\ cells' = [cells EXCEPT ![c] = file]
  /\ todo' = todo \ {c}
  /\ UNCHANGED <<readers, tasks, futures, libs, needed, phase, i, links, error>>
build_cell ==
  /\ phase = "select"
  /\ \E c \in todo :
       \/ (\A k \in 1 .. Len(libs) : ~Builds(k, c)) /\ Found(c, None)
       \/ \E k \in 1 .. Len(libs) :
            /\ IsFirstLib(k, c)
            /\ IF <<libs[k].file, c>> \in Unusable THEN Stop("UnusableCell")
                                                  ELSE Found(c, libs[k].file)

built_cells ==
  /\ phase = "select" /\ todo = {}
  /\ Goto("idle")
  /\ UNCHANGED <<readers, tasks, futures, libs, cells, needed, todo, links, error>>

-----------------------------------------------------------------------------
\* The program ends: members go in the reverse of their declaration, so cells
\* and libraries, then the futures, each of which waits for its task (get_future),
\* then the readers.
exit ==
  /\ AtUser
  /\ libs' = << >> /\ cells' = [c \in CellNames |-> None]
  /\ Goto("exit")
  /\ UNCHANGED <<readers, tasks, futures, needed, todo, links, error>>

destroy_readers ==
  /\ phase = "exit" /\ i > Len(futures)
  /\ futures' = << >> /\ readers' = << >>
  /\ Goto("gone")
  /\ UNCHANGED <<tasks, libs, cells, needed, todo, links, error>>

Call == \/ get_future \/ got_futures \/ link_reader \/ linked_readers \/ build_cell
        \/ built_cells \/ destroy_readers
Next == error = None /\ (readLib \/ Call \/ read_liberty \/ call_link_lib \/ exit)

\* A task ends by itself, and a call goes on when nothing blocks it.
Spec == /\ Init /\ [][Next]_vars
        /\ WF_vars(error = None /\ readLib) /\ WF_vars(error = None /\ Call)

-----------------------------------------------------------------------------
TypeOK ==
  /\ readers \in Seq(Reader)
  /\ tasks \subseteq Nat
  /\ futures \in Seq(Nat)
  /\ libs \in Seq(Lib)
  /\ cells \in [CellNames -> Files \cup {None}]
  /\ needed \in SUBSET CellNames /\ todo \in SUBSET CellNames
  /\ phase \in Phases
  /\ i \in Nat /\ links \in Nat
  /\ error \in Errors \cup {None}

\* Nothing of a reader is touched while its task runs: libraries are linked
\* and readers destroyed only when all tasks have ended.
TasksHaveEnded == phase \in {"link", "select", "gone"} => tasks = {}

\* A netlist gets each cell from the first file read that has it, in whatever
\* order the tasks end and the hash set is walked; a cell no file has is missing.
FirstFileWins ==
  phase = "idle" /\ links > 0 =>
    \A c \in needed :
      LET having == {k \in 1 .. Len(readers) : readers[k].tree = "freed" /\ c \in CellsOf[readers[k].file]}
      IN IF having = {} THEN cells[c] = None
         ELSE \E k \in having : /\ \A l \in having : k <= l
                                /\ cells[c] = readers[k].file

\* Whatever the order of reads, links and task ends: the program is ended by a
\* file that cannot be parsed, a tree without a library, a second link that meets
\* the trees of the first, a fault in the library or in a cell that is built, or a
\* needed cell that cannot be converted; only a template variable makes link_lib
\* throw; and a link that comes back has met none of these in what it built, so a
\* faulty cell that nobody asks for does no harm.
GoesWrongForCause ==
  /\ error = "ParserPanics" => \E k \in 1 .. Len(readers) : readers[k].file \notin Readable
  /\ error = "NoBuilder" => readers[i].file \in Foreign
  /\ error = "FreedTree" => links > 1 /\ libs # << >>
  /\ error = "WalkFails" => Walks(readers[i].file, Faulty \cup Uncertain)
  /\ error = "UnusableCell" =>
       \E k \in 1 .. Len(libs) : \E c \in needed \cap libs[k].cells : <<libs[k].file, c>> \in Unusable
  /\ phase = "thrown" => \E k \in 1 .. Len(readers) : readers[k].file \in Throwing
ComesBackFaultless ==
  phase = "idle" /\ links > 0 =>
    /\ \A k \in 1 .. Len(readers) : readers[k].tree = "freed" =>
         readers[k].file \notin Foreign \cup Throwing /\ ~Walks(readers[k].file, Faulty)
    /\ \A c \in needed : <<cells[c], c>> \notin Unusable
FailsForCause == GoesWrongForCause /\ ComesBackFaultless

\* A call of link_lib comes back and a program that ends does end, although
\* both wait for tasks, unless something goes wrong for good.
CallsEnd == /\ phase = "wait" ~> AtUser \/ error # None
            /\ phase = "exit" ~> phase = "gone" \/ error # None

-----------------------------------------------------------------------------
\* The inductive invariant: every running task has a future still to be got,
\* and the futures a loop has passed have none running,
TasksHaveFutures ==
  \A k \in tasks : /\ k \in 1 .. Len(readers)
                   /\ \E l \in 1 .. Len(futures) : futures[l] = k
PassedHaveEnded ==
  phase \in {"wait", "exit"} => \A l \in 1 .. Len(futures) : l < i => futures[l] \notin tasks

\* a tree is missing exactly while the task runs,
TreesHaveReasons ==
  \A k \in 1 .. Len(readers) : readers[k].tree = "null" <=> k \in tasks

\* the libraries are those of the readers whose tree is freed, in the order of
\* the readers, and the loop of link_lib is behind the last of them or meets
\* those of an earlier call at once,
LibsFollowReaders ==
  phase \notin {"exit", "gone"} =>
    /\ Len(libs) <= Len(readers)
    /\ \A k \in 1 .. Len(readers) :
         /\ readers[k].tree = "freed" <=> k <= Len(libs)
         /\ k <= Len(libs) => libs[k].file = readers[k].file
    /\ phase = "link" => i = 1 \/ i = Len(libs) + 1
LinksAreCounted ==
  /\ phase \in {"wait", "link", "select", "thrown"} \/ (phase = "idle" /\ libs # << >>) => links > 0
  /\ phase = "wait" \/ (phase = "link" /\ i = 1) => libs = << >> \/ links > 1

\* the libraries hold what the call in progress asks for, walked without a fault,
\* and of that all but what is left to do has been looked up in them.
BuiltAsNeeded ==
  (phase = "link" /\ i > 1) \/ phase = "select" \/ (phase = "idle" /\ links > 0) =>
    \A k \in 1 .. Len(libs) :
      LET f == libs[k].file
      IN  libs[k].cells = Built(f) /\ f \notin Foreign \cup Throwing /\ ~Walks(f, Faulty)
LookedUp(c) == IF \E k \in 1 .. Len(libs) : Builds(k, c)
               THEN \E k \in 1 .. Len(libs) : /\ IsFirstLib(k, c) /\ cells[c] = libs[k].file
                                              /\ <<cells[c], c>> \notin Unusable
               ELSE cells[c] = None
NeededAreLookedUp ==
  /\ phase = "select" => todo \subseteq needed
  /\ phase = "idle" => todo = {}
  /\ phase = "select" \/ (phase = "idle" /\ links > 0) => \A c \in needed \ todo : LookedUp(c)

TasksInv == TypeOK /\ TasksHaveFutures /\ PassedHaveEnded /\ TasksHaveEnded
LinkInv == /\ TreesHaveReasons /\ LibsFollowReaders /\ LinksAreCounted
           /\ BuiltAsNeeded /\ NeededAreLookedUp /\ GoesWrongForCause
IInv == TasksInv /\ LinkInv
=============================================================================
