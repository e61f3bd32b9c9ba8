--------------------------- MODULE LibertyLinkProofs ---------------------------
(***************************************************************************)
(* For any files, with whatever faults, any number of tasks and any user:  *)
(* nothing of a reader is used while its task runs, a cell comes from the  *)
(* first file that has it, a link goes wrong over a fault of the files or  *)
(* over its own second call only, and it comes back only without one.      *)
(***************************************************************************)
EXTENDS LibertyLink, SequenceTheorems, TLAPS

LEMMA InitTasks == ASSUME Init PROVE TasksInv
<1>1. << >> \in Seq(Reader) /\ << >> \in Seq(Nat) /\ << >> \in Seq(Lib)
  BY EmptySeq
<1>2. TypeOK
  BY <1>1 DEF Init, TypeOK, Phases
<1> QED BY <1>2 DEF Init, TasksInv, TasksHaveFutures, PassedHaveEnded, TasksHaveEnded

\* A new task comes with its future.
LEMMA ReadLiberty == ASSUME TasksInv, read_liberty PROVE TasksInv'
<1>0. TypeOK /\ TasksHaveFutures
  BY DEF TasksInv
<1> DEFINE n == Len(readers) + 1
<1>1. PICK f \in Files : readers' = Append(readers, [file |-> f, tree |-> "null"])
  BY DEF read_liberty
<1>2. [file |-> f, tree |-> "null"] \in Reader
  BY DEF Reader
<1>3. readers \in Seq(Reader) /\ futures \in Seq(Nat) /\ Len(readers) \in Nat /\ Len(futures) \in Nat
  BY <1>0 DEF TypeOK
<1>4. readers' \in Seq(Reader) /\ Len(readers') = n
  BY <1>1, <1>2, <1>3, AppendProperties
<1>5. /\ futures' \in Seq(Nat)
      /\ Len(futures') = Len(futures) + 1
      /\ futures'[Len(futures) + 1] = n
      /\ \A l \in 1 .. Len(futures) : futures'[l] = futures[l]
  BY <1>3, AppendProperties DEF read_liberty
<1>6. TypeOK'
  <2>1. tasks' \subseteq Nat
    <3>1. tasks \subseteq Nat /\ n \in Nat
      BY <1>0, <1>3 DEF TypeOK
    <3>2. tasks' = tasks \cup {n}
      BY DEF read_liberty
    <3> HIDE DEF n
    <3> QED BY <3>1, <3>2
  <2>2. UNCHANGED <<libs, cells, needed, phase, i, todo, links, error>>
    BY DEF read_liberty
  <2> HIDE DEF n
  <2> QED BY <1>0, <1>4, <1>5, <2>1, <2>2 DEF TypeOK
<1> HIDE DEF n
<1>7. TasksHaveFutures'
  <2> SUFFICES ASSUME NEW k \in tasks'
               PROVE  k \in 1 .. Len(readers') /\ \E l \in 1 .. Len(futures') : futures'[l] = k
    BY DEF TasksHaveFutures
  <2>1. CASE k = n
    BY <2>1, <1>3, <1>4, <1>5 DEF n
  <2>2. CASE k \in tasks
    <3>1. k \in 1 .. Len(readers)
      BY <1>0, <2>2 DEF TasksHaveFutures
    <3>2. PICK l \in 1 .. Len(futures) : futures[l] = k
      BY <1>0, <2>2 DEF TasksHaveFutures
    <3>3. l \in 1 .. Len(futures') /\ futures'[l] = k
      BY <1>3, <1>5, <3>2
    <3> QED BY <1>3, <1>4, <3>1, <3>3 DEF n
  <2> QED BY <2>1, <2>2 DEF read_liberty, n
<1>8. PassedHaveEnded' /\ TasksHaveEnded'
  BY DEF read_liberty, AtUser, PassedHaveEnded, TasksHaveEnded
<1> QED BY <1>6, <1>7, <1>8 DEF TasksInv

\* A task that ends leaves fewer running, and one that panics ends the program.
LEMMA StopTasks == ASSUME TasksInv, NEW e \in Errors, Stop(e) PROVE TasksInv'
<1>1. error' = e /\ UNCHANGED <<readers, tasks, futures, libs, cells, needed, phase, i, todo, links>>
  BY DEF Stop
<1> QED BY <1>1 DEF TasksInv, TypeOK, TasksHaveFutures, PassedHaveEnded, TasksHaveEnded

LEMMA TaskEnds == ASSUME TasksInv, readLib PROVE TasksInv'
<1>0. TypeOK /\ TasksHaveFutures /\ PassedHaveEnded /\ TasksHaveEnded
  BY DEF TasksInv
<1>1. CASE Stop("ParserPanics")
  BY <1>1, StopTasks DEF Errors
<1>2. ASSUME NEW k \in tasks, Parses(k) PROVE TasksInv'
  <2>1. /\ tasks' = tasks \ {k}
        /\ readers' = [readers EXCEPT ![k] = [readers[k] EXCEPT !.tree = "parsed"]]
        /\ UNCHANGED <<futures, libs, cells, needed, phase, i, todo, links, error>>
    BY <1>2 DEF Parses
  <2>2. readers \in Seq(Reader) /\ k \in 1 .. Len(readers)
    BY <1>0 DEF TypeOK, TasksHaveFutures
  <2>3. readers[k] \in Reader
    BY <2>2, ElementOfSeq
  <2>4. [readers[k] EXCEPT !.tree = "parsed"] \in Reader
    BY <2>3 DEF Reader
  <2>5. readers' \in Seq(Reader) /\ Len(readers') = Len(readers)
    BY <2>1, <2>2, <2>4, ExceptSeq
  <2>6. TypeOK'
    BY <1>0, <2>1, <2>5 DEF TypeOK
  <2>7. TasksHaveFutures' /\ PassedHaveEnded' /\ TasksHaveEnded'
    BY <1>0, <2>1, <2>5 DEF TasksHaveFutures, PassedHaveEnded, TasksHaveEnded
  <2> QED BY <2>6, <2>7 DEF TasksInv
<1> QED BY <1>1, <1>2 DEF readLib

\* Of the steps of a call only link_reader writes to a reader, and only
\* destroy_readers removes any.
LEMMA CallSteps == ASSUME TasksInv, Call \/ call_link_lib \/ exit PROVE TasksInv'
<1>0. TypeOK /\ TasksHaveFutures /\ PassedHaveEnded /\ TasksHaveEnded
  BY DEF TasksInv
<1>s. << >> \in Seq(Reader) /\ << >> \in Seq(Nat) /\ << >> \in Seq(Lib) /\ Len(<< >>) = 0
  BY EmptySeq
<1>t. Len(futures) \in Nat /\ Len(readers) \in Nat /\ i \in Nat
  BY <1>0 DEF TypeOK
<1>2. CASE get_future
  <2>1. TypeOK' /\ TasksHaveFutures' /\ TasksHaveEnded'
    BY <1>0, <1>2 DEF get_future, TypeOK, TasksHaveFutures, TasksHaveEnded
  <2>2. PassedHaveEnded'
    <3> SUFFICES ASSUME NEW l \in 1 .. Len(futures), l < i + 1, phase \in {"wait", "exit"}
                 PROVE  futures[l] \notin tasks
      BY <1>2 DEF get_future, PassedHaveEnded
    <3>1. CASE l = i
      BY <1>2, <3>1 DEF get_future, HasEnded
    <3>2. CASE l < i
      BY <1>0, <3>2 DEF PassedHaveEnded
    <3> QED BY <1>t, <3>1, <3>2
  <2> QED BY <2>1, <2>2 DEF TasksInv
<1>3. CASE got_futures \/ destroy_readers
  <2>1. \A l \in 1 .. Len(futures) : futures[l] \notin tasks
    BY <1>0, <1>t, <1>3 DEF got_futures, destroy_readers, PassedHaveEnded
  <2>2. tasks = {}
    BY <1>0, <2>1 DEF TasksHaveFutures
  <2>3. tasks' = {} /\ i' = 1 /\ phase' \in {"link", "gone"} /\ futures' = << >>
        /\ readers' \in Seq(Reader) /\ UNCHANGED <<libs, cells, needed, todo, links, error>>
    BY <1>0, <1>s, <1>3, <2>2 DEF got_futures, destroy_readers, Goto, TypeOK
  <2>4. TypeOK'
    BY <1>0, <1>s, <2>3 DEF TypeOK, Phases
  <2>5. TasksHaveFutures' /\ PassedHaveEnded' /\ TasksHaveEnded'
    BY <2>3 DEF TasksHaveFutures, PassedHaveEnded, TasksHaveEnded
  <2> QED BY <2>4, <2>5 DEF TasksInv
<1>4. CASE link_reader
  <2>1. CASE Stop("NoBuilder") \/ Stop("FreedTree") \/ Stop("WalkFails")
    BY <2>1, StopTasks DEF Errors
  <2>t. CASE Thrown
    BY <1>0, <2>t DEF Thrown, Goto, TasksInv, TypeOK, TasksHaveFutures, PassedHaveEnded, TasksHaveEnded, Phases
  <2>2. CASE Linked(readers[i].file)
    <3>0. /\ libs' = Append(libs, [file |-> readers[i].file, cells |-> Built(readers[i].file)])
          /\ readers' = [readers EXCEPT ![i].tree = "freed"]
          /\ i' = i + 1
          /\ UNCHANGED <<tasks, futures, cells, needed, phase, todo, links, error>>
      BY <2>2 DEF Linked
    <3>1. readers \in Seq(Reader) /\ i \in 1 .. Len(readers)
      BY <1>0, <1>4 DEF TypeOK, link_reader
    <3>2. readers[i] \in Reader
      BY <3>1, ElementOfSeq
    <3>3. [readers[i] EXCEPT !.tree = "freed"] \in Reader
      BY <3>2 DEF Reader
    <3>4. readers' = [readers EXCEPT ![i] = [readers[i] EXCEPT !.tree = "freed"]]
      BY <3>0
    <3>5. readers' \in Seq(Reader) /\ Len(readers') = Len(readers)
      BY <3>1, <3>3, <3>4, ExceptSeq
    <3>6. [file |-> readers[i].file, cells |-> Built(readers[i].file)] \in Lib
      <4>1. readers[i].file \in Files
        BY <3>2 DEF Reader
      <4> QED BY <4>1, FileAssumption DEF Lib, Built
    <3>7. libs' \in Seq(Lib)
      BY <1>0, <3>0, <3>6, AppendProperties DEF TypeOK
    <3>8. TypeOK'
      BY <1>0, <1>t, <3>0, <3>5, <3>7 DEF TypeOK
    <3>9. TasksHaveFutures' /\ TasksHaveEnded'
      BY <1>0, <3>0, <3>5 DEF TasksHaveFutures, TasksHaveEnded
    <3>10. PassedHaveEnded'
      BY <1>4, <3>0 DEF PassedHaveEnded, link_reader
    <3> QED BY <3>8, <3>9, <3>10 DEF TasksInv
  <2> QED BY <1>4, <2>1, <2>t, <2>2 DEF link_reader, Walk
<1>5. CASE linked_readers
  BY <1>0, <1>5 DEF linked_readers, Goto, TasksInv, TypeOK, TasksHaveFutures, PassedHaveEnded, TasksHaveEnded, Phases
<1>6. CASE build_cell
  <2>1. ASSUME NEW c, NEW file \in Files \cup {None}, Found(c, file) PROVE TasksInv'
    <3>1. /\ cells' = [cells EXCEPT ![c] = file] /\ todo' = todo \ {c}
          /\ UNCHANGED <<readers, tasks, futures, libs, needed, phase, i, links, error>>
      BY <2>1 DEF Found
    <3> QED BY <1>0, <2>1, <3>1 DEF TasksInv, TypeOK, TasksHaveFutures, PassedHaveEnded, TasksHaveEnded
  <2>2. CASE Stop("UnusableCell")
    BY <2>2, StopTasks DEF Errors
  <2>3. \A k \in 1 .. Len(libs) : libs[k].file \in Files
    <3>1. libs \in Seq(Lib)
      BY <1>0 DEF TypeOK
    <3>2. \A k \in 1 .. Len(libs) : libs[k] \in Lib
      BY <3>1, ElementOfSeq
    <3> QED BY <3>2 DEF Lib
  <2>4. \/ Stop("UnusableCell")
        \/ \E c \in todo : Found(c, None) \/ \E k \in 1 .. Len(libs) : Found(c, libs[k].file)
    BY <1>6 DEF build_cell
  <2> QED BY <2>1, <2>2, <2>3, <2>4
<1>7. CASE built_cells
  BY <1>0, <1>7 DEF built_cells, Goto, TasksInv, TypeOK, TasksHaveFutures, PassedHaveEnded, TasksHaveEnded, Phases
<1>8. CASE call_link_lib
  BY <1>0, <1>8 DEF call_link_lib, Goto, TasksInv, TypeOK, TasksHaveFutures, PassedHaveEnded, TasksHaveEnded, Phases
<1>9. CASE exit
  BY <1>0, <1>s, <1>9 DEF exit, Goto, TasksInv, TypeOK, TasksHaveFutures, PassedHaveEnded, TasksHaveEnded, Phases
<1> QED BY <1>2, <1>3, <1>4, <1>5, <1>6, <1>7, <1>8, <1>9 DEF Call

LEMMA StepTasks == ASSUME TasksInv, [Next]_vars PROVE TasksInv'
<1>1. CASE UNCHANGED vars
  BY <1>1 DEF vars, TasksInv, TypeOK, TasksHaveFutures, PassedHaveEnded, TasksHaveEnded
<1> QED BY <1>1, ReadLiberty, TaskEnds, CallSteps DEF Next

-----------------------------------------------------------------------------
LEMMA InitLink == ASSUME Init PROVE LinkInv
<1>1. Len(readers) = 0 /\ Len(libs) = 0
  BY EmptySeq DEF Init
<1>2. GoesWrongForCause
  BY FileAssumption DEF Init, GoesWrongForCause, Errors
<1>3. TreesHaveReasons /\ LibsFollowReaders /\ LinksAreCounted
  BY <1>1 DEF Init, TreesHaveReasons, LibsFollowReaders, LinksAreCounted
<1>4. BuiltAsNeeded /\ NeededAreLookedUp
  BY <1>1 DEF Init, BuiltAsNeeded, NeededAreLookedUp
<1> QED BY <1>2, <1>3, <1>4 DEF LinkInv

\* What an error or an exception needs besides its cause.
LEMMA StaysForCause ==
  ASSUME IInv, error = None, error' = None, phase' # "thrown" PROVE GoesWrongForCause'
BY FileAssumption DEF GoesWrongForCause, Errors

\* A new reader is behind all libraries and has a task.
LEMMA ReadLink == ASSUME IInv, error = None, read_liberty PROVE LinkInv'
<1>0. TasksInv /\ LinkInv /\ TypeOK /\ TasksHaveFutures
  BY DEF IInv, TasksInv
<1>1. PICK f \in Files : readers' = Append(readers, [file |-> f, tree |-> "null"])
  BY DEF read_liberty
<1>2. readers \in Seq(Reader) /\ Len(readers) \in Nat /\ libs \in Seq(Lib) /\ Len(libs) \in Nat
  BY <1>0 DEF TypeOK
<1>3. /\ Len(readers') = Len(readers) + 1
      /\ readers'[Len(readers) + 1] = [file |-> f, tree |-> "null"]
      /\ \A k \in 1 .. Len(readers) : readers'[k] = readers[k]
  <2>1. [file |-> f, tree |-> "null"] \in Reader
    BY DEF Reader
  <2> QED BY <1>1, <1>2, <2>1, AppendProperties
<1>4. /\ tasks' = tasks \cup {Len(readers) + 1}
      /\ phase \in {"idle", "thrown"}
      /\ UNCHANGED <<libs, cells, needed, phase, i, todo, links, error>>
  BY DEF read_liberty, AtUser
<1>5. TreesHaveReasons'
  <2> SUFFICES ASSUME NEW k \in 1 .. Len(readers')
               PROVE  readers'[k].tree = "null" <=> k \in tasks'
    BY DEF TreesHaveReasons
  <2>1. CASE k = Len(readers) + 1
    BY <1>3, <1>4, <2>1
  <2>2. CASE k \in 1 .. Len(readers)
    <3>1. readers[k].tree = "null" <=> k \in tasks
      BY <1>0, <2>2 DEF LinkInv, TreesHaveReasons
    <3> QED BY <1>2, <1>3, <1>4, <2>2, <3>1
  <2> QED BY <1>2, <1>3, <2>1, <2>2
<1>6. LibsFollowReaders'
  <2>1. Len(libs) <= Len(readers)
    BY <1>0, <1>4 DEF LinkInv, LibsFollowReaders
  <2>2. ASSUME NEW k \in 1 .. Len(readers')
        PROVE  /\ readers'[k].tree = "freed" <=> k <= Len(libs)
               /\ k <= Len(libs) => libs[k].file = readers'[k].file
    <3>1. CASE k = Len(readers) + 1
      BY <1>2, <1>3, <2>1, <3>1
    <3>2. CASE k \in 1 .. Len(readers)
      BY <1>0, <1>3, <1>4, <3>2 DEF LinkInv, LibsFollowReaders
    <3> QED BY <1>2, <1>3, <3>1, <3>2
  <2> QED BY <1>2, <1>3, <1>4, <2>1, <2>2 DEF LibsFollowReaders
<1>7. LinksAreCounted' /\ BuiltAsNeeded' /\ NeededAreLookedUp'
  BY <1>0, <1>4 DEF LinkInv, LinksAreCounted, BuiltAsNeeded, NeededAreLookedUp, Built, Walks, LookedUp, Builds, IsFirstLib
<1>8. GoesWrongForCause'
  <2>1. phase = "thrown" => \E k \in 1 .. Len(readers') : readers'[k].file \in Throwing
    BY <1>0, <1>2, <1>3 DEF LinkInv, GoesWrongForCause
  <2> QED BY <1>4, <2>1, FileAssumption DEF GoesWrongForCause, Errors
<1> QED BY <1>5, <1>6, <1>7, <1>8 DEF LinkInv

\* A task writes the tree of its reader and ends, or ends the program.
LEMMA TaskLink == ASSUME IInv, error = None, readLib PROVE LinkInv'
<1>0. TasksInv /\ LinkInv /\ TypeOK /\ TasksHaveFutures /\ TasksHaveEnded
  BY DEF IInv, TasksInv
<1>1. ASSUME NEW k \in tasks, readers[k].file \notin Readable, Stop("ParserPanics") PROVE LinkInv'
  <2>1. /\ error' = "ParserPanics"
        /\ UNCHANGED <<readers, tasks, futures, libs, cells, needed, phase, i, todo, links>>
    BY <1>1 DEF Stop
  <2>2. k \in 1 .. Len(readers)
    BY <1>0 DEF TasksHaveFutures
  <2>3. GoesWrongForCause'
    BY <1>0, <1>1, <2>1, <2>2 DEF GoesWrongForCause, LinkInv
  <2>4. TreesHaveReasons' /\ LibsFollowReaders' /\ LinksAreCounted' /\ BuiltAsNeeded' /\ NeededAreLookedUp'
    BY <1>0, <2>1 DEF LinkInv, TreesHaveReasons, LibsFollowReaders, LinksAreCounted,
       BuiltAsNeeded, NeededAreLookedUp, Built, Walks, LookedUp, Builds, IsFirstLib
  <2> QED BY <2>3, <2>4 DEF LinkInv
<1>2. ASSUME NEW k \in tasks, Parses(k) PROVE LinkInv'
  <2>1. /\ tasks' = tasks \ {k}
        /\ readers' = [readers EXCEPT ![k].tree = "parsed"]
        /\ UNCHANGED <<futures, libs, cells, needed, phase, i, todo, links, error>>
    BY <1>2 DEF Parses
  <2>2. readers \in Seq(Reader) /\ k \in 1 .. Len(readers)
    BY <1>0 DEF TypeOK, TasksHaveFutures
  <2>3. \A l \in 1 .. Len(readers) : readers[l] \in Reader
    BY <2>2, ElementOfSeq
  <2>4. /\ Len(readers') = Len(readers)
        /\ \A l \in 1 .. Len(readers) : l # k => readers'[l] = readers[l]
        /\ readers'[k].file = readers[k].file
        /\ readers'[k].tree = "parsed"
    BY <2>1, <2>2, <2>3 DEF Reader
  <2>5. readers[k].tree = "null" /\ phase \notin {"link", "select", "gone"}
    BY <1>0, <2>2 DEF LinkInv, TreesHaveReasons, TasksHaveEnded
  <2>6. TreesHaveReasons'
    <3> SUFFICES ASSUME NEW l \in 1 .. Len(readers)
                 PROVE  readers'[l].tree = "null" <=> l \in tasks'
      BY <2>4 DEF TreesHaveReasons
    <3>1. CASE l = k
      BY <2>1, <2>4, <3>1
    <3>2. CASE l # k
      BY <1>0, <2>1, <2>4, <3>2 DEF LinkInv, TreesHaveReasons
    <3> QED BY <3>1, <3>2
  <2>7. LibsFollowReaders'
    <3> SUFFICES ASSUME phase \notin {"exit", "gone"}
                 PROVE  /\ Len(libs) <= Len(readers)
                        /\ \A l \in 1 .. Len(readers) :
                              /\ readers'[l].tree = "freed" <=> l <= Len(libs)
                              /\ l <= Len(libs) => libs[l].file = readers'[l].file
      BY <2>1, <2>4, <2>5 DEF LibsFollowReaders
    <3> QED BY <1>0, <2>2, <2>4, <2>5 DEF LinkInv, LibsFollowReaders
  <2>8. LinksAreCounted' /\ BuiltAsNeeded' /\ NeededAreLookedUp'
    BY <1>0, <2>1 DEF LinkInv, LinksAreCounted, BuiltAsNeeded, NeededAreLookedUp, Built, Walks, LookedUp, Builds, IsFirstLib
  <2>9. GoesWrongForCause'
    <3>1. phase = "thrown" => \E l \in 1 .. Len(readers') : readers'[l].file \in Throwing
      <4> SUFFICES ASSUME phase = "thrown" PROVE \E l \in 1 .. Len(readers') : readers'[l].file \in Throwing
        OBVIOUS
      <4>1. PICK l \in 1 .. Len(readers) : readers[l].file \in Throwing
        BY <1>0 DEF LinkInv, GoesWrongForCause
      <4>2. readers'[l].file = readers[l].file
        BY <2>4
      <4> QED BY <2>4, <4>1, <4>2
    <3> QED BY <2>1, <3>1, FileAssumption DEF GoesWrongForCause, Errors
  <2> QED BY <2>6, <2>7, <2>8, <2>9 DEF LinkInv
<1> QED BY <1>1, <1>2 DEF readLib

\* link_reader stops, or moves one reader's cells to the end of the libraries.
LEMMA ReaderLink == ASSUME IInv, error = None, link_reader PROVE LinkInv'
<1>0. TasksInv /\ LinkInv /\ TypeOK /\ TasksHaveEnded
  BY DEF IInv, TasksInv
<1>1. /\ phase = "link" /\ i \in 1 .. Len(readers) /\ tasks = {}
      /\ readers \in Seq(Reader) /\ libs \in Seq(Lib) /\ Len(libs) \in Nat /\ Len(readers) \in Nat
  BY <1>0 DEF link_reader, TypeOK, TasksHaveEnded
<1>2. /\ Len(libs) <= Len(readers)
      /\ \A k \in 1 .. Len(readers) :
           /\ readers[k].tree = "freed" <=> k <= Len(libs)
           /\ k <= Len(libs) => libs[k].file = readers[k].file
      /\ i = 1 \/ i = Len(libs) + 1
  BY <1>0, <1>1 DEF LinkInv, LibsFollowReaders
<1>3. ASSUME NEW e, Stop(e) PROVE UNCHANGED <<readers, tasks, futures, libs, cells, needed, phase, i, todo, links>>
  BY <1>3 DEF Stop
<1>4. ASSUME NEW e, Stop(e), GoesWrongForCause' PROVE LinkInv'
  <2>1. TreesHaveReasons' /\ LibsFollowReaders' /\ LinksAreCounted' /\ BuiltAsNeeded' /\ NeededAreLookedUp'
    BY <1>0, <1>3, <1>4 DEF LinkInv, TreesHaveReasons, LibsFollowReaders, LinksAreCounted,
       BuiltAsNeeded, NeededAreLookedUp, Built, Walks, LookedUp, Builds, IsFirstLib
  <2> QED BY <1>4, <2>1 DEF LinkInv
<1>5. CASE (readers[i].tree = "null" \/ readers[i].file \in Foreign) /\ Stop("NoBuilder")
  <2>1. readers[i].file \in Foreign
    BY <1>0, <1>1, <1>5 DEF LinkInv, TreesHaveReasons
  <2>2. error' = "NoBuilder" /\ UNCHANGED <<readers, i, phase>>
    BY <1>5 DEF Stop
  <2>3. GoesWrongForCause'
    BY <1>1, <2>1, <2>2 DEF GoesWrongForCause
  <2> QED BY <1>4, <1>5, <2>3
<1>8. CASE Walks(readers[i].file, Faulty \cup Uncertain) /\ Stop("WalkFails")
  <2>1. error' = "WalkFails" /\ UNCHANGED <<readers, i, phase, needed>>
    BY <1>8 DEF Stop
  <2>2. GoesWrongForCause'
    BY <1>1, <1>8, <2>1 DEF GoesWrongForCause, Walks, Built
  <2> QED BY <1>4, <1>8, <2>2
<1>9. CASE readers[i].file \in Throwing /\ Thrown
  <2>1. /\ phase' = "thrown"
        /\ UNCHANGED <<readers, tasks, futures, libs, cells, needed, todo, links, error>>
    BY <1>9 DEF Thrown, Goto
  <2>2. links > 0
    BY <1>0, <1>1 DEF LinkInv, LinksAreCounted
  <2>3. TreesHaveReasons' /\ LibsFollowReaders'
    BY <1>0, <1>1, <2>1 DEF LinkInv, TreesHaveReasons, LibsFollowReaders
  <2>4. LinksAreCounted' /\ BuiltAsNeeded' /\ NeededAreLookedUp'
    BY <2>1, <2>2 DEF LinksAreCounted, BuiltAsNeeded, NeededAreLookedUp
  <2>5. GoesWrongForCause'
    BY <1>1, <1>9, <2>1, FileAssumption DEF GoesWrongForCause, Errors
  <2> QED BY <2>3, <2>4, <2>5 DEF LinkInv
<1>6. CASE readers[i].tree = "freed" /\ Stop("FreedTree")
  <2>1. i <= Len(libs)
    BY <1>1, <1>2, <1>6
  <2>2. i = 1 /\ libs # << >>
    BY <1>1, <1>2, <2>1, EmptySeq
  <2>3. links > 1
    BY <1>0, <1>1, <2>2 DEF LinkInv, LinksAreCounted
  <2>4. error' = "FreedTree" /\ UNCHANGED <<links, libs, phase>>
    BY <1>6 DEF Stop
  <2>5. GoesWrongForCause'
    BY <1>1, <2>2, <2>3, <2>4 DEF GoesWrongForCause
  <2> QED BY <1>4, <1>6, <2>5
<1>7. CASE /\ readers[i].tree = "parsed" /\ readers[i].file \notin Foreign \cup Throwing
           /\ ~Walks(readers[i].file, Faulty) /\ Linked(readers[i].file)
  <2>0. /\ libs' = Append(libs, [file |-> readers[i].file, cells |-> Built(readers[i].file)])
        /\ readers' = [readers EXCEPT ![i].tree = "freed"]
        /\ i' = i + 1
        /\ UNCHANGED <<tasks, futures, cells, needed, phase, todo, links, error>>
    BY <1>7 DEF Linked
  <2> DEFINE new == [file |-> readers[i].file, cells |-> Built(readers[i].file)]
             n == Len(libs) + 1
  <2>1. i = n
    BY <1>1, <1>2, <1>7
  <2>2. \A k \in 1 .. Len(readers) : readers[k] \in Reader
    BY <1>1, ElementOfSeq
  <2>3. /\ Len(readers') = Len(readers)
        /\ \A k \in 1 .. Len(readers) : k # i => readers'[k] = readers[k]
        /\ readers'[i].file = readers[i].file /\ readers'[i].tree = "freed"
    BY <1>1, <2>0, <2>2 DEF Reader
  <2>4. /\ Len(libs') = n /\ libs'[n] = new
        /\ \A k \in 1 .. Len(libs) : libs'[k] = libs[k]
    <3>1. new \in Lib
      <4>1. readers[i].file \in Files
        BY <1>1, <2>2 DEF Reader
      <4> QED BY <4>1, FileAssumption DEF Lib, Built
    <3>2. libs' = Append(libs, new)
      BY <2>0
    <3> HIDE DEF new
    <3> QED BY <1>1, <3>1, <3>2, AppendProperties
  <2>5. TreesHaveReasons'
    BY <1>0, <1>1, <2>0, <2>3 DEF LinkInv, TreesHaveReasons
  <2>6. LibsFollowReaders'
    <3>1. ASSUME NEW k \in 1 .. Len(readers)
          PROVE  /\ readers'[k].tree = "freed" <=> k <= n
                 /\ k <= n => libs'[k].file = readers'[k].file
      <4>1. CASE k = i
        BY <1>1, <2>1, <2>3, <2>4, <4>1
      <4>2. CASE k # i
        BY <1>1, <1>2, <2>1, <2>3, <2>4, <4>2
      <4> QED BY <4>1, <4>2
    <3> QED BY <1>1, <2>0, <2>1, <2>3, <2>4, <3>1 DEF LibsFollowReaders
  <2>7. LinksAreCounted'
    BY <1>0, <1>1, <2>0 DEF LinkInv, LinksAreCounted
  <2>8. BuiltAsNeeded'
    <3>1. ASSUME NEW k \in 1 .. n
          PROVE  /\ libs'[k].cells = Built(libs'[k].file)
                 /\ libs'[k].file \notin Foreign \cup Throwing
                 /\ ~Walks(libs'[k].file, Faulty)
      <4>1. CASE k = n
        BY <1>7, <2>4, <4>1
      <4>2. CASE k # n
        BY <1>0, <1>1, <2>1, <2>4, <4>2 DEF LinkInv, BuiltAsNeeded
      <4> QED BY <4>1, <4>2
    <3> HIDE DEF n, new
    <3>2. \A f : Built(f)' = Built(f)
      BY <2>0 DEF Built
    <3>3. \A f : Walks(f, Faulty)' = Walks(f, Faulty)
      BY <3>2 DEF Walks
    <3> QED BY <2>0, <2>4, <3>1, <3>2, <3>3 DEF BuiltAsNeeded
  <2>9. NeededAreLookedUp' /\ GoesWrongForCause'
    BY <1>1, <2>0, FileAssumption DEF NeededAreLookedUp, GoesWrongForCause, Errors
  <2> QED BY <2>5, <2>6, <2>7, <2>8, <2>9 DEF LinkInv
<1> QED BY <1>5, <1>6, <1>7, <1>8, <1>9 DEF link_reader, Walk

\* A cell is looked up in the libraries, which stay as they are.
LEMMA CellLink == ASSUME IInv, error = None, build_cell PROVE LinkInv'
<1>0. TasksInv /\ LinkInv /\ TypeOK
  BY DEF IInv, TasksInv
<1>1. phase = "select" /\ cells \in [CellNames -> Files \cup {None}] /\ todo \subseteq needed
      /\ needed \subseteq CellNames
  BY <1>0 DEF build_cell, LinkInv, NeededAreLookedUp, TypeOK
<1>2. ASSUME NEW c \in todo, NEW file, Found(c, file),
             IF \E k \in 1 .. Len(libs) : Builds(k, c)
             THEN \E k \in 1 .. Len(libs) : /\ IsFirstLib(k, c) /\ file = libs[k].file
                                            /\ <<file, c>> \notin Unusable
             ELSE file = None
      PROVE  LinkInv'
  <2>1. /\ cells' = [cells EXCEPT ![c] = file] /\ todo' = todo \ {c}
        /\ UNCHANGED <<readers, tasks, futures, libs, needed, phase, i, links, error>>
    BY <1>2 DEF Found
  <2>2. TreesHaveReasons' /\ LibsFollowReaders' /\ LinksAreCounted' /\ BuiltAsNeeded'
    BY <1>0, <2>1 DEF LinkInv, TreesHaveReasons, LibsFollowReaders, LinksAreCounted, BuiltAsNeeded, Built, Walks
  <2>3. GoesWrongForCause'
    BY <1>1, <2>1, FileAssumption DEF GoesWrongForCause, Errors
  <2>4. ASSUME NEW d \in needed \ (todo \ {c}) PROVE LookedUp(d)'
    <3>1. \A k : (Builds(k, d)' <=> Builds(k, d)) /\ (IsFirstLib(k, d)' <=> IsFirstLib(k, d))
      BY <2>1 DEF Builds, IsFirstLib
    <3>2. CASE d = c
      <4>1. cells'[d] = file
        BY <1>1, <2>1, <3>2
      <4> QED BY <1>2, <2>1, <3>1, <3>2, <4>1 DEF LookedUp
    <3>3. CASE d # c
      <4>1. cells'[d] = cells[d]
        BY <1>1, <2>1, <3>3
      <4>2. LookedUp(d)
        BY <1>0, <1>1, <2>4, <3>3 DEF LinkInv, NeededAreLookedUp
      <4> QED BY <2>1, <3>1, <4>1, <4>2 DEF LookedUp
    <3> QED BY <3>2, <3>3
  <2>5. NeededAreLookedUp'
    BY <1>1, <2>1, <2>4 DEF NeededAreLookedUp
  <2> QED BY <2>2, <2>3, <2>5 DEF LinkInv
<1>3. ASSUME NEW c \in todo, NEW k \in 1 .. Len(libs), IsFirstLib(k, c),
             <<libs[k].file, c>> \in Unusable, Stop("UnusableCell")
      PROVE  LinkInv'
  <2>1. /\ error' = "UnusableCell"
        /\ UNCHANGED <<readers, tasks, futures, libs, cells, needed, phase, i, todo, links>>
    BY <1>3 DEF Stop
  <2>2. c \in needed \cap libs[k].cells
    BY <1>1, <1>3 DEF IsFirstLib, Builds
  <2>3. GoesWrongForCause'
    BY <1>1, <1>3, <2>1, <2>2 DEF GoesWrongForCause
  <2>4. TreesHaveReasons' /\ LibsFollowReaders' /\ LinksAreCounted' /\ BuiltAsNeeded' /\ NeededAreLookedUp'
    BY <1>0, <2>1 DEF LinkInv, TreesHaveReasons, LibsFollowReaders, LinksAreCounted,
       BuiltAsNeeded, NeededAreLookedUp, Built, Walks, LookedUp, Builds, IsFirstLib
  <2> QED BY <2>3, <2>4 DEF LinkInv
<1>4. PICK c \in todo :
        \/ (\A k \in 1 .. Len(libs) : ~Builds(k, c)) /\ Found(c, None)
        \/ \E k \in 1 .. Len(libs) :
             /\ IsFirstLib(k, c)
             /\ IF <<libs[k].file, c>> \in Unusable THEN Stop("UnusableCell")
                                                   ELSE Found(c, libs[k].file)
  BY DEF build_cell
<1>5. CASE (\A k \in 1 .. Len(libs) : ~Builds(k, c)) /\ Found(c, None)
  BY <1>2, <1>5
<1>6. CASE \E k \in 1 .. Len(libs) :
             /\ IsFirstLib(k, c)
             /\ IF <<libs[k].file, c>> \in Unusable THEN Stop("UnusableCell")
                                                   ELSE Found(c, libs[k].file)
  <2>1. PICK k \in 1 .. Len(libs) :
             /\ IsFirstLib(k, c)
             /\ IF <<libs[k].file, c>> \in Unusable THEN Stop("UnusableCell")
                                                   ELSE Found(c, libs[k].file)
    BY <1>6
  <2>2. Builds(k, c)
    BY <2>1 DEF IsFirstLib
  <2> QED BY <1>2, <1>3, <2>1, <2>2
<1> QED BY <1>4, <1>5, <1>6

\* The steps between the loops leave readers and libraries alone, until the end.
LEMMA LoopLink ==
  ASSUME IInv, error = None,
         get_future \/ got_futures \/ linked_readers \/ built_cells \/ destroy_readers
           \/ call_link_lib \/ exit
  PROVE  LinkInv'
<1>0. TasksInv /\ LinkInv /\ TypeOK /\ TasksHaveEnded
  BY DEF IInv, TasksInv
<1>1. Len(readers) \in Nat /\ Len(libs) \in Nat /\ links \in Nat /\ i \in Nat
  BY <1>0 DEF TypeOK
<1>2. GoesWrongForCause'
  <2>1. error' = error /\ phase' # "thrown"
    BY DEF get_future, got_futures, linked_readers, built_cells, destroy_readers, call_link_lib, exit, Goto
  <2> QED BY <2>1, StaysForCause
<1>3. CASE destroy_readers \/ exit
  <2>1. phase' \in {"exit", "gone"}
    BY <1>3 DEF destroy_readers, exit, Goto
  <2>2. TreesHaveReasons'
    <3>1. CASE destroy_readers
      BY <3>1, EmptySeq DEF destroy_readers, TreesHaveReasons
    <3>2. CASE exit
      BY <1>0, <3>2 DEF exit, LinkInv, TreesHaveReasons
    <3> QED BY <1>3, <3>1, <3>2
  <2>3. LibsFollowReaders' /\ LinksAreCounted' /\ BuiltAsNeeded' /\ NeededAreLookedUp'
    BY <2>1 DEF LibsFollowReaders, LinksAreCounted, BuiltAsNeeded, NeededAreLookedUp
  <2> QED BY <1>2, <2>2, <2>3 DEF LinkInv
<1>4. CASE get_future
  <2>1. /\ phase \in {"wait", "exit"} /\ i' = i + 1
        /\ UNCHANGED <<readers, tasks, libs, cells, needed, phase, todo, links>>
    BY <1>4 DEF get_future
  <2> QED BY <1>0, <1>2, <2>1 DEF LinkInv, TreesHaveReasons, LibsFollowReaders, LinksAreCounted,
          BuiltAsNeeded, NeededAreLookedUp
<1>5. CASE call_link_lib
  <2>1. /\ phase \in {"idle", "thrown"} /\ phase' = "wait" /\ links' = links + 1
        /\ UNCHANGED <<readers, tasks, libs, todo>>
    BY <1>5 DEF call_link_lib, Goto, AtUser
  <2>2. TreesHaveReasons' /\ LibsFollowReaders'
    BY <1>0, <2>1 DEF LinkInv, TreesHaveReasons, LibsFollowReaders
  <2>3. LinksAreCounted' /\ BuiltAsNeeded' /\ NeededAreLookedUp'
    BY <1>0, <1>1, <2>1 DEF LinkInv, LinksAreCounted, BuiltAsNeeded, NeededAreLookedUp
  <2> QED BY <1>2, <2>2, <2>3 DEF LinkInv
<1>6. CASE got_futures
  <2>1. /\ phase = "wait" /\ phase' = "link" /\ i' = 1
        /\ UNCHANGED <<readers, tasks, libs, todo, links>>
    BY <1>6 DEF got_futures, Goto
  <2> QED BY <1>0, <1>1, <1>2, <2>1 DEF LinkInv, TreesHaveReasons, LibsFollowReaders, LinksAreCounted,
          BuiltAsNeeded, NeededAreLookedUp
<1>7. CASE linked_readers
  <2>1. /\ phase = "link" /\ i > Len(readers) /\ phase' = "select" /\ i' = 1 /\ todo' = needed
        /\ UNCHANGED <<readers, tasks, libs, cells, needed, links>>
    BY <1>7 DEF linked_readers, Goto
  <2>2. TreesHaveReasons' /\ LibsFollowReaders'
    BY <1>0, <2>1 DEF LinkInv, TreesHaveReasons, LibsFollowReaders
  <2>3. LinksAreCounted' /\ NeededAreLookedUp'
    BY <1>0, <2>1 DEF LinkInv, LinksAreCounted, NeededAreLookedUp
  <2>4. \A k \in 1 .. Len(libs) : /\ libs[k].cells = Built(libs[k].file)
                                   /\ libs[k].file \notin Foreign \cup Throwing
                                   /\ ~Walks(libs[k].file, Faulty)
    <3>1. CASE i > 1
      BY <1>0, <2>1, <3>1 DEF LinkInv, BuiltAsNeeded
    <3>2. CASE i <= 1
      <4>1. Len(libs) <= Len(readers)
        BY <1>0, <2>1 DEF LinkInv, LibsFollowReaders
      <4> QED BY <1>1, <2>1, <3>2, <4>1
    <3> QED BY <1>1, <3>1, <3>2
  <2>5. BuiltAsNeeded'
    BY <2>1, <2>4 DEF BuiltAsNeeded, Built, Walks
  <2> QED BY <1>2, <2>2, <2>3, <2>5 DEF LinkInv
<1>8. CASE built_cells
  <2>1. /\ phase = "select" /\ todo = {} /\ phase' = "idle"
        /\ UNCHANGED <<readers, tasks, libs, cells, needed, todo, links>>
    BY <1>8 DEF built_cells, Goto
  <2>2. TreesHaveReasons' /\ LibsFollowReaders' /\ LinksAreCounted'
    BY <1>0, <2>1 DEF LinkInv, TreesHaveReasons, LibsFollowReaders, LinksAreCounted
  <2>3. BuiltAsNeeded' /\ NeededAreLookedUp'
    BY <1>0, <2>1 DEF LinkInv, BuiltAsNeeded, NeededAreLookedUp, Built, Walks, LookedUp, Builds, IsFirstLib
  <2> QED BY <1>2, <2>2, <2>3 DEF LinkInv
<1> QED BY <1>3, <1>4, <1>5, <1>6, <1>7, <1>8

LEMMA StepLink == ASSUME IInv, [Next]_vars PROVE LinkInv'
<1>1. CASE UNCHANGED vars
  <2>1. UNCHANGED <<readers, tasks, futures, libs, cells, needed, phase, i, todo, links, error>>
    BY <1>1 DEF vars
  <2>2. TreesHaveReasons' /\ LibsFollowReaders' /\ LinksAreCounted' /\ BuiltAsNeeded' /\ NeededAreLookedUp'
    BY <2>1 DEF IInv, LinkInv, TreesHaveReasons, LibsFollowReaders, LinksAreCounted,
       BuiltAsNeeded, NeededAreLookedUp, Built, Walks, LookedUp, Builds, IsFirstLib
  <2>3. GoesWrongForCause'
    BY <2>1 DEF IInv, LinkInv, GoesWrongForCause, Walks, Built
  <2> QED BY <2>2, <2>3 DEF LinkInv
<1> QED BY <1>1, ReadLink, TaskLink, ReaderLink, CellLink, LoopLink DEF Next, Call

-----------------------------------------------------------------------------
\* The invariant that ties every running task to a future (LibertyParser).
THEOREM Inductive == Spec => []IInv
<1>1. Init => IInv
  BY InitTasks, InitLink DEF IInv
<1>2. IInv /\ [Next]_vars => IInv'
  BY StepTasks, StepLink DEF IInv
<1> QED BY <1>1, <1>2, PTL DEF Spec

\* No syntax tree is walked or destroyed while a task may still write it
\* (link_lib, the destructor of LibertyParser).
THEOREM NoTaskIsOvertaken == Spec => []TasksHaveEnded
<1>1. IInv => TasksHaveEnded
  BY DEF IInv, TasksInv
<1> QED BY <1>1, Inductive, PTL

\* Whatever the files, the order the tasks end in and the order the hash set is
\* walked in, a cell is taken from the first file read that has it
\* (LibertyParser::link_lib).
THEOREM FirstFileIsTaken == Spec => []FirstFileWins
<1>1. ASSUME IInv PROVE FirstFileWins
  <2> SUFFICES ASSUME phase = "idle", links > 0, NEW c \in needed
               PROVE  LET having == {k \in 1 .. Len(readers) : readers[k].tree = "freed" /\ c \in CellsOf[readers[k].file]}
                      IN IF having = {} THEN cells[c] = None
                         ELSE \E k \in having : (\A l \in having : k <= l) /\ cells[c] = readers[k].file
    BY DEF FirstFileWins
  <2> DEFINE having == {k \in 1 .. Len(readers) : readers[k].tree = "freed" /\ c \in CellsOf[readers[k].file]}
  <2>1. TypeOK /\ LinkInv
    BY <1>1 DEF IInv, TasksInv
  <2>2. Len(readers) \in Nat /\ Len(libs) \in Nat /\ Len(libs) <= Len(readers)
    BY <2>1 DEF TypeOK, LinkInv, LibsFollowReaders
  <2>3. LookedUp(c)
    BY <2>1 DEF LinkInv, NeededAreLookedUp
  <2>4. \A k \in 1 .. Len(libs) : Builds(k, c) <=> c \in CellsOf[libs[k].file]
    BY <2>1 DEF LinkInv, BuiltAsNeeded, Built, Builds
  <2>5. \A k \in 1 .. Len(readers) :
          /\ readers[k].tree = "freed" <=> k <= Len(libs)
          /\ k <= Len(libs) => libs[k].file = readers[k].file
    BY <2>1 DEF LinkInv, LibsFollowReaders
  <2>6. \A k : k \in having <=> k \in 1 .. Len(libs) /\ Builds(k, c)
    BY <2>2, <2>4, <2>5
  <2>7. \A k \in having : k \in 1 .. Len(libs) /\ libs[k].file = readers[k].file
    BY <2>2, <2>5
  <2> HIDE DEF having
  <2>8. CASE having = {}
    BY <2>3, <2>6, <2>8 DEF LookedUp, having
  <2>9. CASE having # {}
    <3>1. PICK k \in 1 .. Len(libs) : IsFirstLib(k, c) /\ cells[c] = libs[k].file
      BY <2>3, <2>6, <2>9 DEF LookedUp
    <3>2. k \in having /\ cells[c] = readers[k].file
      BY <2>6, <2>7, <3>1 DEF IsFirstLib
    <3>3. ASSUME NEW l \in having PROVE k <= l
      BY <2>2, <2>6, <3>1, <3>3 DEF IsFirstLib
    <3> QED BY <2>9, <3>2, <3>3 DEF having
  <2> QED BY <2>8, <2>9
<1> QED BY <1>1, Inductive, PTL

\* link_lib ends the program or throws over a fault of a file it walks, a cell that
\* cannot be converted or a second call only, and comes back only when what it
\* walked and converted has none (LibertyParser::link_lib, RustLibertyReader::linkLib).
THEOREM LinkFailsForCause == Spec => []FailsForCause
<1>1. ASSUME IInv PROVE FailsForCause
  <2>1. TypeOK /\ LinkInv
    BY <1>1 DEF IInv, TasksInv
  <2>2. ASSUME phase = "idle", links > 0
        PROVE  /\ \A k \in 1 .. Len(readers) : readers[k].tree = "freed" =>
                    readers[k].file \notin Foreign \cup Throwing /\ ~Walks(readers[k].file, Faulty)
               /\ \A c \in needed : <<cells[c], c>> \notin Unusable
    <3>1. ASSUME NEW k \in 1 .. Len(readers), readers[k].tree = "freed"
          PROVE  readers[k].file \notin Foreign \cup Throwing /\ ~Walks(readers[k].file, Faulty)
      <4>1. k \in 1 .. Len(libs) /\ libs[k].file = readers[k].file
        BY <2>1, <2>2, <3>1 DEF LinkInv, LibsFollowReaders, TypeOK
      <4> QED BY <2>1, <2>2, <4>1 DEF LinkInv, BuiltAsNeeded
    <3>2. ASSUME NEW c \in needed PROVE <<cells[c], c>> \notin Unusable
      <4>1. LookedUp(c)
        BY <2>1, <2>2 DEF LinkInv, NeededAreLookedUp
      <4>2. <<None, c>> \notin Unusable
        BY FileAssumption
      <4> QED BY <4>1, <4>2 DEF LookedUp
    <3> QED BY <3>1, <3>2
  <2> QED BY <2>1, <2>2 DEF FailsForCause, LinkInv, ComesBackFaultless
<1> QED BY <1>1, Inductive, PTL
=============================================================================
