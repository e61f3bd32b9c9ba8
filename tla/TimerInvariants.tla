--------------------------- MODULE TimerInvariants ---------------------------
(***************************************************************************)
(* Invariants of Timer that hold for every circuit, every order the pins   *)
(* may be sorted in and every client.  TLC checks them on the circuits of  *)
(* the MC modules; TimerProofs proves them.                                *)
(***************************************************************************)
EXTENDS Timer

\* Every table holds numbers or nothing, every counter stays in its loop.
TypeOK ==
  /\ order \in Toposorts
  /\ capacitance \in [PinKeys -> Int]
  /\ slew \in [PinKeys -> OptInt]
  /\ delay \in [ArcKeys -> OptInt]
  /\ arrival_time \in [PinKeys -> OptInt]
  /\ request_arrival_time \in [PinKeys -> OptInt]
  /\ predecessor \in [PinKeys -> (Edges \X Arcs) \cup {None}]
  /\ clock_pin \in PrimaryInputs \cup {None}
  /\ DOMAIN report_cache \subseteq ReportKeys
  /\ report_cache \in [DOMAIN report_cache -> SUBSET ReportedPath]
  /\ phase \in Phases
  /\ updating \in BOOLEAN
  /\ pos \in Nat \ {0} /\ combo \in 1 .. 8 /\ hop \in Nat \ {0}
  /\ phase = "capacitance" => combo \in 1 .. 4
  /\ phase \notin Passes \cup {"report", "aborted"} => pos = 1 /\ combo = 1 /\ hop = 1
  /\ total \in Int
  /\ start_type \in StartTypes
  /\ group \in 1 .. 4
  /\ end_points \in SUBSET EndPoints
  /\ paths \in SUBSET ReportedPath
  /\ walk \in WalkStates \cup {NoWalk}
  /\ phase = "walk" => walk \in WalkStates
  /\ calls \in Nat

-----------------------------------------------------------------------------
\* Arc a, fired from edge frf, is why k = <<pin, mode, edge>> has its
\* arrival time.
Explains(a, frf, k) ==
  /\ to_pin[a] = k[1]
  /\ is_clock_edge_valid(a, frf, k[3])
  /\ arrival_time[From(a, k[2], frf)] # None
  /\ delay[<<a, k[2], frf, k[3]>>] # None

\* An arrival time always has an explanation: a pin other than a primary
\* input that has one also has a predecessor, an arc into it whose own from
\* pin has an arrival time.  reset_arrival_time leaves the old predecessors
\* behind, and passes run again and again on the same pins, so a stale
\* predecessor must never be what a set arrival time is traced back along.
ArrivalHasPredecessor ==
  \A k \in PinKeys :
    arrival_time[k] # None /\ ~ is_primary_input(k[1]) =>
      /\ predecessor[k] # None
      /\ Explains(predecessor[k][2], predecessor[k][1], k)

\* A primary input starts every path: it has an arrival time, 0, and never a
\* predecessor.
InputsStartPaths ==
  \A k \in PinKeys : is_primary_input(k[1]) => arrival_time[k] = 0 /\ predecessor[k] = None

\* LOG_ASSERT(arrival_time) in collect_paths never fails: tracing a path
\* back from an end point never meets a pin without an arrival time.
WalkHasArrival == phase = "walk" => WalkAt # None

-----------------------------------------------------------------------------
\* The arc has been given its chance: what it would add to its from pin's
\* arrival time does not beat what its to pin has.
Relaxed(a, mode, frf, trf) ==
  (/\ is_clock_edge_valid(a, frf, trf)
   /\ arrival_time[From(a, mode, frf)] # None
   /\ delay[<<a, mode, frf, trf>>] # None) =>
     ~ Replaces(mode, arrival_time[From(a, mode, frf)] + delay[<<a, mode, frf, trf>>],
                arrival_time[To(a, mode, trf)])

\* No arc out of a pin the report starts from can improve an arrival time.
AllRelaxed ==
  \A i \in 1 .. Len(order), a \in Arcs, m \in Modes, f \in Edges, t \in Edges :
    from_pin[a] = order[i] /\ ~ should_skip_start_pin(order[i]) => Relaxed(a, m, f, t)

\* An arrival time is exactly its predecessor's plus the arc's delay, and the
\* predecessor is a pin the report may go through.
Tight(k) ==
  LET f == predecessor[k][1]  a == predecessor[k][2] IN
  /\ predecessor[k] # None
  /\ Explains(a, f, k)
  /\ ~ should_skip_start_pin(from_pin[a])
  /\ arrival_time[k] = arrival_time[From(a, k[2], f)] + delay[<<a, k[2], f, k[3]>>]

AllTight ==
  \A k \in PinKeys : arrival_time[k] # None /\ ~ is_primary_input(k[1]) => Tight(k)

\* When paths are collected the arrival times solve the longest (MAX) and
\* shortest (MIN) path equations of the graph without the skipped start
\* pins, whatever was computed or called before.  One visit of every pin is
\* enough for that only because the order is topological.
ReportedArrivalsExact == phase \in {"collect", "walk"} => AllRelaxed /\ AllTight

\* A path is traced back strictly against the order of the pins, so it never
\* comes through a pin twice and the loop over predecessors ends.
WalkDescends ==
  phase = "walk" /\ walk.hops # << >> =>
    \E i, j \in 1 .. Len(order) :
      i < j /\ order[i] = walk.pin /\ order[j] = walk.hops[1].pin

\* A report that was returned is not changed under its reader
\* (report_timing returns a reference into the cache).
KeepsReports ==
  report_cache' # EmptyCache =>
    \A r \in DOMAIN report_cache : /\ r \in DOMAIN report_cache'
                                   /\ report_cache'[r] = report_cache[r]
CachedReportsStay == [][KeepsReports]_vars

-----------------------------------------------------------------------------
(***************************************************************************)
(* The rest of the inductive invariant: how far a report has come.         *)
(***************************************************************************)
\* The loop has been at the h-th arc of the i-th pin in combination c.
Visited(i, c, h) == i < pos \/ (i = pos /\ (c < combo \/ (c = combo /\ h < hop)))

VisitedRelaxed ==
  \A i \in 1 .. Len(order), c \in 1 .. 8 : \A h \in 1 .. Len(fanout[order[i]]) :
    Visited(i, c, h) /\ ~ should_skip_start_pin(order[i]) =>
      Relaxed(fanout[order[i]][h], EL_FRF_TRF[c][1], EL_FRF_TRF[c][2], EL_FRF_TRF[c][3])

\* Arrival times come from the first n pins of the order only.
ComesFromFirst(n) ==
  \A k \in PinKeys : arrival_time[k] # None /\ ~ is_primary_input(k[1]) =>
    \E i \in 1 .. Len(order) : i <= n /\ order[i] = from_pin[predecessor[k][2]]

\* While a report computes its arrival times, every arc the loop has passed
\* is relaxed and stays so: the pins it comes from are final.
ReportInProgress ==
  phase = "report" => VisitedRelaxed /\ AllTight /\ ComesFromFirst(pos)

\* Afterwards that covers all arcs.
ReportComplete ==
  phase \in {"collect", "walk"} => AllRelaxed /\ AllTight /\ ComesFromFirst(Len(order))

IsCached(s, g) == <<s, Groups[g][1], Groups[g][2]>> \in DOMAIN report_cache
IsBuilding(s) == s = start_type /\ phase \in {"report", "collect", "walk"}

\* The reports of a start type are cached in the order of Groups, and
\* between calls a start type has all of them or none: a later call is never
\* answered from a cache that is half filled.
CacheFillsInOrder ==
  \A s \in StartTypes, g \in 1 .. 4 :
    /\ IsBuilding(s) => (IsCached(s, g) <=> g < group /\ phase # "report")
    /\ ~ IsBuilding(s) /\ phase # "aborted" => (IsCached(s, g) <=> IsCached(s, 1))

IInv ==
  /\ TypeOK
  /\ ArrivalHasPredecessor
  /\ InputsStartPaths
  /\ WalkHasArrival
  /\ ReportInProgress
  /\ ReportComplete
  /\ WalkDescends
  /\ CacheFillsInOrder
=============================================================================
