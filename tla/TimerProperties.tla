--------------------------- MODULE TimerProperties ---------------------------
(***************************************************************************)
(* Timer held against its abstract specification, and its liveness.        *)
(* StaProofs proves the first, with the inductive invariant at the end of  *)
(* this module; the liveness is checked by TLC.                            *)
(***************************************************************************)
EXTENDS TimerSettled, StaTables

STA == INSTANCE Sta WITH reports <- report_cache

\* Timer implements Sta: every report it ever caches is the report of the
\* circuit, one worst path for each end point over all paths of the graph,
\* whichever passes, reports and updates ran before (build_report_cache).
ImplementsSta == STA!Spec

\* Every call returns: no pass, no report and no walk back runs forever.
CallsReturn == phase # "idle" ~> phase = "idle"

-----------------------------------------------------------------------------
(***************************************************************************)
(* The inductive invariant of the refinement: each pass of the first       *)
(* update makes its table the one of StaTables, and what is traced back    *)
(* is a path of Sta.                                                       *)
(***************************************************************************)
\* The first update is in one of the passes of S or not called yet.
Before(S) == calls = 0 \/ (First /\ phase \in S)

\* The shell reports after an update only, so each pass meets its table as
\* the constructors left it.
TablesWait ==
  /\ calls = 0 => phase = "idle"
  /\ Before({"capacitance"}) =>
       slew = [k \in PinKeys |-> IF is_primary_input(k[1]) \/ is_primary_output(k[1]) THEN 0 ELSE None]
  /\ Before({"capacitance", "slew"}) => delay = [k \in ArcKeys |-> None]
  /\ Before({"capacitance", "slew", "delay"}) =>
       arrival_time = [k \in PinKeys |-> IF is_primary_input(k[1]) THEN 0 ELSE None]
  /\ Before({"capacitance", "slew", "delay", "arrival", "outputs"}) =>
       request_arrival_time = [k \in PinKeys |-> None]

PortsKeepLoads ==
  \A k \in PinKeys : IsLoadPin(k[1]) \/ k[1] \notin Reached => capacitance[k] = port_capacitance[k]

\* Each value there is comes along an arc from a pin the pass has come to; a
\* port, which starts from 0, has 0 or what is worse.
IsPort(p) == is_primary_input(p) \/ is_primary_output(p)
PortsFromZero == \A k \in PinKeys : IsPort(k[1]) => slew[k] # None /\ ~ Replaces(k[2], 0, slew[k])
SlewsCome ==
  \A k \in PinKeys : slew[k] # None =>
    \/ IsPort(k[1]) /\ slew[k] = 0
    \/ \E i \in 1 .. Len(order), a \in Arcs, f \in Edges :
         /\ i <= pos /\ from_pin[a] = order[i] /\ to_pin[a] = k[1]
         /\ is_clock_edge_valid(a, f, k[3])
         /\ slew[From(a, k[2], f)] # None /\ slew_lut[<<a, k[3]>>] # None
         /\ slew[k] = get_value(slew_lut[<<a, k[3]>>], slew[From(a, k[2], f)], capacitance[k])
DelaysCome ==
  \A a \in Arcs, m \in Modes, f \in Edges, t \in Edges : delay[<<a, m, f, t>>] # None =>
    /\ \E i \in 1 .. Len(order) : from_pin[a] = order[i]
    /\ is_clock_edge_valid(a, f, t)
    /\ slew[From(a, m, f)] # None /\ delay_lut[<<a, t>>] # None
    /\ delay[<<a, m, f, t>>] =
         get_value(delay_lut[<<a, t>>], slew[From(a, m, f)], capacitance[To(a, m, t)])
ArrivalsCome ==
  \A k \in PinKeys : arrival_time[k] # None /\ ~ is_primary_input(k[1]) =>
    \E i \in 1 .. Len(order), a \in Arcs, f \in Edges :
      /\ i <= pos /\ from_pin[a] = order[i] /\ to_pin[a] = k[1]
      /\ arrival_time[From(a, k[2], f)] # None /\ delay[<<a, k[2], f, k[3]>>] # None
      /\ arrival_time[k] = arrival_time[From(a, k[2], f)] + delay[<<a, k[2], f, k[3]>>]
RequestsCome ==
  \A k \in PinKeys : request_arrival_time[k] # None =>
    \/ is_primary_output(k[1]) /\ request_arrival_time[k] = ClockCycle + ClockRiseAt
    \/ \E i \in 1 .. Len(constraint_arcs), f \in Edges :
         LET a == constraint_arcs[i] IN
         /\ to_pin[a] = k[1] /\ Constrains(a, k[2], f, k[3])
         /\ request_arrival_time[k] = arrival_time[From(a, k[2], f)] + Constraint(a, f, k[3])

\* The tables, each from the pass on that fills it.
TablesRight ==
  /\ Past({"capacitance"}) => capacitance = Load
  /\ phase = "slew" /\ First => PortsFromZero /\ SlewsCome
  /\ Past({"capacitance", "slew"}) => slew = WorstSlew
  /\ phase = "delay" /\ First => DelaysCome
  /\ Past({"capacitance", "slew", "delay"}) => delay = ArcDelay
  /\ phase = "arrival" /\ First => ArrivalsCome
  /\ phase \in {"outputs", "request"} /\ First => arrival_time = Arrival["ALL"]
  /\ phase = "request" /\ First => RequestsCome
  /\ Updated => request_arrival_time = Required

-----------------------------------------------------------------------------
\* The reports: the clock is known when one is made,
ClockKnown ==
  /\ clock_pin \in {None, DeducedClock}
  /\ phase \in {"report", "collect", "walk"} => clock_pin = DeducedClock

\* the path being traced back, with its present hop, leads to the end point it
\* was begun at and does not go on through a start pin that is left out,
Traced ==
  [slack |-> walk.slack,
   hops |-> <<[pin |-> walk.pin, edge |-> walk.edge, at |-> WalkAt, slew |-> WalkSlew]>> \o walk.hops]
WalkRight ==
  phase = "walk" =>
    /\ STA!LeadsToEnd(start_type, Groups[group][1], Groups[group][2], Traced)
    /\ STA!End(Traced).pin \notin end_points
    /\ \A r \in paths : STA!End(r).pin # STA!End(Traced).pin
    /\ walk.hops # << >> => ~ should_skip_start_pin(walk.pin)

\* and of the end points looked at exactly those are done that must be reported.
PathsRight ==
  phase \in {"collect", "walk"} =>
    /\ \A r \in paths : /\ STA!IsWorstPath(start_type, Groups[group][1], Groups[group][2], r)
                        /\ STA!End(r).pin \notin end_points
    /\ \A r, s \in paths : STA!End(r).pin = STA!End(s).pin => r = s
    /\ \A p \in STA!Reported(start_type, Groups[group][1], Groups[group][2]) \ end_points :
         \/ \E r \in paths : STA!End(r).pin = p
         \/ phase = "walk" /\ STA!End(Traced).pin = p

ExactInv ==
  TablesWait /\ PortsKeepLoads /\ TablesRight /\ ClockKnown /\ WalkRight /\ PathsRight
=============================================================================
