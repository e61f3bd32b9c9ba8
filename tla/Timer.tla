-------------------------------- MODULE Timer --------------------------------
(***************************************************************************)
(* Timer: the passes over the timing graph that compute capacitance, slew, *)
(* delay, arrival time and request arrival time, and the path reports.     *)
(*                                                                         *)
(* One step of a pass is one Arc::propagate_* call, the innermost call of  *)
(* the nested loops "for pin in toposort, for (el, frf, trf), for arc in   *)
(* fanout"; `pos', `combo' and `hop' are the loop counters.  Between two   *)
(* calls (phase "idle") the client decides what to call next.              *)
(***************************************************************************)
EXTENDS Circuit

CONSTANTS
  Client,       \* "shell", "python" or "library": who calls Timer
  MaxCalls      \* bound: updates, single passes and resets called

ASSUME ClientAssumption ==
  /\ Client \in {"shell", "python", "library"}
  /\ MaxCalls \in Nat

VARIABLES
  order,                 \* CircuitBuilder::toposorted_pins
  capacitance, slew,     \* Pin::_capacitance, Pin::_slew
  delay,                 \* Arc::_delay
  arrival_time,          \* Pin::_arrival_time
  request_arrival_time,  \* Pin::_request_arrival_time
  predecessor,           \* Pin::_predecessor
  clock_pin,             \* Timer::_clock_pin
  report_cache,          \* Timer::_report_cache, by the keys that have a value
  phase,                 \* the method Timer executes, "idle" between calls
  updating,              \* that method is part of update_timing
  pos, combo, hop,       \* counters of the nested loops
  total,                 \* total_capacitance in Pin::update_capacitance
  start_type,            \* argument of the report being built
  group,                 \* index into Groups of the report being built
  end_points,            \* end points of the group not looked at yet
  walk,                  \* the path being traced back in collect_paths
  paths,                 \* paths already collected for the group
  calls                  \* number of calls counted against MaxCalls

values == <<capacitance, slew, delay, request_arrival_time>>
arrivals == <<arrival_time, predecessor>>
loop == <<pos, combo, hop>>
report == <<start_type, group, end_points, walk, paths>>
timer == <<clock_pin, report_cache>>
vars == <<order, values, arrivals, timer, phase, updating, loop, total, report, calls>>

StartTypes == {"IN", "REG"}
EndTypes == {"REG", "OUT"}
\* The order in which build_report_cache fills the cache of one start type.
Groups == << <<"MAX", "REG">>, <<"MAX", "OUT">>, <<"MIN", "REG">>, <<"MIN", "OUT">> >>
ReportKeys == StartTypes \X Modes \X EndTypes
EmptyCache == [r \in {} |-> {}]
EndPoints == {p \in Pins : fanout[p] = << >>}

PathHop == [pin : Pins, edge : Edges, at : Int, slew : Int]
ReportedPath == [slack : Int, hops : Seq(PathHop)]
WalkStates == [pin : Pins, edge : Edges, slack : Int, hops : Seq(PathHop)]
NoWalk == [pin |-> None, edge |-> None, slack |-> 0, hops |-> << >>]

Passes == {"capacitance", "slew", "delay", "arrival", "outputs", "request"}
Phases == Passes \cup {"idle", "report", "collect", "walk", "aborted"}
\* A faulty order: the slews are forgotten.
NextPass_NoSlew == [capacitance |-> "delay", delay |-> "arrival",
                    arrival |-> "outputs", outputs |-> "request", request |-> "idle"]
\* update_timing runs the passes in this order; "outputs" and "request" are
\* the two loops of propagate_request_arrival_time.
NextPass == [capacitance |-> "slew", slew |-> "delay", delay |-> "arrival",
             arrival |-> "outputs", outputs |-> "request", request |-> "idle"]

AtArcs == pos <= Len(order) /\ hop <= Len(fanout[order[pos]])
ThisPin == order[pos]
ThisArc == fanout[order[pos]][hop]

Init ==
  /\ order \in Toposorts
  /\ capacitance = port_capacitance
  /\ slew = [k \in PinKeys |->
       IF is_primary_input(k[1]) \/ is_primary_output(k[1]) THEN 0 ELSE None]
  /\ delay = [k \in ArcKeys |-> None]
  /\ arrival_time = [k \in PinKeys |-> IF is_primary_input(k[1]) THEN 0 ELSE None]
  /\ request_arrival_time = [k \in PinKeys |-> None]
  /\ predecessor = [k \in PinKeys |-> None]
  /\ clock_pin = None
  /\ report_cache = EmptyCache
  /\ phase = "idle" /\ updating = FALSE
  /\ pos = 1 /\ combo = 1 /\ hop = 1 /\ total = 0
  /\ start_type = "IN" /\ group = 1 /\ end_points = {} /\ walk = NoWalk /\ paths = {}
  /\ calls = 0

-----------------------------------------------------------------------------
(***************************************************************************)
(* Loop control.                                                           *)
(***************************************************************************)
StartLoop == pos' = 1 /\ combo' = 1 /\ hop' = 1
NextArc == hop' = hop + 1 /\ UNCHANGED <<pos, combo>>
NextPin == pos' = pos + 1 /\ combo' = 1 /\ hop' = 1

\* The fanout loop is over: the next of the n combinations, or the next pin.
NextCombo_SamePin(n) == hop' = 1 /\ combo' = (combo % n) + 1 /\ pos' = pos
NextCombo(n) ==
  /\ hop' = 1
  /\ \/ combo < n /\ combo' = combo + 1 /\ pos' = pos
     \/ combo >= n /\ combo' = 1 /\ pos' = pos + 1

\* A pass has visited everything: update_timing goes on with the next pass,
\* a single call returns.
EndPass(p) ==
  /\ phase = p
  /\ phase' = IF updating \/ p = "outputs" THEN NextPass[p] ELSE "idle"
  /\ updating' = (updating /\ p # "request")
  /\ StartLoop

-----------------------------------------------------------------------------
(***************************************************************************)
(* update_capacitance                                                      *)
(***************************************************************************)
IsLoadPin(p) == pin_type[p] \in {"INPUT", "PRIMARY_OUTPUT"}

\* A load pin keeps the capacitance of its library port.
skip_load_pin ==
  /\ phase = "capacitance" /\ pos <= Len(order) /\ IsLoadPin(ThisPin)
  /\ NextPin
  /\ UNCHANGED <<order, values, arrivals, timer, phase, updating, total, report, calls>>

\* Arc::_capacitance is 0 throughout: nothing calls Arc::set_capacitance.
add_capacitance ==
  /\ phase = "capacitance" /\ AtArcs /\ ~ IsLoadPin(ThisPin)
  /\ LET el == EL_RF[combo][1]  rf == EL_RF[combo][2] IN
       total' = total + capacitance[To(ThisArc, el, rf)]
  /\ NextArc
  /\ UNCHANGED <<order, values, arrivals, timer, phase, updating, report, calls>>

set_capacitance ==
  /\ phase = "capacitance" /\ pos <= Len(order) /\ ~ AtArcs /\ ~ IsLoadPin(ThisPin)
  /\ LET el == EL_RF[combo][1]  rf == EL_RF[combo][2] IN
       capacitance' = [capacitance EXCEPT ![<<ThisPin, el, rf>>] = total]
  /\ total' = 0
  /\ NextCombo(Len(EL_RF))
  /\ UNCHANGED <<order, slew, delay, request_arrival_time, arrivals, timer,
                 phase, updating, report, calls>>

-----------------------------------------------------------------------------
(***************************************************************************)
(* propagate_slew, propagate_delay and propagate_arrival_time              *)
(***************************************************************************)
\* Arc::propagate_slew with Arc::calc_slew and Pin::update_slew.
propagate_slew ==
  /\ phase = "slew" /\ AtArcs
  /\ LET a == ThisArc
         el == EL_FRF_TRF[combo][1]  frf == EL_FRF_TRF[combo][2]  trf == EL_FRF_TRF[combo][3]
         from == From(a, el, frf)  to == To(a, el, trf)
         new == get_value(slew_lut[<<a, trf>>], slew[from], capacitance[to])
     IN slew' = IF /\ is_clock_edge_valid(a, frf, trf)
                   /\ slew[from] # None
                   /\ slew_lut[<<a, trf>>] # None
                   /\ Replaces(el, new, slew[to])
                THEN [slew EXCEPT ![to] = new]
                ELSE slew
  /\ NextArc
  /\ UNCHANGED <<order, capacitance, delay, request_arrival_time, arrivals, timer,
                 phase, updating, total, report, calls>>

\* Arc::propagate_delay with Arc::calc_delay and Arc::update_delay.
propagate_delay ==
  /\ phase = "delay" /\ AtArcs
  /\ LET a == ThisArc
         el == EL_FRF_TRF[combo][1]  frf == EL_FRF_TRF[combo][2]  trf == EL_FRF_TRF[combo][3]
         from == From(a, el, frf)  to == To(a, el, trf)  at == <<a, el, frf, trf>>
         new == get_value(delay_lut[<<a, trf>>], slew[from], capacitance[to])
     IN delay' = IF /\ is_clock_edge_valid(a, frf, trf)
                    /\ slew[from] # None
                    /\ delay_lut[<<a, trf>>] # None
                    /\ Replaces(el, new, delay[at])
                 THEN [delay EXCEPT ![at] = new]
                 ELSE delay
  /\ NextArc
  /\ UNCHANGED <<order, capacitance, slew, request_arrival_time, arrivals, timer,
                 phase, updating, total, report, calls>>

\* should_skip_start_pin: a report from the inputs leaves out the clock, a
\* report from the registers every other input.
should_skip_start_pin_KeepClock(p) == start_type = "REG" /\ is_primary_input(p) /\ p # clock_pin
should_skip_start_pin(p) ==
  \/ start_type = "IN" /\ p = clock_pin
  \/ start_type = "REG" /\ is_primary_input(p) /\ p # clock_pin

skip_start_pin ==
  /\ phase = "report" /\ pos <= Len(order) /\ should_skip_start_pin(ThisPin)
  /\ NextPin
  /\ UNCHANGED <<order, values, arrivals, timer, phase, updating, total, report, calls>>

\* Arc::propagate_arrival_time with Pin::update_arrival_time.
propagate_arrival_time ==
  /\ AtArcs
  /\ \/ phase = "arrival"
     \/ phase = "report" /\ ~ should_skip_start_pin(ThisPin)
  /\ LET a == ThisArc
         el == EL_FRF_TRF[combo][1]  frf == EL_FRF_TRF[combo][2]  trf == EL_FRF_TRF[combo][3]
         from == From(a, el, frf)  to == To(a, el, trf)
         new == arrival_time[from] + delay[<<a, el, frf, trf>>]
     IN IF /\ is_clock_edge_valid(a, frf, trf)
           /\ arrival_time[from] # None
           /\ delay[<<a, el, frf, trf>>] # None
           /\ Replaces(el, new, arrival_time[to])
        THEN /\ arrival_time' = [arrival_time EXCEPT ![to] = new]
             /\ predecessor' = [predecessor EXCEPT ![to] = <<frf, a>>]
        ELSE UNCHANGED arrivals
  /\ NextArc
  /\ UNCHANGED <<order, values, timer, phase, updating, total, report, calls>>

\* The fanout of the pin is done for this (el, frf, trf).
EndFanout ==
  /\ pos <= Len(order) /\ ~ AtArcs
  /\ \/ phase \in {"slew", "delay", "arrival"}
     \/ phase = "report" /\ ~ should_skip_start_pin(ThisPin)
  /\ NextCombo(Len(EL_FRF_TRF))
  /\ UNCHANGED <<order, values, arrivals, timer, phase, updating, total, report, calls>>

EndPinPass ==
  /\ pos > Len(order)
  /\ \E p \in {"capacitance", "slew", "delay", "arrival"} : EndPass(p)
  /\ UNCHANGED <<order, values, arrivals, timer, total, report, calls>>

-----------------------------------------------------------------------------
(***************************************************************************)
(* propagate_request_arrival_time                                          *)
(***************************************************************************)
\* Every primary output must be reached by the end of the clock cycle.
set_output_requests ==
  /\ EndPass("outputs")
  /\ request_arrival_time' =
       [k \in PinKeys |-> IF is_primary_output(k[1]) THEN ClockCycle + ClockRiseAt
                                                     ELSE request_arrival_time[k]]
  /\ UNCHANGED <<order, capacitance, slew, delay, arrivals, timer, total, report, calls>>

IsSetup(a) == timing_type[a] \in {"SETUP_RISING", "SETUP_FALLING"}
IsHold(a) == timing_type[a] \in {"HOLD_RISING", "HOLD_FALLING"}
value_or_0(v) == IF v = None THEN 0 ELSE v

\* The arc constrains its to pin in this combination: the early returns of
\* Arc::propagate_request_arrival_time.
Constrains(a, el, frf, trf) ==
  /\ is_clock_edge_valid(a, frf, trf)
  /\ IsSetup(a) => el = "MAX"
  /\ IsHold(a) => el = "MIN"
  /\ arrival_time[From(a, el, frf)] # None

\* The constraint for the slews of one mode: a missing slew counts as 0.
ConstraintValue(a, mode, frf, trf) ==
  get_value(constraint_lut[<<a, trf>>], value_or_0(slew[To(a, mode, trf)]),
                                        value_or_0(slew[From(a, mode, frf)]))

\* The combination of the constraint arc at which the pass stands.
ConstraintArc == constraint_arcs[pos]
AtConstraint == phase = "request" /\ pos <= Len(constraint_arcs)

propagate_request_arrival_time ==
  /\ AtConstraint
  /\ LET a == ConstraintArc
         el == EL_FRF_TRF[combo][1]  frf == EL_FRF_TRF[combo][2]  trf == EL_FRF_TRF[combo][3]
         max_delay == ConstraintValue(a, "MAX", frf, trf)
         min_delay == ConstraintValue(a, "MIN", frf, trf)
         new == arrival_time[From(a, el, frf)]
                  + (IF max_delay < min_delay THEN min_delay ELSE max_delay)
         to == To(a, el, trf)
     IN /\ Constrains(a, el, frf, trf) => constraint_lut[<<a, trf>>] # None
        /\ request_arrival_time' =
             IF /\ Constrains(a, el, frf, trf)
                /\ Replaces(el, new, request_arrival_time[to])
             THEN [request_arrival_time EXCEPT ![to] = new]
             ELSE request_arrival_time
  /\ NextCombo(Len(EL_FRF_TRF))
  /\ UNCHANGED <<order, capacitance, slew, delay, arrivals, timer,
                 phase, updating, total, report, calls>>

\* LOG_ASSERT(max_delay_opt && min_delay_opt): the arc has no constraint
\* table for this edge of its to pin, and the program stops.
abort_no_constraint ==
  /\ AtConstraint
  /\ Constrains(ConstraintArc, EL_FRF_TRF[combo][1], EL_FRF_TRF[combo][2], EL_FRF_TRF[combo][3])
  /\ constraint_lut[<<ConstraintArc, EL_FRF_TRF[combo][3]>>] = None
  /\ phase' = "aborted"
  /\ UNCHANGED <<order, values, arrivals, timer, updating, loop, total, report, calls>>

EndRequestPass ==
  /\ pos > Len(constraint_arcs)
  /\ EndPass("request")
  /\ UNCHANGED <<order, values, arrivals, timer, total, report, calls>>

-----------------------------------------------------------------------------
(***************************************************************************)
(* build_report_cache                                                      *)
(***************************************************************************)
ResetArrivalTimes_KeepEnds ==   \* the end points are forgotten
  arrival_time' = [k \in PinKeys |-> IF is_primary_input(k[1]) THEN 0
                                     ELSE IF k[1] \in EndPoints THEN arrival_time[k] ELSE None]
ResetArrivalTimes_OnlyMax ==    \* only the times of mode MAX are reset
  arrival_time' = [k \in PinKeys |-> IF k[2] = "MIN" THEN arrival_time[k]
                                     ELSE IF is_primary_input(k[1]) THEN 0 ELSE None]
ResetArrivalTimes ==
  arrival_time' = [k \in PinKeys |-> IF is_primary_input(k[1]) THEN 0 ELSE None]

\* The arrival times of one start type are there: collect the first group.
EndReportPass ==
  /\ phase = "report" /\ pos > Len(order)
  /\ phase' = "collect" /\ group' = 1 /\ end_points' = EndPoints /\ paths' = {}
  /\ StartLoop
  /\ UNCHANGED <<order, values, arrivals, timer, updating, total, start_type, walk, calls>>

is_matching_end_point(p, end_type) ==
  \/ end_type = "OUT" /\ is_primary_output(p)
  \/ end_type = "REG" /\ pin_type[p] = "INPUT"

Reportable(p, mode) ==
  \A e \in Edges : /\ arrival_time[<<p, mode, e>>] # None
                   /\ request_arrival_time[<<p, mode, e>>] # None

Slack(p, mode, e) ==
  LET k == <<p, mode, e>> IN
  IF mode = "MAX" THEN ClockCycle - request_arrival_time[k] - arrival_time[k]
                  ELSE arrival_time[k] - request_arrival_time[k]

\* The edge reported for an end point: the one with less slack, the falling
\* one when both have the same.
WorstEdge_Better(p, mode) ==
  IF Slack(p, mode, "RISING") > Slack(p, mode, "FALLING") THEN "RISING" ELSE "FALLING"
WorstEdge(p, mode) ==
  IF Slack(p, mode, "RISING") < Slack(p, mode, "FALLING") THEN "RISING" ELSE "FALLING"

\* The next end point in the (unspecified) order of the pin table.
skip_end_point ==
  /\ phase = "collect"
  /\ \E p \in end_points :
       /\ ~ (is_matching_end_point(p, Groups[group][2]) /\ Reportable(p, Groups[group][1]))
       /\ end_points' = end_points \ {p}
  /\ UNCHANGED <<order, values, arrivals, timer, phase, updating, loop, total,
                 start_type, group, walk, paths, calls>>

start_walk ==
  /\ phase = "collect"
  /\ \E p \in end_points :
       LET mode == Groups[group][1]  e == WorstEdge(p, mode) IN
       /\ is_matching_end_point(p, Groups[group][2]) /\ Reportable(p, mode)
       /\ end_points' = end_points \ {p}
       /\ walk' = [pin |-> p, edge |-> e, slack |-> Slack(p, mode, e), hops |-> << >>]
  /\ phase' = "walk"
  /\ UNCHANGED <<order, values, arrivals, timer, updating, loop, total,
                 start_type, group, paths, calls>>

WalkKey == <<walk.pin, Groups[group][1], walk.edge>>
WalkAt == arrival_time[WalkKey]
WalkSlew == slew[WalkKey]
WalkPredecessor == predecessor[WalkKey]
PredecessorPin_To == to_pin[WalkPredecessor[2]]   \* the wrong end of the arc
PredecessorPin == from_pin[WalkPredecessor[2]]

\* One turn of the while loop; the path is reversed at its end in the code,
\* so it is built from its end here.
walk_step ==
  /\ phase = "walk" /\ WalkAt # None /\ WalkSlew # None
  /\ LET hops == << [pin |-> walk.pin, edge |-> walk.edge, at |-> WalkAt, slew |-> WalkSlew] >>
                   \o walk.hops
     IN IF WalkPredecessor = None
        THEN /\ paths' = paths \cup {[slack |-> walk.slack, hops |-> hops]}
             /\ walk' = NoWalk
             /\ phase' = "collect"
        ELSE /\ walk' = [walk EXCEPT !.edge = WalkPredecessor[1],
                                     !.pin = PredecessorPin,
                                     !.hops = hops]
             /\ UNCHANGED <<paths, phase>>
  /\ UNCHANGED <<order, values, arrivals, timer, updating, loop, total,
                 start_type, group, end_points, calls>>

\* LOG_ASSERT(arrival_time) or LOG_ASSERT(slew) fails.
abort_walk ==
  /\ phase = "walk" /\ (WalkAt = None \/ WalkSlew = None)
  /\ phase' = "aborted"
  /\ UNCHANGED <<order, values, arrivals, timer, updating, loop, total, report, calls>>

EndGroup ==
  /\ phase = "collect" /\ end_points = {}
  /\ LET key == <<start_type, Groups[group][1], Groups[group][2]>> IN
       report_cache' = [r \in DOMAIN report_cache \cup {key} |->
                          IF r = key THEN paths ELSE report_cache[r]]
  /\ paths' = {}
  /\ \/ /\ group < Len(Groups)
        /\ group' = group + 1 /\ end_points' = EndPoints /\ phase' = phase
     \/ /\ group = Len(Groups)
        /\ group' = 1 /\ end_points' = {} /\ phase' = "idle"
  /\ UNCHANGED <<order, values, arrivals, clock_pin, updating, loop, total,
                 start_type, walk, calls>>

-----------------------------------------------------------------------------
(***************************************************************************)
(* The calls of the client.                                                *)
(***************************************************************************)
Called ==
  /\ phase = "idle" /\ calls < MaxCalls
  /\ calls' = calls + 1

\* The shell makes a new Timer for every update, pySTA keeps its only one.
update_timing ==
  /\ Called
  /\ phase' = "capacitance" /\ updating' = TRUE
  /\ IF Client = "shell" THEN clock_pin' = None /\ report_cache' = EmptyCache
                         ELSE UNCHANGED timer
  /\ UNCHANGED <<order, values, arrivals, loop, total, report>>

\* A program linked with the library may call each public method alone.
call_pass ==
  /\ Client = "library" /\ Called
  /\ phase' \in Passes \ {"request"}
  /\ UNCHANGED <<order, values, arrivals, timer, updating, loop, total, report>>

reset_arrival_time ==
  /\ Client = "library" /\ Called
  /\ ResetArrivalTimes
  /\ UNCHANGED <<order, values, predecessor, timer, phase, updating, loop, total, report>>

reset_request_arrival_time ==
  /\ Client = "library" /\ Called
  /\ request_arrival_time' = [k \in PinKeys |-> None]
  /\ UNCHANGED <<order, capacitance, slew, delay, arrivals, timer, phase, updating,
                 loop, total, report>>

InCache_Never(s) == FALSE   \* a report is built for every call
InCache(s) == <<s, "MAX", "REG">> \in DOMAIN report_cache

\* report_timing up to the loop over the pins.  The shell has no Timer
\* before its first update; a start type that is in the cache is returned.
report_timing(s) ==
  /\ phase = "idle"
  /\ Client = "shell" => calls > 0
  /\ clock_pin' = IF clock_pin = None THEN DeducedClock ELSE clock_pin
  /\ IF InCache(s)
     THEN UNCHANGED <<phase, start_type, arrival_time>>
     ELSE phase' = "report" /\ start_type' = s /\ ResetArrivalTimes
  /\ UNCHANGED <<order, values, predecessor, report_cache, updating, loop, total,
                 group, end_points, walk, paths, calls>>

-----------------------------------------------------------------------------
Pass ==
  \/ skip_load_pin \/ add_capacitance \/ set_capacitance
  \/ propagate_slew \/ propagate_delay
  \/ skip_start_pin \/ propagate_arrival_time
  \/ EndFanout \/ EndPinPass
  \/ set_output_requests \/ propagate_request_arrival_time
  \/ abort_no_constraint \/ EndRequestPass

Collect ==
  \/ EndReportPass \/ skip_end_point \/ start_walk \/ walk_step \/ abort_walk \/ EndGroup

ClientCall ==
  \/ update_timing \/ call_pass \/ reset_arrival_time \/ reset_request_arrival_time
  \/ \E s \in StartTypes : report_timing(s)

Next == Pass \/ Collect \/ ClientCall

Spec == Init /\ [][Next]_vars

\* The calls run on the client's own thread: once made, they run on.
FairSpec == Spec /\ WF_vars(Pass \/ Collect)
=============================================================================
