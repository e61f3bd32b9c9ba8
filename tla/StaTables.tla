------------------------------- MODULE StaTables -------------------------------
(***************************************************************************)
(* What the tables of the engine are to hold, told from the circuit alone: *)
(* loads as sums over sinks, slews as the worst over the arcs into a pin,  *)
(* arrival times as the worst over ALL paths through the graph.  Nothing   *)
(* here depends on the order of pins, passes or calls.                     *)
(***************************************************************************)
EXTENDS Circuit

FanIn(p) == {a \in Arcs : to_pin[a] = p}

\* The pins a primary input leads to: those in every set around the inputs that
\* no arc leaves.  They are the only ones a pass ever looks at.
Closed(S) == \A a \in Arcs : from_pin[a] \in S => to_pin[a] \in S
Reached == {p \in Pins : \A S \in SUBSET Pins : PrimaryInputs \subseteq S /\ Closed(S) => p \in S}

Worst(mode, S) ==
  IF S = {} THEN None
  ELSE CHOOSE v \in S : \A w \in S : IF mode = "MAX" THEN w <= v ELSE v <= w

\* Load pins keep their port capacitance, driving pins carry their sinks.
SumOfSinks(k) ==
  LET sinks == fanout[k[1]]
      sum[n \in 0 .. Len(sinks)] ==
        IF n = 0 THEN 0 ELSE sum[n - 1] + port_capacitance[To(sinks[n], k[2], k[3])]
  IN sum[Len(sinks)]
Load ==
  [k \in PinKeys |-> IF k[1] \in Reached /\ pin_type[k[1]] \in {"OUTPUT", "PRIMARY_INPUT"}
                     THEN SumOfSinks(k) ELSE port_capacitance[k]]

\* Graph-based slew: the worst one over the arcs into a pin.  An input and
\* an output of the design start from 0.
WorstSlew[k \in PinKeys] ==
  LET Boundary == IF is_primary_input(k[1]) \/ is_primary_output(k[1]) THEN {0} ELSE {}
      Live == {x \in FanIn(k[1]) \X Edges :
                 /\ from_pin[x[1]] \in Reached
                 /\ is_clock_edge_valid(x[1], x[2], k[3])
                 /\ slew_lut[<<x[1], k[3]>>] # None
                 /\ WorstSlew[From(x[1], k[2], x[2])] # None}
  IN Worst(k[2], Boundary \cup
       {get_value(slew_lut[<<x[1], k[3]>>], WorstSlew[From(x[1], k[2], x[2])], Load[k]) : x \in Live})

\* Indexed as Arc::_delay.
ArcDelay ==
  [x \in ArcKeys |->
     IF /\ from_pin[x[1]] \in Reached /\ is_clock_edge_valid(x[1], x[3], x[4])
        /\ delay_lut[<<x[1], x[4]>>] # None /\ WorstSlew[From(x[1], x[2], x[3])] # None
     THEN get_value(delay_lut[<<x[1], x[4]>>], WorstSlew[From(x[1], x[2], x[3])],
                    Load[To(x[1], x[2], x[4])])
     ELSE None]

\* Where the paths of a report may start: those of the inputs anywhere but at the
\* clock, those of the registers at the clock.
Starts ==
  [IN |-> PrimaryInputs \ {DeducedClock}, REG |-> PrimaryInputs \cap {DeducedClock},
   ALL |-> PrimaryInputs]
Leaves(p, start) == is_primary_input(p) => p \in Starts[start]

\* The delays of all paths into a pin and edge, of no arc or of several.
PathDelays(start) ==
  LET D[k \in PinKeys] ==
        (IF is_primary_input(k[1]) THEN {0} ELSE {}) \cup
        UNION {{d + ArcDelay[<<x[1], k[2], x[2], k[3]>>] : d \in D[From(x[1], k[2], x[2])]} :
               x \in {y \in FanIn(k[1]) \X Edges :
                        /\ Leaves(from_pin[y[1]], start)
                        /\ ArcDelay[<<y[1], k[2], y[2], k[3]>>] # None}}
  IN D

Arrival ==
  [start \in DOMAIN Starts |->
     LET D == PathDelays(start) IN [k \in PinKeys |-> Worst(k[2], D[k])]]

\* Slews that a constraint table is read with.
SlewOr0(k) == IF WorstSlew[k] = None THEN 0 ELSE WorstSlew[k]
CheckTime(a, f, t) ==
  Worst("MAX", {get_value(constraint_lut[<<a, t>>], SlewOr0(To(a, mode, t)), SlewOr0(From(a, mode, f))) :
                  mode \in Modes})

Required ==
  LET A == Arrival["ALL"]
      Asking(k) == {x \in FanIn(k[1]) \X Edges :
                      /\ \E i \in 1 .. Len(constraint_arcs) : constraint_arcs[i] = x[1]
                      /\ is_clock_edge_valid(x[1], x[2], k[3])
                      /\ timing_type[x[1]] \in {"SETUP_RISING", "SETUP_FALLING"} => k[2] = "MAX"
                      /\ timing_type[x[1]] \in {"HOLD_RISING", "HOLD_FALLING"} => k[2] = "MIN"
                      /\ A[From(x[1], k[2], x[2])] # None}
  IN [k \in PinKeys |->
        Worst(k[2], (IF is_primary_output(k[1]) THEN {ClockCycle + ClockRiseAt} ELSE {}) \cup
                    {A[From(x[1], k[2], x[2])] + CheckTime(x[1], x[2], k[3]) : x \in Asking(k)})]
=============================================================================
