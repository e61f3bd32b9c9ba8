------------------------------- MODULE Circuit -------------------------------
(***************************************************************************)
(* The timing graph that CircuitBuilder hands to Timer: pins, the arcs     *)
(* between them, the look-up tables on the arcs and the pin orders that    *)
(* get_toposorted_pins may return.  The graph does not change while a      *)
(* Timer works on it, so all of it is constant here; module TopoSort       *)
(* models how the order is computed and CircuitBuild how the graph is.     *)
(*                                                                         *)
(* Numbers (doubles in the code) are integers in one fixed unit.  A table  *)
(* is the bilinear surface that Lut::get_value computes from a 2x2 grid,   *)
(* kept as its four coefficients; ZeroLut and PassThroughLut are two such  *)
(* surfaces.                                                               *)
(***************************************************************************)
EXTENDS PinOrder

CONSTANTS
  Pins,              \* the pins of the circuit
  Arcs,              \* delay arcs, wire arcs and constraint arcs
  None,              \* an empty std::optional
  pin_type,          \* Pin::_type
  from_pin, to_pin,  \* Arc::_from_pin, Arc::_to_pin
  timing_type,       \* Arc::_timing_type
  timing_sense,      \* Arc::_timing_sense
  delay_lut,         \* Arc::_delay_luts, by arc and clock edge
  slew_lut,          \* Arc::_slew_luts
  constraint_lut,    \* Arc::_constraint_luts
  port_capacitance,  \* the capacitance create_pins gives each pin
  fanout,            \* Pin::_fanout, in the order the arcs were created
  constraint_arcs,   \* CircuitBuilder::constraint_arcs, in creation order
  Toposorts,         \* the orders get_toposorted_pins may return
  DeducedClock,      \* what CircuitBuilder::deduce_clock returns
  ClockCycle,        \* Timer::_clock_cycle
  ClockRiseAt        \* Timer::_clock_rise_at

Modes == {"MAX", "MIN"}            \* ALL_TIMING_MODES
Edges == {"RISING", "FALLING"}     \* ALL_CLOCK_EDGES
PinTypes == {"INPUT", "OUTPUT", "PRIMARY_INPUT", "PRIMARY_OUTPUT"}
TimingTypes ==
  {"WIRE", "CLEAR", "COMBINATIONAL", "FALLING_EDGE", "HOLD_FALLING", "HOLD_RISING",
   "MIN_PULSE_WIDTH", "NON_SEQ_HOLD_RISING", "NON_SEQ_HOLD_FALLING",
   "NON_SEQ_SETUP_RISING", "NON_SEQ_SETUP_FALLING", "PRESET", "RECOVERY_FALLING",
   "RECOVERY_RISING", "REMOVAL_FALLING", "REMOVAL_RISING", "RISING_EDGE",
   "SETUP_FALLING", "SETUP_RISING", "THREE_STATE_DISABLE", "THREE_STATE_ENABLE"}
TimingSenses == {"POS_UNATE", "NEG_UNATE", "NON_UNATE", "NONE"}
Lut == [k : Int, x : Int, y : Int, xy : Int]

PinKeys == Pins \X Modes \X Edges             \* indices of a Pin's tables
ArcKeys == Arcs \X Modes \X Edges \X Edges    \* indices of Arc::_delay
From(a, mode, frf) == <<from_pin[a], mode, frf>>
To(a, mode, trf) == <<to_pin[a], mode, trf>>
OptInt == Int \cup {None}                     \* opt_float_t

\* The products the FOREACH_* helpers iterate over, in their order.
EL_RF == << <<"MAX", "RISING">>, <<"MAX", "FALLING">>,
            <<"MIN", "RISING">>, <<"MIN", "FALLING">> >>
EL_FRF_TRF == << <<"MAX", "RISING", "RISING">>,  <<"MAX", "RISING", "FALLING">>,
                 <<"MAX", "FALLING", "RISING">>, <<"MAX", "FALLING", "FALLING">>,
                 <<"MIN", "RISING", "RISING">>,  <<"MIN", "RISING", "FALLING">>,
                 <<"MIN", "FALLING", "RISING">>, <<"MIN", "FALLING", "FALLING">> >>

is_primary_input(p) == pin_type[p] = "PRIMARY_INPUT"
is_primary_output(p) == pin_type[p] = "PRIMARY_OUTPUT"
PrimaryInputs == {p \in Pins : is_primary_input(p)}

-----------------------------------------------------------------------------
\* Arc::is_clock_edge_valid: a clocked arc fires on one edge of its from pin,
\* every other arc goes by its unateness.
FiresOnRising(a) == timing_type[a] \in {"RISING_EDGE", "SETUP_RISING", "HOLD_RISING"}
FiresOnFalling(a) == timing_type[a] \in {"FALLING_EDGE", "SETUP_FALLING", "HOLD_FALLING"}
is_clock_edge_valid(a, frf, trf) ==
  \/ FiresOnRising(a) /\ frf = "RISING"
  \/ FiresOnFalling(a) /\ frf = "FALLING"
  \/ /\ ~ FiresOnRising(a) /\ ~ FiresOnFalling(a)
     /\ \/ timing_sense[a] = "POS_UNATE" /\ frf = trf
        \/ timing_sense[a] = "NEG_UNATE" /\ frf # trf
        \/ timing_sense[a] = "NON_UNATE"

get_value(lut, x, y) == lut.k + lut.x * x + lut.y * y + lut.xy * x * y

\* The rule the four update_* methods share: the first value is taken, a
\* later one only if it is strictly worse for the mode.
Replaces_LastWins(mode, new, old) == new # old
Replaces(mode, new, old) ==
  \/ old = None
  \/ mode = "MAX" /\ new > old
  \/ mode = "MIN" /\ new < old

\* s is an order get_toposorted_pins may return for an acyclic graph.
Links == {<<from_pin[a], to_pin[a]>> : a \in Arcs}
IsToposort(s) == IsTopologicalOrder(s, Pins, PrimaryInputs, Links)

ASSUME NoneAssumption ==
  /\ None \notin Int
  /\ None \notin Edges \X Arcs
  /\ None \notin Pins

ASSUME CircuitAssumption ==
  /\ pin_type \in [Pins -> PinTypes]
  /\ from_pin \in [Arcs -> Pins]
  /\ to_pin \in [Arcs -> Pins]
  /\ timing_type \in [Arcs -> TimingTypes]
  /\ timing_sense \in [Arcs -> TimingSenses]
  /\ delay_lut \in [Arcs \X Edges -> Lut \cup {None}]
  /\ slew_lut \in [Arcs \X Edges -> Lut \cup {None}]
  /\ constraint_lut \in [Arcs \X Edges -> Lut \cup {None}]
  /\ port_capacitance \in [PinKeys -> Int]
  /\ constraint_arcs \in Seq(Arcs)
  /\ DeducedClock \in PrimaryInputs \cup {None}

ASSUME ClockAssumption == ClockCycle \in Int /\ ClockRiseAt \in Int

\* A primary input drives its net and is never the sink of one.
ASSUME DriverAssumption == \A a \in Arcs : ~ is_primary_input(to_pin[a])

\* The constructor of Arc puts the arc at the end of its from pin's fanout.
ASSUME FanoutAssumption ==
  /\ fanout \in [Pins -> Seq(Arcs)]
  /\ \A p \in Pins : \A i \in 1 .. Len(fanout[p]) : from_pin[fanout[p][i]] = p
  /\ \A a \in Arcs : \E i \in 1 .. Len(fanout[from_pin[a]]) : fanout[from_pin[a]][i] = a

ASSUME ToposortAssumption == \A s \in Toposorts : IsToposort(s)
=============================================================================
