----------------------------- MODULE TimerSettled -----------------------------
(***************************************************************************)
(* What whole updates leave behind.  A client that calls update_timing and *)
(* report_timing only, as the shell and pySTA do, finds every capacitance, *)
(* slew, delay and request arrival time settled after its first update,    *)
(* and every pin on a reported path with a slew.  TimerProofs proves both, *)
(* with the inductive invariant at the end of this module.                 *)
(***************************************************************************)
EXTENDS TimerInvariants

\* A client that reports only after whole updates is stopped by no LOG_ASSERT
\* of Timer, Pin or Arc but the one of propagate_request_arrival_time, and by
\* that one only at an arc that constrains its pin in the combination at hand
\* and has no table for it: in particular every pin on a reported path has a
\* slew.
AbortsOnlyWithoutTable ==
  phase = "aborted" =>
    /\ pos <= Len(constraint_arcs)
    /\ Constrains(ConstraintArc, EL_FRF_TRF[combo][1], EL_FRF_TRF[combo][2], EL_FRF_TRF[combo][3])
    /\ constraint_lut[<<ConstraintArc, EL_FRF_TRF[combo][3]>>] = None

Updated == calls > 1 \/ (calls = 1 /\ phase \in {"idle", "report", "collect", "walk"})

\* One update_timing settles the circuit: neither a report, which throws
\* away the arrival times, nor another update, which goes over all values
\* again, changes a capacitance, slew, delay or request arrival time once
\* the first update is complete.
KeepsValues == Updated => UNCHANGED values
UpdateIsIdempotent == [][KeepsValues]_vars

-----------------------------------------------------------------------------
(***************************************************************************)
(* What the two rest on in the circuit.                                    *)
(***************************************************************************)
\* An arc into the input of a cell that has a delay has a transition table
\* too: a wire has both (Arc's default tables), and what a cell times at an
\* input is a constraint.
LoadsHaveSlews ==
  \A a \in Arcs, t \in Edges :
    pin_type[to_pin[a]] = "INPUT" /\ delay_lut[<<a, t>>] # None => slew_lut[<<a, t>>] # None

\* What leaves an output or a primary input is a wire, and leads to a load.
DriversDriveLoads == \A a \in Arcs : ~ IsLoadPin(from_pin[a]) => IsLoadPin(to_pin[a])

\* A constraint is checked at a pin of a cell, not at an output port.
ConstraintsAtCells ==
  \A i \in 1 .. Len(constraint_arcs) : ~ is_primary_output(to_pin[constraint_arcs[i]])

WiresAndCells == LoadsHaveSlews /\ DriversDriveLoads /\ ConstraintsAtCells

-----------------------------------------------------------------------------
(***************************************************************************)
(* The inductive invariant.                                                *)
(***************************************************************************)
\* A pass runs only as part of an update.
OnlyUpdates == phase \in Passes => updating /\ calls > 0

First == calls = 1
\* The first update is past the passes of S.
Past(S) == calls > 1 \/ (First /\ phase \notin S)

\* s sums up what the fanout of p adds to its capacitance, arc by arc.
Sums(s, p, el, rf, n) ==
  /\ s \in [0 .. n -> Int]
  /\ s[0] = 0
  /\ \A h \in 1 .. n : s[h] = s[h - 1] + capacitance[To(fanout[p][h], el, rf)]

\* p has the sum of its loads, v the sum of the first n of them.
Loaded(p, el, rf) ==
  LET n == Len(fanout[p]) IN
  \E s \in [0 .. n -> Int] : Sums(s, p, el, rf, n) /\ s[n] = capacitance[<<p, el, rf>>]

CapacitancesVisited ==
  \A i \in 1 .. Len(order), c \in 1 .. 4 :
    (i < pos \/ (i = pos /\ c < combo)) /\ ~ IsLoadPin(order[i]) =>
      Loaded(order[i], EL_RF[c][1], EL_RF[c][2])
CapacitancesSettled ==
  \A i \in 1 .. Len(order), c \in 1 .. 4 :
    ~ IsLoadPin(order[i]) => Loaded(order[i], EL_RF[c][1], EL_RF[c][2])

\* In the first update the total is that of the arcs visited; in a later one
\* it is on its way to the capacitance the pin has.
TotalBuilds ==
  \E s \in [0 .. hop - 1 -> Int] :
    Sums(s, ThisPin, EL_RF[combo][1], EL_RF[combo][2], hop - 1) /\ total = s[hop - 1]
TotalRepeats ==
  LET n == Len(fanout[ThisPin]) IN
  \E s \in [0 .. n -> Int] :
    /\ Sums(s, ThisPin, EL_RF[combo][1], EL_RF[combo][2], n)
    /\ s[n] = capacitance[<<ThisPin, EL_RF[combo][1], EL_RF[combo][2]>>]
    /\ total = s[hop - 1]
AtDriver == phase = "capacitance" /\ pos <= Len(order) /\ ~ IsLoadPin(ThisPin)
TotalInv ==
  /\ ~ AtDriver => total = 0
  /\ AtDriver => /\ hop - 1 <= Len(fanout[ThisPin])
                 /\ IF First THEN TotalBuilds ELSE TotalRepeats
  /\ phase = "capacitance" /\ ~ AtDriver => combo = 1 /\ hop = 1

CapacitanceInv ==
  /\ TotalInv
  /\ phase = "capacitance" /\ First => CapacitancesVisited
  /\ Past({"capacitance"}) => CapacitancesSettled

\* The arc has nothing left to do: what it would compute from the values of
\* its pins does not replace the value that is there.
SlewPropagated(a, m, f, t) ==
  (/\ is_clock_edge_valid(a, f, t)
   /\ slew[From(a, m, f)] # None
   /\ slew_lut[<<a, t>>] # None) =>
     ~ Replaces(m, get_value(slew_lut[<<a, t>>], slew[From(a, m, f)], capacitance[To(a, m, t)]),
                slew[To(a, m, t)])
DelayPropagated(a, m, f, t) ==
  (/\ is_clock_edge_valid(a, f, t)
   /\ slew[From(a, m, f)] # None
   /\ delay_lut[<<a, t>>] # None) =>
     ~ Replaces(m, get_value(delay_lut[<<a, t>>], slew[From(a, m, f)], capacitance[To(a, m, t)]),
                delay[<<a, m, f, t>>])
\* The same for arrival times A.
ArrivalPropagated(A, a, m, f, t) ==
  (/\ is_clock_edge_valid(a, f, t)
   /\ A[From(a, m, f)] # None
   /\ delay[<<a, m, f, t>>] # None) =>
     ~ Replaces(m, A[From(a, m, f)] + delay[<<a, m, f, t>>], A[To(a, m, t)])

VisitedSlews ==
  \A i \in 1 .. Len(order), c \in 1 .. 8 : \A h \in 1 .. Len(fanout[order[i]]) :
    Visited(i, c, h) =>
      SlewPropagated(fanout[order[i]][h], EL_FRF_TRF[c][1], EL_FRF_TRF[c][2], EL_FRF_TRF[c][3])
SlewsSettled ==
  \A i \in 1 .. Len(order), a \in Arcs, m \in Modes, f \in Edges, t \in Edges :
    from_pin[a] = order[i] => SlewPropagated(a, m, f, t)

VisitedDelays ==
  \A i \in 1 .. Len(order), c \in 1 .. 8 : \A h \in 1 .. Len(fanout[order[i]]) :
    Visited(i, c, h) =>
      DelayPropagated(fanout[order[i]][h], EL_FRF_TRF[c][1], EL_FRF_TRF[c][2], EL_FRF_TRF[c][3])
DelaysSettled ==
  \A i \in 1 .. Len(order), a \in Arcs, m \in Modes, f \in Edges, t \in Edges :
    from_pin[a] = order[i] => DelayPropagated(a, m, f, t)

VisitedArrivals ==
  \A i \in 1 .. Len(order), c \in 1 .. 8 : \A h \in 1 .. Len(fanout[order[i]]) :
    Visited(i, c, h) =>
      ArrivalPropagated(arrival_time, fanout[order[i]][h],
                        EL_FRF_TRF[c][1], EL_FRF_TRF[c][2], EL_FRF_TRF[c][3])
ArrivalsSettled(A) ==
  \A i \in 1 .. Len(order), a \in Arcs, m \in Modes, f \in Edges, t \in Edges :
    from_pin[a] = order[i] => ArrivalPropagated(A, a, m, f, t)

\* A port has a slew from the start (Pin's constructor).
PortsHaveSlews ==
  \A k \in PinKeys : is_primary_input(k[1]) \/ is_primary_output(k[1]) => slew[k] # None

\* A delay was computed from a slew, with a table, after the slews were done.
DelayNeedsSlews ==
  \A a \in Arcs, m \in Modes, f \in Edges, t \in Edges :
    delay[<<a, m, f, t>>] # None =>
      /\ slew[From(a, m, f)] # None
      /\ delay_lut[<<a, t>>] # None
      /\ slew_lut[<<a, t>>] # None => slew[To(a, m, t)] # None

WalkHasSlew == phase = "walk" => WalkSlew # None

SlewInv ==
  /\ PortsHaveSlews
  /\ phase = "slew" /\ First => VisitedSlews
  /\ Past({"capacitance", "slew"}) => SlewsSettled

DelayInv ==
  /\ DelayNeedsSlews
  /\ phase = "delay" /\ First => VisitedDelays
  /\ Past({"capacitance", "slew", "delay"}) => DelaysSettled

\* What a constraint arc adds to the arrival time of its from pin.
Constraint(a, frf, trf) ==
  LET max_delay == ConstraintValue(a, "MAX", frf, trf)
      min_delay == ConstraintValue(a, "MIN", frf, trf)
  IN IF max_delay < min_delay THEN min_delay ELSE max_delay

\* Arrival times A ask no earlier or later request of a constraint arc than
\* the one that is there.
Requested(A, a, el, frf, trf) ==
  (/\ is_clock_edge_valid(a, frf, trf)
   /\ IsSetup(a) => el = "MAX"
   /\ IsHold(a) => el = "MIN"
   /\ A[From(a, el, frf)] # None) =>
     /\ constraint_lut[<<a, trf>>] # None
     /\ ~ Replaces(el, A[From(a, el, frf)] + Constraint(a, frf, trf),
                   request_arrival_time[To(a, el, trf)])

OutputsRequested ==
  \A k \in PinKeys : is_primary_output(k[1]) => request_arrival_time[k] = ClockCycle + ClockRiseAt

VisitedRequests ==
  \A i \in 1 .. Len(constraint_arcs), c \in 1 .. 8 :
    i < pos \/ (i = pos /\ c < combo) =>
      Requested(arrival_time, constraint_arcs[i],
                EL_FRF_TRF[c][1], EL_FRF_TRF[c][2], EL_FRF_TRF[c][3])
RequestsSettled(A) ==
  \A i \in 1 .. Len(constraint_arcs), m \in Modes, f \in Edges, t \in Edges :
    Requested(A, constraint_arcs[i], m, f, t)

\* The arrival times now are no worse than A.
Within(A) ==
  \A k \in PinKeys : arrival_time[k] # None =>
    A[k] # None /\ ~ Replaces(k[2], arrival_time[k], A[k])

\* Later arrival times, those of a report among them, stay within those the
\* first update ended with, and these ask for nothing new.
StaysWithin ==
  \E A \in [PinKeys -> OptInt] :
    /\ \A k \in PinKeys : is_primary_input(k[1]) => A[k] = 0
    /\ Within(A) /\ ArrivalsSettled(A) /\ RequestsSettled(A)

RequestInv ==
  /\ phase = "arrival" /\ First => VisitedArrivals
  /\ phase \in {"outputs", "request"} /\ First => ArrivalsSettled(arrival_time)
  /\ phase = "request" /\ First => VisitedRequests
  /\ phase = "request" \/ Updated => OutputsRequested
  /\ Updated => StaysWithin

SettledInv ==
  /\ OnlyUpdates
  /\ CapacitanceInv
  /\ SlewInv
  /\ DelayInv
  /\ RequestInv
  /\ WalkHasSlew
  /\ AbortsOnlyWithoutTable
=============================================================================
