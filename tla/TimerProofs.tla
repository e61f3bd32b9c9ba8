----------------------------- MODULE TimerProofs -----------------------------
(***************************************************************************)
(* Proofs of the invariants of module TimerInvariants, for every circuit,  *)
(* pin order and client that the assumptions on the constants admit, and   *)
(* of those of TimerSettled, for every client that calls whole updates and *)
(* reports only.                                                           *)
(***************************************************************************)
EXTENDS TimerSettled, TLAPS

-----------------------------------------------------------------------------
(***************************************************************************)
(* Facts about the operators of the model.                                 *)
(***************************************************************************)
\* Every entry of EL_RF is a mode and an edge (FOREACH_EL_RF).
LEMMA EL_RF_Type == \A c \in 1 .. 4 : EL_RF[c][1] \in Modes /\ EL_RF[c][2] \in Edges
BY DEF EL_RF, Modes, Edges

\* Every entry of EL_FRF_TRF is a mode and two edges.
LEMMA EL_FRF_TRF_Type ==
  \A c \in 1 .. 8 : /\ EL_FRF_TRF[c][1] \in Modes
                    /\ EL_FRF_TRF[c][2] \in Edges
                    /\ EL_FRF_TRF[c][3] \in Edges
BY DEF EL_FRF_TRF, Modes, Edges

\* EL_FRF_TRF leaves out no combination (FOREACH_EL_FRF_TRF).
LEMMA EL_FRF_TRF_Complete ==
  \A m \in Modes, f \in Edges, t \in Edges :
    \E c \in 1 .. 8 : /\ EL_FRF_TRF[c][1] = m
                      /\ EL_FRF_TRF[c][2] = f
                      /\ EL_FRF_TRF[c][3] = t
BY DEF EL_FRF_TRF, Modes, Edges

\* The groups of a report are a mode and an end type each.
LEMMA Groups_Type == \A g \in 1 .. 4 : Groups[g][1] \in Modes /\ Groups[g][2] \in EndTypes
BY DEF Groups, Modes, EndTypes

\* Looking a number up in a table gives a number.
LEMMA get_value_Type ==
  ASSUME NEW lut \in Lut, NEW x \in Int, NEW y \in Int
  PROVE  get_value(lut, x, y) \in Int
<1>1. lut.k \in Int /\ lut.x \in Int /\ lut.y \in Int /\ lut.xy \in Int
  BY DEF Lut
<1>2. lut.x * x \in Int /\ lut.y * y \in Int /\ lut.xy * x \in Int
  BY <1>1
<1>3. (lut.xy * x) * y \in Int
  BY <1>2
<1> QED  BY <1>1, <1>2, <1>3 DEF get_value

\* A value that is beaten by nothing stays so when a better one is taken.
LEMMA ReplacesMonotone ==
  ASSUME NEW m \in Modes, NEW old \in OptInt, NEW new \in Int, NEW v \in Int,
         Replaces(m, new, old), ~ Replaces(m, v, old)
  PROVE  ~ Replaces(m, v, new)
BY NoneAssumption DEF Replaces, OptInt, Modes

\* The value just taken is not beaten by itself.
LEMMA ReplacesIrreflexive == ASSUME NEW m \in Modes, NEW v \in Int PROVE ~ Replaces(m, v, v)
BY NoneAssumption DEF Replaces, Modes

\* The orders of the pins are sequences of pins.
LEMMA OrderType == ASSUME TypeOK PROVE order \in Seq(Pins)
BY ToposortAssumption DEF TypeOK, IsToposort, IsTopologicalOrder

\* A sorted order holds no pin twice, and every arc out of one of its pins
\* leads to a later one (CircuitBuilder::get_toposorted_pins).
LEMMA ArcsLeadForward ==
  ASSUME TypeOK
  PROVE  /\ \A i, j \in 1 .. Len(order) : order[i] = order[j] => i = j
         /\ \A i \in 1 .. Len(order), a \in Arcs :
              from_pin[a] = order[i] => \E j \in i + 1 .. Len(order) : order[j] = to_pin[a]
<1>1. IsTopologicalOrder(order, Pins, PrimaryInputs, Links)
  BY ToposortAssumption DEF TypeOK, IsToposort
<1>2. \A i \in 1 .. Len(order), v \in Pins :
        <<order[i], v>> \in Links => \E j \in i + 1 .. Len(order) : order[j] = v
  BY <1>1 DEF IsTopologicalOrder
<1>3. ASSUME NEW i \in 1 .. Len(order), NEW a \in Arcs, from_pin[a] = order[i]
      PROVE  \E j \in i + 1 .. Len(order) : order[j] = to_pin[a]
  <2>1. <<order[i], to_pin[a]>> \in Links
    BY <1>3 DEF Links
  <2>2. to_pin[a] \in Pins
    BY CircuitAssumption
  <2> QED  BY <1>2, <2>1, <2>2
<1> QED  BY <1>1, <1>3 DEF IsTopologicalOrder

\* In the middle of a fanout loop there are a pin and an arc that leaves it.
LEMMA AtArcsType ==
  ASSUME TypeOK, AtArcs
  PROVE  /\ pos \in 1 .. Len(order) /\ hop \in 1 .. Len(fanout[ThisPin])
         /\ ThisPin \in Pins /\ ThisArc \in Arcs
         /\ from_pin[ThisArc] = ThisPin /\ to_pin[ThisArc] \in Pins
<1>1. pos \in 1 .. Len(order)
  BY OrderType DEF TypeOK, AtArcs
<1>2. ThisPin \in Pins
  BY OrderType, <1>1 DEF ThisPin
<1>3. hop \in 1 .. Len(fanout[ThisPin]) /\ fanout[ThisPin] \in Seq(Arcs)
  BY <1>2, FanoutAssumption DEF TypeOK, AtArcs, ThisPin
<1>4. ThisArc \in Arcs /\ from_pin[ThisArc] = ThisPin
  BY <1>2, <1>3, FanoutAssumption DEF ThisArc, ThisPin
<1> QED  BY <1>1, <1>2, <1>3, <1>4, CircuitAssumption

\* An end point that may be reported has a slack (collect_paths).
LEMMA SlackType ==
  ASSUME TypeOK, NEW p \in Pins, NEW m \in Modes, NEW e \in Edges, Reportable(p, m)
  PROVE  Slack(p, m, e) \in Int
<1>1. <<p, m, e>> \in PinKeys
  BY DEF PinKeys
<1>2. arrival_time[<<p, m, e>>] \in Int /\ request_arrival_time[<<p, m, e>>] \in Int
  BY <1>1 DEF TypeOK, OptInt, Reportable
<1> QED  BY <1>2, ClockAssumption DEF Slack

-----------------------------------------------------------------------------
(***************************************************************************)
(* Type correctness.                                                       *)
(***************************************************************************)
\* Every table starts with numbers or nothing in it.
LEMMA TypeInit == Init => TypeOK
<1> SUFFICES ASSUME Init PROVE TypeOK
  OBVIOUS
<1>1. PinKeys = Pins \X Modes \X Edges
  BY DEF PinKeys
<1>2. slew \in [PinKeys -> OptInt] /\ arrival_time \in [PinKeys -> OptInt]
  BY DEF Init, OptInt
<1>3. delay \in [ArcKeys -> OptInt] /\ request_arrival_time \in [PinKeys -> OptInt]
  BY DEF Init, OptInt
<1>4. capacitance \in [PinKeys -> Int] /\ predecessor \in [PinKeys -> (Edges \X Arcs) \cup {None}]
  BY CircuitAssumption DEF Init
<1>5. DOMAIN report_cache = {} /\ report_cache \in [DOMAIN report_cache -> SUBSET ReportedPath]
  BY DEF Init, EmptyCache
<1>6. phase = "idle" /\ pos = 1 /\ combo = 1 /\ hop = 1 /\ total = 0 /\ group = 1 /\ calls = 0
  BY DEF Init
<1>7. end_points \in SUBSET EndPoints /\ paths \in SUBSET ReportedPath /\ walk = NoWalk
  BY DEF Init
<1>8. order \in Toposorts /\ updating \in BOOLEAN /\ start_type \in StartTypes /\ clock_pin = None
  BY DEF Init, StartTypes
<1> QED  BY <1>2, <1>3, <1>4, <1>5, <1>6, <1>7, <1>8 DEF TypeOK, Phases, Passes

\* No step puts anything else there or takes a counter out of its loop.
LEMMA TypeNext == TypeOK /\ [Next]_vars => TypeOK'
<1> SUFFICES ASSUME TypeOK, [Next]_vars PROVE TypeOK'
  OBVIOUS
<1> USE DEF values, arrivals, loop, timer, report, Passes
<1>1. CASE skip_load_pin
  BY <1>1 DEF skip_load_pin, NextPin, TypeOK
<1>2. CASE add_capacitance
  <2>1. capacitance[To(ThisArc, EL_RF[combo][1], EL_RF[combo][2])] \in Int
    BY <1>2, AtArcsType, EL_RF_Type DEF add_capacitance, TypeOK, PinKeys, To
  <2>2. total' \in Int
    BY <1>2, <2>1 DEF add_capacitance, TypeOK
  <2> QED  BY <1>2, <2>2 DEF add_capacitance, NextArc, TypeOK
<1>3. CASE set_capacitance
  <2>1. capacitance' \in [PinKeys -> Int]
    BY <1>3 DEF set_capacitance, TypeOK
  <2>2. pos' \in Nat \ {0} /\ combo' \in 1 .. 4 /\ hop' = 1
    BY <1>3 DEF set_capacitance, NextCombo, EL_RF, TypeOK
  <2>3. total' = 0
    BY <1>3 DEF set_capacitance
  <2> QED  BY <1>3, <2>1, <2>2, <2>3 DEF set_capacitance, TypeOK
<1>4. CASE propagate_slew
  <2> DEFINE a == ThisArc
             el == EL_FRF_TRF[combo][1]
             frf == EL_FRF_TRF[combo][2]
             trf == EL_FRF_TRF[combo][3]
             new == get_value(slew_lut[<<a, trf>>], slew[From(a, el, frf)], capacitance[To(a, el, trf)])
  <2>1. a \in Arcs /\ from_pin[a] \in Pins /\ to_pin[a] \in Pins
    BY <1>4, AtArcsType DEF propagate_slew
  <2>2. el \in Modes /\ frf \in Edges /\ trf \in Edges
    BY EL_FRF_TRF_Type DEF TypeOK
  <2>3. /\ slew[From(a, el, frf)] \in OptInt
        /\ capacitance[To(a, el, trf)] \in Int
        /\ slew_lut[<<a, trf>>] \in Lut \cup {None}
    BY <2>1, <2>2, CircuitAssumption DEF TypeOK, PinKeys, From, To
  <2>4. slew[From(a, el, frf)] # None /\ slew_lut[<<a, trf>>] # None => new \in Int
    BY <2>3, get_value_Type DEF OptInt
  <2>5. slew' \in [PinKeys -> OptInt]
    BY <1>4, <2>4 DEF propagate_slew, TypeOK, OptInt
  <2> QED  BY <1>4, <2>5 DEF propagate_slew, NextArc, TypeOK
<1>5. CASE propagate_delay
  <2> DEFINE a == ThisArc
             el == EL_FRF_TRF[combo][1]
             frf == EL_FRF_TRF[combo][2]
             trf == EL_FRF_TRF[combo][3]
             new == get_value(delay_lut[<<a, trf>>], slew[From(a, el, frf)], capacitance[To(a, el, trf)])
  <2>1. a \in Arcs /\ from_pin[a] \in Pins /\ to_pin[a] \in Pins
    BY <1>5, AtArcsType DEF propagate_delay
  <2>2. el \in Modes /\ frf \in Edges /\ trf \in Edges
    BY EL_FRF_TRF_Type DEF TypeOK
  <2>3. /\ slew[From(a, el, frf)] \in OptInt
        /\ capacitance[To(a, el, trf)] \in Int
        /\ delay_lut[<<a, trf>>] \in Lut \cup {None}
    BY <2>1, <2>2, CircuitAssumption DEF TypeOK, PinKeys, From, To
  <2>4. slew[From(a, el, frf)] # None /\ delay_lut[<<a, trf>>] # None => new \in Int
    BY <2>3, get_value_Type DEF OptInt
  <2>5. delay' \in [ArcKeys -> OptInt]
    BY <1>5, <2>4 DEF propagate_delay, TypeOK, OptInt
  <2> QED  BY <1>5, <2>5 DEF propagate_delay, NextArc, TypeOK
<1>6. CASE skip_start_pin
  BY <1>6 DEF skip_start_pin, NextPin, TypeOK
<1>7. CASE propagate_arrival_time
  <2> DEFINE a == ThisArc
             el == EL_FRF_TRF[combo][1]
             frf == EL_FRF_TRF[combo][2]
             trf == EL_FRF_TRF[combo][3]
             new == arrival_time[From(a, el, frf)] + delay[<<a, el, frf, trf>>]
  <2>1. a \in Arcs /\ from_pin[a] \in Pins /\ to_pin[a] \in Pins
    BY <1>7, AtArcsType DEF propagate_arrival_time
  <2>2. el \in Modes /\ frf \in Edges /\ trf \in Edges
    BY EL_FRF_TRF_Type DEF TypeOK
  <2>3. arrival_time[From(a, el, frf)] \in OptInt /\ delay[<<a, el, frf, trf>>] \in OptInt
    BY <2>1, <2>2 DEF TypeOK, PinKeys, ArcKeys, From
  <2>4. arrival_time[From(a, el, frf)] # None /\ delay[<<a, el, frf, trf>>] # None => new \in Int
    BY <2>3 DEF OptInt
  <2>5. arrival_time' \in [PinKeys -> OptInt]
    BY <1>7, <2>4 DEF propagate_arrival_time, TypeOK, OptInt
  <2>6. predecessor' \in [PinKeys -> (Edges \X Arcs) \cup {None}]
    BY <1>7, <2>1, <2>2 DEF propagate_arrival_time, TypeOK
  <2> QED  BY <1>7, <2>5, <2>6 DEF propagate_arrival_time, NextArc, TypeOK
<1>8. CASE EndFanout
  <2>1. pos' \in Nat \ {0} /\ combo' \in 1 .. 8 /\ hop' = 1
    BY <1>8 DEF EndFanout, NextCombo, EL_FRF_TRF, TypeOK
  <2> QED  BY <1>8, <2>1 DEF EndFanout, TypeOK, Passes
<1>9. CASE EndPinPass
  <2>1. phase' \in Phases /\ updating' \in BOOLEAN /\ pos' = 1 /\ combo' = 1 /\ hop' = 1
    BY <1>9 DEF EndPinPass, EndPass, NextPass, StartLoop, Phases, Passes, TypeOK
  <2>2. phase' # "walk"
    BY <1>9 DEF EndPinPass, EndPass, NextPass
  <2> QED  BY <1>9, <2>1, <2>2 DEF EndPinPass, TypeOK
<1>10. CASE set_output_requests
  <2>1. phase' = "request" /\ updating' \in BOOLEAN /\ pos' = 1 /\ combo' = 1 /\ hop' = 1
    BY <1>10 DEF set_output_requests, EndPass, NextPass, StartLoop, TypeOK
  <2>2. request_arrival_time' \in [PinKeys -> OptInt]
    BY <1>10, ClockAssumption DEF set_output_requests, TypeOK, OptInt
  <2> QED  BY <1>10, <2>1, <2>2 DEF set_output_requests, TypeOK, Phases, Passes
<1>11. CASE propagate_request_arrival_time
  <2> DEFINE a == ConstraintArc
             el == EL_FRF_TRF[combo][1]
             frf == EL_FRF_TRF[combo][2]
             trf == EL_FRF_TRF[combo][3]
             max_delay == ConstraintValue(a, "MAX", frf, trf)
             min_delay == ConstraintValue(a, "MIN", frf, trf)
             new == arrival_time[From(a, el, frf)]
                      + (IF max_delay < min_delay THEN min_delay ELSE max_delay)
  <2>1. a \in Arcs /\ from_pin[a] \in Pins /\ to_pin[a] \in Pins
    BY <1>11, CircuitAssumption
    DEF propagate_request_arrival_time, AtConstraint, ConstraintArc, TypeOK
  <2>2. el \in Modes /\ frf \in Edges /\ trf \in Edges
    BY EL_FRF_TRF_Type DEF TypeOK
  <2>3. ASSUME constraint_lut[<<a, trf>>] # None, NEW mode \in Modes
        PROVE  ConstraintValue(a, mode, frf, trf) \in Int
    <3>1. constraint_lut[<<a, trf>>] \in Lut
      BY <2>1, <2>2, <2>3, CircuitAssumption
    <3>2. slew[To(a, mode, trf)] \in OptInt /\ slew[From(a, mode, frf)] \in OptInt
      BY <2>1, <2>2, <2>3 DEF TypeOK, PinKeys, From, To
    <3>3. value_or_0(slew[To(a, mode, trf)]) \in Int /\ value_or_0(slew[From(a, mode, frf)]) \in Int
      BY <3>2 DEF value_or_0, OptInt
    <3> QED  BY <3>1, <3>3, get_value_Type DEF ConstraintValue
  <2>4. constraint_lut[<<a, trf>>] # None => max_delay \in Int /\ min_delay \in Int
    BY <2>3 DEF Modes
  <2>5. arrival_time[From(a, el, frf)] \in OptInt
    BY <2>1, <2>2 DEF TypeOK, PinKeys, From
  <2>6. arrival_time[From(a, el, frf)] # None /\ constraint_lut[<<a, trf>>] # None => new \in Int
    BY <2>4, <2>5 DEF OptInt
  <2>7. request_arrival_time' \in [PinKeys -> OptInt]
    BY <1>11, <2>6 DEF propagate_request_arrival_time, Constrains, TypeOK, OptInt
  <2>8. pos' \in Nat \ {0} /\ combo' \in 1 .. 8 /\ hop' = 1 /\ phase' = "request"
    BY <1>11 DEF propagate_request_arrival_time, AtConstraint, NextCombo, EL_FRF_TRF, TypeOK
  <2> QED  BY <1>11, <2>7, <2>8 DEF propagate_request_arrival_time, TypeOK
<1>12. CASE abort_no_constraint
  BY <1>12 DEF abort_no_constraint, TypeOK, Phases
<1>13. CASE EndRequestPass
  BY <1>13 DEF EndRequestPass, EndPass, NextPass, StartLoop, TypeOK, Phases, Passes
<1>14. CASE EndReportPass
  BY <1>14 DEF EndReportPass, StartLoop, TypeOK, Phases, Passes, EndPoints
<1>15. CASE skip_end_point
  BY <1>15 DEF skip_end_point, TypeOK
<1>16. CASE start_walk
  <2> DEFINE mode == Groups[group][1]
  <2>1. PICK p \in end_points :
          /\ Reportable(p, mode)
          /\ end_points' = end_points \ {p}
          /\ walk' = [pin |-> p, edge |-> WorstEdge(p, mode),
                      slack |-> Slack(p, mode, WorstEdge(p, mode)), hops |-> << >>]
    BY <1>16 DEF start_walk
  <2>2. p \in Pins /\ mode \in Modes
    BY Groups_Type DEF TypeOK, EndPoints
  <2>3. WorstEdge(p, mode) \in Edges
    BY DEF WorstEdge, Edges
  <2>4. Slack(p, mode, WorstEdge(p, mode)) \in Int
    BY <2>1, <2>2, <2>3, SlackType
  <2>5. << >> \in Seq(PathHop)
    OBVIOUS
  <2>6. walk' \in WalkStates
    BY <2>1, <2>2, <2>3, <2>4, <2>5 DEF WalkStates
  <2> QED  BY <1>16, <2>1, <2>6 DEF start_walk, TypeOK, Phases
<1>17. CASE walk_step
  <2> DEFINE step == [pin |-> walk.pin, edge |-> walk.edge, at |-> WalkAt, slew |-> WalkSlew]
             hops == <<step>> \o walk.hops
  <2>1. walk \in WalkStates
    BY <1>17 DEF walk_step, TypeOK
  <2>2. walk.pin \in Pins /\ walk.edge \in Edges /\ walk.slack \in Int /\ walk.hops \in Seq(PathHop)
    BY <2>1 DEF WalkStates
  <2>3. WalkKey \in PinKeys
    BY <2>2, Groups_Type DEF WalkKey, PinKeys, TypeOK
  <2>4. WalkAt \in Int /\ WalkSlew \in Int /\ WalkPredecessor \in (Edges \X Arcs) \cup {None}
    BY <1>17, <2>3 DEF walk_step, WalkAt, WalkSlew, WalkPredecessor, TypeOK, OptInt
  <2>5. step \in PathHop
    BY <2>2, <2>4 DEF PathHop
  <2>6. hops \in Seq(PathHop)
    BY <2>2, <2>5
  <2> HIDE DEF hops
  <2>7. CASE WalkPredecessor = None
    <3>1. [slack |-> walk.slack, hops |-> hops] \in ReportedPath
      BY <2>2, <2>6 DEF ReportedPath
    <3>2. paths' \in SUBSET ReportedPath /\ walk' = NoWalk /\ phase' = "collect"
      BY <1>17, <2>7, <3>1 DEF walk_step, TypeOK, hops
    <3> QED  BY <1>17, <3>2 DEF walk_step, TypeOK, Phases
  <2>8. CASE WalkPredecessor # None
    <3> DEFINE w == [walk EXCEPT !.edge = WalkPredecessor[1],
                                 !.pin = PredecessorPin,
                                 !.hops = hops]
    <3>1. WalkPredecessor[1] \in Edges /\ PredecessorPin \in Pins
      BY <2>4, <2>8, CircuitAssumption DEF PredecessorPin
    <3>2. w \in WalkStates
      BY <2>1, <2>6, <3>1 DEF WalkStates
    <3>3. walk' = w /\ paths' = paths /\ phase' = phase
      BY <1>17, <2>8 DEF walk_step, hops
    <3> QED  BY <1>17, <3>2, <3>3 DEF walk_step, TypeOK
  <2> QED  BY <2>7, <2>8
<1>18. CASE abort_walk
  BY <1>18 DEF abort_walk, TypeOK, Phases
<1>19. CASE EndGroup
  <2> DEFINE key == <<start_type, Groups[group][1], Groups[group][2]>>
  <2>1. key \in ReportKeys
    BY Groups_Type DEF TypeOK, ReportKeys
  <2>4. DOMAIN report_cache' = DOMAIN report_cache \cup {key}
    BY <1>19 DEF EndGroup
  <2>5. report_cache' \in [DOMAIN report_cache' -> SUBSET ReportedPath]
    BY <1>19, <2>4 DEF EndGroup, TypeOK
  <2>2. group' \in 1 .. 4 /\ end_points' \in SUBSET EndPoints /\ phase' \in {"collect", "idle"}
    BY <1>19 DEF EndGroup, TypeOK, Groups
  <2>3. paths' \in SUBSET ReportedPath
    BY <1>19 DEF EndGroup
  <2> QED  BY <1>19, <2>1, <2>2, <2>3, <2>4, <2>5 DEF EndGroup, TypeOK, Phases
<1>20. CASE update_timing
  <2>1. report_cache' = report_cache \/ (DOMAIN report_cache' = {} /\ report_cache' = EmptyCache)
    BY <1>20 DEF update_timing, EmptyCache
  <2>2. DOMAIN report_cache' \subseteq ReportKeys
        /\ report_cache' \in [DOMAIN report_cache' -> SUBSET ReportedPath]
    BY <2>1 DEF TypeOK, EmptyCache
  <2>3. clock_pin' \in PrimaryInputs \cup {None} /\ calls' \in Nat
    BY <1>20 DEF update_timing, Called, TypeOK
  <2> QED  BY <1>20, <2>2, <2>3 DEF update_timing, Called, TypeOK, Phases
<1>21. CASE call_pass
  BY <1>21 DEF call_pass, Called, TypeOK, Phases, Passes
<1>22. CASE reset_arrival_time
  BY <1>22 DEF reset_arrival_time, Called, ResetArrivalTimes, TypeOK, OptInt
<1>23. CASE reset_request_arrival_time
  BY <1>23 DEF reset_request_arrival_time, Called, TypeOK, OptInt
<1>24. CASE \E s \in StartTypes : report_timing(s)
  <2> PICK s \in StartTypes : report_timing(s)
    BY <1>24
  <2> QED  BY CircuitAssumption DEF report_timing, ResetArrivalTimes, TypeOK, OptInt, Phases, Passes
<1>25. CASE UNCHANGED vars
  BY <1>25 DEF vars, TypeOK
<1> QED  BY <1>1, <1>2, <1>3, <1>4, <1>5, <1>6, <1>7, <1>8, <1>9, <1>10, <1>11, <1>12, <1>13,
            <1>14, <1>15, <1>16, <1>17, <1>18, <1>19, <1>20, <1>21, <1>22, <1>23, <1>24, <1>25
         DEF Next, Pass, Collect, ClientCall

\* Timer's tables and counters stay in their types (Pin, Arc and Timer): no
\* pass computes with an empty optional.
THEOREM TypeCorrect == Spec => []TypeOK
<1>1. Init => TypeOK
  BY TypeInit
<1>2. TypeOK /\ [Next]_vars => TypeOK'
  BY TypeNext
<1> QED  BY <1>1, <1>2, PTL DEF Spec

-----------------------------------------------------------------------------
(***************************************************************************)
(* Arrival times and their predecessors.                                   *)
(***************************************************************************)
\* What Arc::propagate_arrival_time looks at in this turn of the loops.
El == EL_FRF_TRF[combo][1]
Frf == EL_FRF_TRF[combo][2]
Trf == EL_FRF_TRF[combo][3]
ThisFrom == From(ThisArc, El, Frf)
ThisTo == To(ThisArc, El, Trf)
ThisDelay == delay[<<ThisArc, El, Frf, Trf>>]
NewArrival == arrival_time[ThisFrom] + ThisDelay
Taken == /\ is_clock_edge_valid(ThisArc, Frf, Trf)
         /\ arrival_time[ThisFrom] # None
         /\ ThisDelay # None
         /\ Replaces(El, NewArrival, arrival_time[ThisTo])

\* The step in the terms above; it never writes to a primary input.
LEMMA ArrivalStep ==
  ASSUME TypeOK, propagate_arrival_time
  PROVE  /\ El \in Modes /\ Frf \in Edges /\ Trf \in Edges
         /\ ThisArc \in Arcs /\ ThisFrom \in PinKeys /\ ThisTo \in PinKeys
         /\ ~ is_primary_input(to_pin[ThisArc])
         /\ arrival_time[ThisFrom] # None /\ ThisDelay # None => NewArrival \in Int
         /\ Taken => /\ arrival_time' = [arrival_time EXCEPT ![ThisTo] = NewArrival]
                     /\ predecessor' = [predecessor EXCEPT ![ThisTo] = <<Frf, ThisArc>>]
         /\ ~ Taken => UNCHANGED arrivals
<1>1. El \in Modes /\ Frf \in Edges /\ Trf \in Edges
  BY EL_FRF_TRF_Type DEF TypeOK, El, Frf, Trf
<1>2. ThisArc \in Arcs /\ from_pin[ThisArc] \in Pins /\ to_pin[ThisArc] \in Pins
  BY AtArcsType DEF propagate_arrival_time
<1>3. ThisFrom \in PinKeys /\ ThisTo \in PinKeys
  BY <1>1, <1>2 DEF ThisFrom, ThisTo, From, To, PinKeys
<1>4. ~ is_primary_input(to_pin[ThisArc])
  BY <1>2, DriverAssumption
<1>5. arrival_time[ThisFrom] \in OptInt /\ ThisDelay \in OptInt
  BY <1>1, <1>2, <1>3 DEF TypeOK, ThisDelay, ArcKeys
<1>6. arrival_time[ThisFrom] # None /\ ThisDelay # None => NewArrival \in Int
  BY <1>5 DEF NewArrival, OptInt
<1>7. /\ Taken => /\ arrival_time' = [arrival_time EXCEPT ![ThisTo] = NewArrival]
                  /\ predecessor' = [predecessor EXCEPT ![ThisTo] = <<Frf, ThisArc>>]
      /\ ~ Taken => UNCHANGED arrivals
  BY DEF propagate_arrival_time, Taken, NewArrival, ThisFrom, ThisTo, ThisDelay, El, Frf, Trf
<1> QED  BY <1>1, <1>2, <1>3, <1>4, <1>6, <1>7

\* Once an arc has a delay it keeps one (Arc::update_delay).
LEMMA DelayStays ==
  ASSUME TypeOK, propagate_delay
  PROVE  \A k \in ArcKeys : delay[k] # None => delay'[k] # None
<1> DEFINE a == ThisArc
           new == get_value(delay_lut[<<a, Trf>>], slew[From(a, El, Frf)], capacitance[To(a, El, Trf)])
<1>1. a \in Arcs /\ from_pin[a] \in Pins /\ to_pin[a] \in Pins
  BY AtArcsType DEF propagate_delay
<1>2. El \in Modes /\ Frf \in Edges /\ Trf \in Edges
  BY EL_FRF_TRF_Type DEF TypeOK, El, Frf, Trf
<1>3. /\ slew[From(a, El, Frf)] \in OptInt
      /\ capacitance[To(a, El, Trf)] \in Int
      /\ delay_lut[<<a, Trf>>] \in Lut \cup {None}
  BY <1>1, <1>2, CircuitAssumption DEF TypeOK, PinKeys, From, To
<1>4. slew[From(a, El, Frf)] # None /\ delay_lut[<<a, Trf>>] # None => new \in Int
  BY <1>3, get_value_Type DEF OptInt
<1>5. \/ delay' = delay
      \/ new \in Int /\ delay' = [delay EXCEPT ![<<a, El, Frf, Trf>>] = new]
  BY <1>4 DEF propagate_delay, El, Frf, Trf
<1> QED  BY <1>5, NoneAssumption DEF TypeOK

\* The steps that touch what ArrivalHasPredecessor is about.
LEMMA ArrivalSteps ==
  ASSUME [Next]_vars
  PROVE  \/ propagate_delay
         \/ propagate_arrival_time
         \/ ResetArrivalTimes /\ UNCHANGED <<delay, predecessor>>
         \/ UNCHANGED <<delay, arrival_time, predecessor>>
BY DEF Next, Pass, Collect, ClientCall, vars, values, arrivals,
       skip_load_pin, add_capacitance, set_capacitance, propagate_slew, skip_start_pin,
       EndFanout, EndPinPass, set_output_requests, propagate_request_arrival_time,
       abort_no_constraint, EndRequestPass, EndReportPass, skip_end_point, start_walk,
       walk_step, abort_walk, EndGroup, update_timing, call_pass, reset_arrival_time,
       reset_request_arrival_time, report_timing

\* At first only the primary inputs have an arrival time.
LEMMA ArrivalInit == Init => ArrivalHasPredecessor /\ InputsStartPaths
BY DEF Init, ArrivalHasPredecessor, InputsStartPaths

\* No step takes the explanation of an arrival time away, or gives a primary
\* input a new one.
LEMMA ArrivalNext ==
  ASSUME TypeOK, ArrivalHasPredecessor, InputsStartPaths, [Next]_vars
  PROVE  ArrivalHasPredecessor' /\ InputsStartPaths'
<1>1. CASE propagate_delay
  <2>1. UNCHANGED arrivals
    BY <1>1 DEF propagate_delay
  <2>2. \A k \in ArcKeys : delay[k] # None => delay'[k] # None
    BY <1>1, DelayStays
  <2>3. ASSUME NEW k \in PinKeys, predecessor[k] # None
        PROVE  <<predecessor[k][2], k[2], predecessor[k][1], k[3]>> \in ArcKeys
    BY <2>3 DEF TypeOK, PinKeys, ArcKeys
  <2> QED  BY <2>1, <2>2, <2>3 DEF arrivals, ArrivalHasPredecessor, InputsStartPaths, Explains
<1>2. CASE propagate_arrival_time
  <2>1. CASE ~ Taken
    <3>1. UNCHANGED <<delay, arrival_time, predecessor>>
      BY <1>2, <2>1, ArrivalStep DEF propagate_arrival_time, values, arrivals
    <3> QED  BY <3>1 DEF ArrivalHasPredecessor, InputsStartPaths, Explains
  <2>2. CASE Taken
    <3>1. /\ ThisTo \in PinKeys /\ NewArrival # None
          /\ arrival_time' = [arrival_time EXCEPT ![ThisTo] = NewArrival]
          /\ predecessor' = [predecessor EXCEPT ![ThisTo] = <<Frf, ThisArc>>]
          /\ delay' = delay
      BY <1>2, <2>2, ArrivalStep, NoneAssumption DEF propagate_arrival_time, values, Taken
    <3>2. \A k \in PinKeys : arrival_time[k] # None => arrival_time'[k] # None
      BY <3>1 DEF TypeOK
    <3>3. ASSUME NEW k \in PinKeys, arrival_time'[k] # None, ~ is_primary_input(k[1])
          PROVE  predecessor'[k] # None /\ Explains(predecessor[k][2], predecessor[k][1], k)'
      <4>1. CASE k = ThisTo
        <5>1. predecessor'[k] = <<Frf, ThisArc>>
          BY <3>1, <4>1 DEF TypeOK
        <5>2. predecessor'[k] # None
          BY <1>2, <5>1, ArrivalStep, NoneAssumption
        <5>3. k[1] = to_pin[ThisArc] /\ k[2] = El /\ k[3] = Trf
          BY <4>1 DEF ThisTo, To
        <5>4. ThisFrom \in PinKeys /\ arrival_time[ThisFrom] # None
          BY <1>2, <2>2, ArrivalStep DEF Taken
        <5>5. arrival_time'[From(ThisArc, k[2], Frf)] # None
          BY <3>2, <5>3, <5>4 DEF ThisFrom
        <5> QED  BY <2>2, <3>1, <5>1, <5>2, <5>3, <5>5 DEF Explains, Taken, ThisDelay
      <4>2. CASE k # ThisTo
        <5>1. arrival_time'[k] = arrival_time[k] /\ predecessor'[k] = predecessor[k]
          BY <3>1, <4>2 DEF TypeOK
        <5>2. predecessor[k] # None /\ Explains(predecessor[k][2], predecessor[k][1], k)
          BY <3>3, <5>1 DEF ArrivalHasPredecessor
        <5>3. From(predecessor[k][2], k[2], predecessor[k][1]) \in PinKeys
          BY <5>2, CircuitAssumption DEF TypeOK, PinKeys, From
        <5> QED  BY <3>1, <3>2, <5>1, <5>2, <5>3 DEF Explains, From
      <4> QED  BY <4>1, <4>2
    <3>4. ASSUME NEW k \in PinKeys, is_primary_input(k[1])
          PROVE  arrival_time'[k] = 0 /\ predecessor'[k] = None
      <4>1. k # ThisTo
        BY <1>2, <3>4, ArrivalStep DEF ThisTo, To
      <4> QED  BY <3>1, <3>4, <4>1 DEF InputsStartPaths, TypeOK
    <3> QED  BY <3>3, <3>4 DEF ArrivalHasPredecessor, InputsStartPaths
  <2> QED  BY <2>1, <2>2
<1>3. CASE ResetArrivalTimes /\ UNCHANGED <<delay, predecessor>>
  BY <1>3 DEF ResetArrivalTimes, ArrivalHasPredecessor, InputsStartPaths
<1>4. CASE UNCHANGED <<delay, arrival_time, predecessor>>
  BY <1>4 DEF ArrivalHasPredecessor, InputsStartPaths, Explains
<1> QED  BY <1>1, <1>2, <1>3, <1>4, ArrivalSteps

-----------------------------------------------------------------------------
(***************************************************************************)
(* How far a report has come.                                              *)
(***************************************************************************)
\* What an operator on arrival times sees of a step that leaves them alone.
SameArrivals == UNCHANGED <<order, delay, arrival_time, predecessor, clock_pin, start_type>>

\* The steps after which a report is in progress.
LEMMA ReportSteps ==
  ASSUME [Next]_vars, phase' = "report"
  PROVE  \/ phase = "report" /\ skip_start_pin
         \/ phase = "report" /\ propagate_arrival_time
         \/ phase = "report" /\ EndFanout
         \/ phase = "report" /\ SameArrivals /\ UNCHANGED loop
         \/ /\ phase = "idle" /\ ResetArrivalTimes
            /\ UNCHANGED <<order, loop>>
<1> USE DEF values, arrivals, loop, timer, report
<1>1. CASE skip_load_pin \/ add_capacitance \/ set_capacitance \/ propagate_slew \/ propagate_delay
  BY <1>1 DEF skip_load_pin, add_capacitance, set_capacitance, propagate_slew, propagate_delay
<1>2. CASE skip_start_pin
  BY <1>2 DEF skip_start_pin
<1>3. CASE propagate_arrival_time
  BY <1>3 DEF propagate_arrival_time
<1>4. CASE EndFanout
  BY <1>4 DEF EndFanout
<1>5. CASE EndPinPass \/ set_output_requests \/ EndRequestPass
  BY <1>5 DEF EndPinPass, set_output_requests, EndRequestPass, EndPass, NextPass
<1>6. CASE propagate_request_arrival_time \/ abort_no_constraint
  BY <1>6 DEF propagate_request_arrival_time, abort_no_constraint, AtConstraint
<1>7. CASE Collect
  BY <1>7 DEF Collect, EndReportPass, skip_end_point, start_walk, walk_step, abort_walk, EndGroup
<1>8. CASE update_timing \/ call_pass \/ reset_arrival_time \/ reset_request_arrival_time
  BY <1>8 DEF update_timing, call_pass, reset_arrival_time, reset_request_arrival_time, Called, Passes
<1>9. CASE \E s \in StartTypes : report_timing(s)
  BY <1>9 DEF report_timing
<1>10. CASE UNCHANGED vars
  BY <1>10 DEF vars, SameArrivals
<1> QED  BY <1>1, <1>2, <1>3, <1>4, <1>5, <1>6, <1>7, <1>8, <1>9, <1>10
         DEF Next, Pass, ClientCall

\* The pin an arc leads to comes later in the order than the pin the loop is
\* at, so no key of a pin at or before it is the one the step writes.
LEMMA WritesLater ==
  ASSUME TypeOK, propagate_arrival_time
  PROVE  \A i \in 1 .. Len(order) : i <= pos => order[i] # to_pin[ThisArc]
<1>1. /\ pos \in 1 .. Len(order) /\ ThisArc \in Arcs
      /\ from_pin[ThisArc] = order[pos]
  BY AtArcsType DEF propagate_arrival_time, ThisPin
<1>2. PICK j \in pos + 1 .. Len(order) : order[j] = to_pin[ThisArc]
  BY <1>1, ArcsLeadForward
<1>3. Len(order) \in Nat
  BY OrderType
<1> QED  BY <1>1, <1>2, <1>3, ArcsLeadForward

\* One turn of the loops: the arc is relaxed, what was relaxed or tight
\* before stays so.
LEMMA ArrivalStepKeepsReport ==
  ASSUME TypeOK, VisitedRelaxed, AllTight, ComesFromFirst(pos),
         phase = "report", propagate_arrival_time
  PROVE  VisitedRelaxed' /\ AllTight' /\ ComesFromFirst(pos)'
<1>1. /\ pos \in 1 .. Len(order) /\ hop \in 1 .. Len(fanout[order[pos]]) /\ ThisArc \in Arcs
      /\ ThisArc = fanout[order[pos]][hop] /\ from_pin[ThisArc] = order[pos]
  BY AtArcsType DEF propagate_arrival_time, ThisPin, ThisArc
<1>2. /\ UNCHANGED <<order, delay, clock_pin, start_type, pos, combo>>
      /\ hop' = hop + 1
      /\ ~ should_skip_start_pin(order[pos])
  BY DEF propagate_arrival_time, NextArc, values, timer, report, ThisPin
<1>3. \A i \in 1 .. Len(order) : i <= pos => order[i] # to_pin[ThisArc]
  BY WritesLater
<1>4. \A p : should_skip_start_pin(p)' = should_skip_start_pin(p)
  BY <1>2 DEF should_skip_start_pin
<1>5. ASSUME NEW k \in PinKeys, k # ThisTo \/ ~ Taken
      PROVE  arrival_time'[k] = arrival_time[k] /\ predecessor'[k] = predecessor[k]
  BY <1>5, ArrivalStep DEF arrivals, TypeOK
<1>6. ASSUME NEW i \in 1 .. Len(order), i <= pos, NEW b \in Arcs, from_pin[b] = order[i],
             NEW m \in Modes, NEW f \in Edges
      PROVE  /\ From(b, m, f) \in PinKeys
             /\ arrival_time'[From(b, m, f)] = arrival_time[From(b, m, f)]
  <2>1. From(b, m, f) \in PinKeys /\ From(b, m, f) # ThisTo
    BY <1>3, <1>6, CircuitAssumption DEF From, ThisTo, To, PinKeys
  <2> QED  BY <1>5, <2>1
<1>7. VisitedRelaxed'
  <2> SUFFICES ASSUME NEW i \in 1 .. Len(order), NEW c \in 1 .. 8,
                      NEW h \in 1 .. Len(fanout[order[i]]),
                      Visited(i, c, h)', ~ should_skip_start_pin(order[i])
               PROVE  Relaxed(fanout[order[i]][h], EL_FRF_TRF[c][1], EL_FRF_TRF[c][2], EL_FRF_TRF[c][3])'
    BY <1>2, <1>4 DEF VisitedRelaxed
  <2> DEFINE b == fanout[order[i]][h]
             m == EL_FRF_TRF[c][1]
             f == EL_FRF_TRF[c][2]
             t == EL_FRF_TRF[c][3]
             v == arrival_time[From(b, m, f)] + delay[<<b, m, f, t>>]
  <2>1. m \in Modes /\ f \in Edges /\ t \in Edges
    BY EL_FRF_TRF_Type
  <2>2. b \in Arcs /\ from_pin[b] = order[i] /\ i <= pos
    <3>1. order[i] \in Pins
      BY OrderType
    <3>2. fanout[order[i]] \in Seq(Arcs)
      BY <3>1, FanoutAssumption
    <3>3. i <= pos
      BY <1>1, <1>2 DEF Visited, TypeOK
    <3> QED  BY <3>1, <3>2, <3>3, FanoutAssumption
  <2>3. From(b, m, f) \in PinKeys /\ arrival_time'[From(b, m, f)] = arrival_time[From(b, m, f)]
    BY <1>6, <2>1, <2>2
  <2>4. To(b, m, t) \in PinKeys /\ <<b, m, f, t>> \in ArcKeys
    BY <2>1, <2>2, CircuitAssumption DEF To, PinKeys, ArcKeys
  <2> HIDE DEF b, m, f, t
  <2>5. ASSUME is_clock_edge_valid(b, f, t), arrival_time[From(b, m, f)] # None,
               delay[<<b, m, f, t>>] # None
        PROVE  ~ Replaces(m, v, arrival_time'[To(b, m, t)])
    <3>1. v \in Int
      BY <2>3, <2>4, <2>5 DEF TypeOK, OptInt
    <3>2. CASE Visited(i, c, h)
      <4>1. ~ Replaces(m, v, arrival_time[To(b, m, t)])
        BY <2>5, <3>2 DEF VisitedRelaxed, Relaxed, b, m, f, t
      <4>2. CASE To(b, m, t) = ThisTo /\ Taken
        <5>1. m = El /\ arrival_time'[To(b, m, t)] = NewArrival /\ NewArrival \in Int
          BY <2>4, <4>2, ArrivalStep DEF To, ThisTo, TypeOK, Taken
        <5>2. Replaces(m, NewArrival, arrival_time[To(b, m, t)])
          BY <4>2, <5>1 DEF Taken
        <5>3. arrival_time[To(b, m, t)] \in OptInt
          BY <2>4 DEF TypeOK
        <5> QED  BY <2>1, <3>1, <4>1, <5>1, <5>2, <5>3, ReplacesMonotone DEF m
      <4>3. CASE To(b, m, t) # ThisTo \/ ~ Taken
        BY <1>5, <2>4, <4>1, <4>3
      <4> QED  BY <4>2, <4>3
    <3>3. CASE ~ Visited(i, c, h)
      <4>1. i = pos /\ c = combo /\ h = hop
        BY <1>1, <1>2, <3>3 DEF Visited, TypeOK
      <4>2. b = ThisArc /\ m = El /\ f = Frf /\ t = Trf
        BY <1>1, <4>1 DEF b, m, f, t, El, Frf, Trf
      <4>3. v = NewArrival /\ To(b, m, t) = ThisTo /\ From(b, m, f) = ThisFrom
        BY <4>2 DEF NewArrival, ThisTo, ThisFrom, ThisDelay
      <4>4. CASE Taken
        <5>1. arrival_time'[ThisTo] = NewArrival
          BY <4>4, ArrivalStep DEF TypeOK
        <5> QED  BY <2>1, <3>1, <4>3, <5>1, ReplacesIrreflexive DEF m
      <4>5. CASE ~ Taken
        <5>1. ~ Replaces(El, NewArrival, arrival_time[ThisTo])
          BY <2>5, <4>2, <4>3, <4>5 DEF Taken, ThisDelay
        <5>2. arrival_time'[ThisTo] = arrival_time[ThisTo]
          BY <1>5, <4>5, ArrivalStep
        <5> QED  BY <4>2, <4>3, <5>1, <5>2
      <4> QED  BY <4>4, <4>5
    <3> QED  BY <3>2, <3>3
  <2> QED  BY <1>2, <2>3, <2>5 DEF Relaxed, From, To, b, m, f, t
<1>8. ASSUME NEW k \in PinKeys, arrival_time'[k] # None, ~ is_primary_input(k[1])
      PROVE  Tight(k)' /\ \E i \in 1 .. Len(order) : i <= pos /\ order[i] = from_pin[predecessor'[k][2]]
  <2>1. CASE k = ThisTo /\ Taken
    <3>1. /\ k[1] = to_pin[ThisArc] /\ k[2] = El /\ k[3] = Trf
          /\ predecessor'[k] = <<Frf, ThisArc>> /\ arrival_time'[k] = NewArrival
      BY <2>1, ArrivalStep DEF ThisTo, To, TypeOK
    <3>2. predecessor'[k] # None
      BY <3>1, ArrivalStep, NoneAssumption
    <3>3. arrival_time'[ThisFrom] = arrival_time[ThisFrom]
      BY <1>1, <1>6, ArrivalStep DEF ThisFrom
    <3>4. PICK a \in Arcs, f \in Edges : a = ThisArc /\ f = Frf
      BY ArrivalStep
    <3>5. Explains(a, f, k)'
      BY <1>2, <2>1, <3>1, <3>3, <3>4 DEF Explains, Taken, ThisFrom, ThisDelay, From
    <3>6. arrival_time'[k] = arrival_time'[From(a, k[2], f)] + delay'[<<a, k[2], f, k[3]>>]
      BY <1>2, <3>1, <3>3, <3>4 DEF NewArrival, ThisFrom, ThisDelay, From
    <3>7. ~ should_skip_start_pin(from_pin[a])'
      BY <1>1, <1>2, <1>4, <3>4
    <3>8. Tight(k)'
      BY <3>1, <3>2, <3>4, <3>5, <3>6, <3>7 DEF Tight, Explains, From
    <3> QED  BY <1>1, <3>1, <3>8
  <2>2. CASE k # ThisTo \/ ~ Taken
    <3> DEFINE f == predecessor[k][1]
               a == predecessor[k][2]
    <3>1. arrival_time'[k] = arrival_time[k] /\ predecessor'[k] = predecessor[k]
      BY <1>5, <2>2
    <3>2. Tight(k) /\ \E i \in 1 .. Len(order) : i <= pos /\ order[i] = from_pin[a]
      BY <1>8, <3>1 DEF AllTight, ComesFromFirst
    <3>3. a \in Arcs /\ f \in Edges /\ k[2] \in Modes
      BY <3>2 DEF Tight, TypeOK, PinKeys
    <3>4. arrival_time'[From(a, k[2], f)] = arrival_time[From(a, k[2], f)]
      BY <1>6, <3>2, <3>3
    <3> QED  BY <1>2, <1>4, <3>1, <3>2, <3>4 DEF Tight, Explains, From
  <2> QED  BY <2>1, <2>2
<1>9. AllTight'
  BY <1>8 DEF AllTight
<1>10. ComesFromFirst(pos)'
  BY <1>2, <1>8 DEF ComesFromFirst
<1> QED  BY <1>7, <1>9, <1>10

\* Nothing is said of arrival times that a step leaving them alone changes.
LEMMA SameArrivalsSame ==
  ASSUME SameArrivals
  PROVE  /\ \A p : should_skip_start_pin(p)' <=> should_skip_start_pin(p)
         /\ \A a, m, f, t : Relaxed(a, m, f, t)' <=> Relaxed(a, m, f, t)
         /\ AllTight => AllTight'
         /\ AllRelaxed => AllRelaxed'
         /\ \A n : ComesFromFirst(n) => ComesFromFirst(n)'
<1>1. /\ order' = order /\ delay' = delay /\ arrival_time' = arrival_time
      /\ predecessor' = predecessor /\ clock_pin' = clock_pin /\ start_type' = start_type
  BY DEF SameArrivals
<1>2. \A p : should_skip_start_pin(p)' <=> should_skip_start_pin(p)
  BY <1>1 DEF should_skip_start_pin
<1>3. \A a, m, f, t : Relaxed(a, m, f, t)' <=> Relaxed(a, m, f, t)
  BY <1>1 DEF Relaxed
<1>4. ASSUME NEW k \in PinKeys, Tight(k)
      PROVE  Tight(k)'
  <2> DEFINE f == predecessor[k][1]
             a == predecessor[k][2]
  <2>1. predecessor[k] # None /\ predecessor'[k] = predecessor[k] /\ Explains(a, f, k)
    BY <1>1, <1>4 DEF Tight
  <2>2. ~ should_skip_start_pin(from_pin[a])
    BY <1>4 DEF Tight
  <2>3. PICK g, b : g = f /\ b = a
    OBVIOUS
  <2>4. Explains(b, g, k)' /\ ~ should_skip_start_pin(from_pin[b])'
    BY <1>1, <1>2, <2>1, <2>2, <2>3 DEF Explains
  <2>5. arrival_time'[k] = arrival_time'[From(b, k[2], g)] + delay'[<<b, k[2], g, k[3]>>]
    BY <1>1, <1>4, <2>3 DEF Tight
  <2> QED  BY <1>1, <2>1, <2>3, <2>4, <2>5 DEF Tight
<1>5. AllTight => AllTight'
  BY <1>1, <1>4 DEF AllTight
<1>6. AllRelaxed => AllRelaxed'
  BY <1>1, <1>2, <1>3 DEF AllRelaxed
<1>7. \A n : ComesFromFirst(n) => ComesFromFirst(n)'
  BY <1>1 DEF ComesFromFirst
<1> QED  BY <1>2, <1>3, <1>5, <1>6, <1>7

\* The fanout of the pin is done for one combination: the same arcs are
\* visited as before.
LEMMA EndFanoutKeepsReport ==
  ASSUME TypeOK, VisitedRelaxed, AllTight, ComesFromFirst(pos), phase = "report", EndFanout
  PROVE  VisitedRelaxed' /\ AllTight' /\ ComesFromFirst(pos)'
<1>1. SameArrivals /\ order' = order /\ pos <= Len(order) /\ hop > Len(fanout[order[pos]])
  BY OrderType DEF EndFanout, AtArcs, values, arrivals, timer, report, TypeOK, SameArrivals
<1>2. \/ combo < 8 /\ combo' = combo + 1 /\ pos' = pos /\ hop' = 1
      \/ combo = 8 /\ combo' = 1 /\ pos' = pos + 1 /\ hop' = 1
  BY DEF EndFanout, NextCombo, EL_FRF_TRF, TypeOK
<1>3. ASSUME NEW i \in 1 .. Len(order), NEW c \in 1 .. 8, NEW h \in 1 .. Len(fanout[order[i]]),
             Visited(i, c, h)'
      PROVE  Visited(i, c, h)
  <2>1. i \in Int /\ c \in Int /\ h \in Int /\ Len(fanout[order[i]]) \in Nat
    BY OrderType, FanoutAssumption
  <2>2. /\ pos \in Int /\ combo \in Int /\ hop \in Int
        /\ c <= 8 /\ h <= Len(fanout[order[i]])
    <3>1. pos \in Int /\ combo \in Int /\ hop \in Int
      BY DEF TypeOK
    <3> QED  BY <2>1, <3>1
  <2>3. i < pos' \/ (i = pos' /\ (c < combo' \/ (c = combo' /\ h < hop')))
    BY <1>3 DEF Visited
  <2>4. i = pos => h < hop
    <3>1. i = pos => hop > Len(fanout[order[i]])
      BY <1>1
    <3> QED  BY <2>1, <2>2, <3>1
  <2>5. i < pos \/ (i = pos /\ c <= combo)
    <3>1. CASE combo' = combo + 1 /\ pos' = pos /\ hop' = 1
      BY <2>1, <2>2, <2>3, <3>1
    <3>2. CASE combo = 8 /\ combo' = 1 /\ pos' = pos + 1 /\ hop' = 1
      BY <2>1, <2>2, <2>3, <3>2
    <3> QED  BY <1>2, <3>1, <3>2
  <2> QED  BY <2>1, <2>2, <2>4, <2>5 DEF Visited
<1>4. VisitedRelaxed'
  <2> SUFFICES ASSUME NEW i \in 1 .. Len(order), NEW c \in 1 .. 8,
                      NEW h \in 1 .. Len(fanout[order[i]]),
                      Visited(i, c, h)', ~ should_skip_start_pin(order[i])
               PROVE  Relaxed(fanout[order[i]][h], EL_FRF_TRF[c][1], EL_FRF_TRF[c][2], EL_FRF_TRF[c][3])'
    BY <1>1, SameArrivalsSame DEF VisitedRelaxed
  <2>1. Relaxed(fanout[order[i]][h], EL_FRF_TRF[c][1], EL_FRF_TRF[c][2], EL_FRF_TRF[c][3])
    BY <1>3 DEF VisitedRelaxed
  <2> QED  BY <1>1, <2>1, SameArrivalsSame
<1>5. AllTight'
  BY <1>1, SameArrivalsSame
<1>6. pos' \in {pos, pos + 1} /\ pos \in Nat
  BY <1>2 DEF TypeOK
<1>7. ComesFromFirst(pos)'
  BY <1>1, <1>6 DEF ComesFromFirst, SameArrivals
<1> QED  BY <1>4, <1>5, <1>7

\* A pin the report leaves out has no arc to be relaxed.
LEMMA SkipKeepsReport ==
  ASSUME TypeOK, VisitedRelaxed, AllTight, ComesFromFirst(pos), phase = "report", skip_start_pin
  PROVE  VisitedRelaxed' /\ AllTight' /\ ComesFromFirst(pos)'
<1>1. /\ SameArrivals /\ order' = order
      /\ pos' = pos + 1 /\ combo' = 1 /\ hop' = 1 /\ should_skip_start_pin(order[pos])
  BY DEF skip_start_pin, NextPin, ThisPin, values, arrivals, timer, report, SameArrivals
<1>2. ASSUME NEW i \in 1 .. Len(order), NEW c \in 1 .. 8, NEW h \in 1 .. Len(fanout[order[i]]),
             Visited(i, c, h)', ~ should_skip_start_pin(order[i])
      PROVE  Visited(i, c, h)
  BY <1>1, <1>2 DEF Visited, TypeOK
<1>3. VisitedRelaxed'
  BY <1>1, <1>2, SameArrivalsSame DEF VisitedRelaxed
<1>4. AllTight'
  BY <1>1, SameArrivalsSame
<1>5. ComesFromFirst(pos)'
  BY <1>1 DEF ComesFromFirst, TypeOK, SameArrivals
<1> QED  BY <1>3, <1>4, <1>5

\* A report starts from nothing but the primary inputs, at the first arc.
LEMMA ResetStartsReport ==
  ASSUME TypeOK, phase = "idle", ResetArrivalTimes, UNCHANGED <<order, loop>>
  PROVE  VisitedRelaxed' /\ AllTight' /\ ComesFromFirst(pos)'
<1>1. pos' = 1 /\ combo' = 1 /\ hop' = 1
  BY DEF TypeOK, Passes, loop
<1>2. \A i \in 1 .. Len(order), c \in 1 .. 8, h \in Nat \ {0} : ~ Visited(i, c, h)'
  BY <1>1 DEF Visited
<1>3. VisitedRelaxed'
  <2> SUFFICES ASSUME NEW i \in 1 .. Len(order'), NEW c \in 1 .. 8,
                      NEW h \in 1 .. Len(fanout[order'[i]]), Visited(i, c, h)'
               PROVE  FALSE
    BY DEF VisitedRelaxed
  <2> QED  BY <1>2
<1>4. \A k \in PinKeys : ~ is_primary_input(k[1]) => arrival_time'[k] = None
  BY DEF ResetArrivalTimes
<1> QED  BY <1>3, <1>4 DEF AllTight, ComesFromFirst

\* Whatever the steps of a report do, the arcs passed stay relaxed.
LEMMA ReportNext ==
  ASSUME TypeOK, ReportInProgress, [Next]_vars
  PROVE  ReportInProgress'
<1> SUFFICES ASSUME phase' = "report"
             PROVE  VisitedRelaxed' /\ AllTight' /\ ComesFromFirst(pos)'
  BY DEF ReportInProgress
<1>1. CASE phase = "report" /\ skip_start_pin
  BY <1>1, SkipKeepsReport DEF ReportInProgress
<1>2. CASE phase = "report" /\ propagate_arrival_time
  BY <1>2, ArrivalStepKeepsReport DEF ReportInProgress
<1>3. CASE phase = "report" /\ EndFanout
  BY <1>3, EndFanoutKeepsReport DEF ReportInProgress
<1>4. CASE phase = "report" /\ SameArrivals /\ UNCHANGED loop
  <2>1. order' = order /\ pos' = pos /\ combo' = combo /\ hop' = hop
    BY <1>4 DEF SameArrivals, loop
  <2>2. VisitedRelaxed'
    BY <1>4, <2>1, SameArrivalsSame DEF ReportInProgress, VisitedRelaxed, Visited
  <2>3. AllTight'
    BY <1>4, SameArrivalsSame DEF ReportInProgress
  <2>4. ComesFromFirst(pos)'
    BY <1>4, <2>1 DEF ReportInProgress, ComesFromFirst, SameArrivals
  <2> QED  BY <2>2, <2>3, <2>4
<1>5. CASE phase = "idle" /\ ResetArrivalTimes /\ UNCHANGED <<order, loop>>
  BY <1>5, ResetStartsReport
<1> QED  BY <1>1, <1>2, <1>3, <1>4, <1>5, ReportSteps

\* The steps after which paths are being collected.
LEMMA CollectSteps ==
  ASSUME [Next]_vars, phase' \in {"collect", "walk"}
  PROVE  /\ SameArrivals
         /\ \/ EndReportPass
            \/ phase = "collect" /\ phase' = "collect" /\ walk' = walk
            \/ start_walk \/ walk_step
            \/ phase \in {"collect", "walk"} /\ UNCHANGED <<phase, walk, group, slew>>
<1> USE DEF values, arrivals, loop, timer, report
<1>1. CASE skip_load_pin \/ add_capacitance \/ set_capacitance \/ propagate_slew \/ propagate_delay
  BY <1>1 DEF skip_load_pin, add_capacitance, set_capacitance, propagate_slew, propagate_delay
<1>2. CASE skip_start_pin \/ propagate_arrival_time \/ EndFanout
  BY <1>2 DEF skip_start_pin, propagate_arrival_time, EndFanout
<1>3. CASE EndPinPass \/ set_output_requests \/ EndRequestPass
  BY <1>3 DEF EndPinPass, set_output_requests, EndRequestPass, EndPass, NextPass
<1>4. CASE propagate_request_arrival_time \/ abort_no_constraint \/ abort_walk
  BY <1>4 DEF propagate_request_arrival_time, abort_no_constraint, AtConstraint, abort_walk
<1>5. CASE EndReportPass
  BY <1>5 DEF EndReportPass, SameArrivals
<1>6. CASE skip_end_point \/ EndGroup
  BY <1>6 DEF skip_end_point, EndGroup, SameArrivals
<1>7. CASE start_walk \/ walk_step
  BY <1>7 DEF start_walk, walk_step, SameArrivals
<1>8. CASE update_timing \/ call_pass \/ reset_arrival_time \/ reset_request_arrival_time
  BY <1>8 DEF update_timing, call_pass, reset_arrival_time, reset_request_arrival_time, Called, Passes
<1>9. CASE \E s \in StartTypes : report_timing(s)
  BY <1>9 DEF report_timing
<1>10. CASE UNCHANGED vars
  BY <1>10 DEF vars, SameArrivals
<1> QED  BY <1>1, <1>2, <1>3, <1>4, <1>5, <1>6, <1>7, <1>8, <1>9, <1>10
         DEF Next, Pass, Collect, ClientCall

\* When every pin of the order has been visited, every arc out of one has.
LEMMA VisitedAll ==
  ASSUME TypeOK, VisitedRelaxed, pos > Len(order)
  PROVE  AllRelaxed
<1> SUFFICES ASSUME NEW i \in 1 .. Len(order), NEW a \in Arcs, NEW m \in Modes,
                    NEW f \in Edges, NEW t \in Edges,
                    from_pin[a] = order[i], ~ should_skip_start_pin(order[i])
             PROVE  Relaxed(a, m, f, t)
  BY DEF AllRelaxed
<1>1. PICK h \in 1 .. Len(fanout[order[i]]) : fanout[order[i]][h] = a
  BY FanoutAssumption
<1>2. PICK c \in 1 .. 8 : EL_FRF_TRF[c][1] = m /\ EL_FRF_TRF[c][2] = f /\ EL_FRF_TRF[c][3] = t
  BY EL_FRF_TRF_Complete
<1>3. Visited(i, c, h)
  BY OrderType DEF Visited, TypeOK
<1> QED  BY <1>1, <1>2, <1>3 DEF VisitedRelaxed

\* A report whose last pin is done is complete, and stays so while paths are
\* collected.
LEMMA CompleteNext ==
  ASSUME TypeOK, ReportInProgress, ReportComplete, [Next]_vars
  PROVE  ReportComplete'
<1> SUFFICES ASSUME phase' \in {"collect", "walk"}
             PROVE  AllRelaxed' /\ AllTight' /\ ComesFromFirst(Len(order))'
  BY DEF ReportComplete
<1>1. SameArrivals /\ order' = order
  BY CollectSteps DEF SameArrivals
<1> SUFFICES AllRelaxed /\ AllTight /\ ComesFromFirst(Len(order))
  <2> QED  BY <1>1, SameArrivalsSame DEF ComesFromFirst, SameArrivals
<1>2. CASE EndReportPass
  <2>1. phase = "report" /\ pos > Len(order)
    BY <1>2 DEF EndReportPass
  <2>2. AllRelaxed
    BY <2>1, VisitedAll DEF ReportInProgress
  <2> QED  BY <2>1, <2>2 DEF ReportInProgress, ComesFromFirst
<1>3. CASE phase \in {"collect", "walk"}
  BY <1>3 DEF ReportComplete
<1>4. EndReportPass \/ phase \in {"collect", "walk"}
  BY CollectSteps DEF start_walk, walk_step
<1> QED  BY <1>2, <1>3, <1>4

-----------------------------------------------------------------------------
(***************************************************************************)
(* Walking back along the predecessors.                                    *)
(***************************************************************************)
\* A walk goes on at a pin with an arrival time, earlier in the order.
LEMMA WalkNext ==
  ASSUME TypeOK, ArrivalHasPredecessor, InputsStartPaths, ReportComplete,
         WalkHasArrival, WalkDescends, [Next]_vars
  PROVE  WalkHasArrival' /\ WalkDescends'
<1> SUFFICES ASSUME phase' = "walk"
             PROVE  WalkAt' # None /\ (walk'.hops # << >> =>
                      \E i, j \in 1 .. Len(order') :
                        i < j /\ order'[i] = walk'.pin /\ order'[j] = walk'.hops[1].pin)
  BY DEF WalkHasArrival, WalkDescends
<1>1. CASE start_walk
  <2>1. PICK p \in end_points :
          /\ Reportable(p, Groups[group][1])
          /\ walk' = [pin |-> p, edge |-> WorstEdge(p, Groups[group][1]),
                      slack |-> Slack(p, Groups[group][1], WorstEdge(p, Groups[group][1])),
                      hops |-> << >>]
    BY <1>1 DEF start_walk
  <2>2. walk'.pin = p /\ walk'.edge \in Edges /\ walk'.hops = << >>
    BY <2>1 DEF WorstEdge, Edges
  <2>3. arrival_time' = arrival_time /\ group' = group
    BY <1>1 DEF start_walk, arrivals
  <2>4. WalkAt' # None
    BY <2>1, <2>2, <2>3 DEF WalkAt, WalkKey, Reportable
  <2> QED  BY <2>2, <2>4
<1>2. CASE walk_step
  <2> DEFINE f == WalkPredecessor[1]
             a == WalkPredecessor[2]
             hops == << [pin |-> walk.pin, edge |-> walk.edge, at |-> WalkAt, slew |-> WalkSlew] >>
                       \o walk.hops
  <2>1. /\ WalkAt # None /\ WalkPredecessor # None /\ phase = "walk"
        /\ walk' = [walk EXCEPT !.edge = f, !.pin = from_pin[a], !.hops = hops]
        /\ UNCHANGED <<order, arrival_time, group>>
    BY <1>2 DEF walk_step, arrivals, PredecessorPin
  <2>2. walk \in WalkStates
    BY <2>1 DEF TypeOK
  <2>3. walk'.pin = from_pin[a] /\ walk'.edge = f /\ walk'.hops = hops
    BY <2>1, <2>2 DEF WalkStates
  <2>4. WalkKey \in PinKeys
    BY <2>2, Groups_Type DEF WalkKey, PinKeys, WalkStates, TypeOK
  <2>5. WalkKey[1] = walk.pin /\ WalkKey[2] = Groups[group][1] /\ WalkKey[3] = walk.edge
    BY DEF WalkKey
  <2>6. ~ is_primary_input(walk.pin)
    BY <2>1, <2>4, <2>5 DEF InputsStartPaths, WalkPredecessor
  <2>7. Explains(a, f, WalkKey)
    BY <2>1, <2>4, <2>5, <2>6 DEF ArrivalHasPredecessor, WalkPredecessor, WalkAt
  <2>8. WalkAt' # None
    BY <2>1, <2>3, <2>5, <2>7 DEF Explains, WalkAt, WalkKey, From
  <2>9. PICK i \in 1 .. Len(order) : order[i] = from_pin[a]
    BY <2>1, <2>4, <2>5, <2>6 DEF ReportComplete, ComesFromFirst, WalkPredecessor, WalkAt
  <2>10. a \in Arcs /\ to_pin[a] = walk.pin
    BY <2>1, <2>4, <2>5, <2>7 DEF Explains, TypeOK, WalkPredecessor
  <2>11. PICK j \in i + 1 .. Len(order) : order[j] = walk.pin
    BY <2>9, <2>10, ArcsLeadForward
  <2>12. hops[1].pin = walk.pin
    BY <2>2 DEF WalkStates
  <2>13. j \in 1 .. Len(order) /\ i < j
    BY <2>9, <2>11, OrderType
  <2> QED  BY <2>1, <2>3, <2>8, <2>9, <2>11, <2>12, <2>13
<1>3. CASE phase \in {"collect", "walk"} /\ UNCHANGED <<phase, walk, group, slew>>
  <2>1. UNCHANGED <<arrival_time, order>> /\ phase = "walk"
    BY <1>3, CollectSteps DEF SameArrivals
  <2> QED  BY <1>3, <2>1 DEF WalkHasArrival, WalkDescends, WalkAt, WalkKey
<1> QED  BY <1>1, <1>2, <1>3, CollectSteps DEF EndReportPass

-----------------------------------------------------------------------------
(***************************************************************************)
(* The report cache.                                                       *)
(***************************************************************************)
\* The steps that a cached report, or the state of the one being built,
\* could notice.
LEMMA CacheSteps ==
  ASSUME [Next]_vars
  PROVE  \/ EndReportPass \/ EndGroup \/ update_timing
         \/ \E s \in StartTypes : report_timing(s)
         \/ phase' = "aborted" /\ report_cache' = report_cache
         \/ /\ UNCHANGED <<report_cache, start_type, group>>
            /\ \/ phase' = phase
               \/ {phase, phase'} \subseteq {"collect", "walk"}
               \/ {phase, phase'} \cap {"report", "collect", "walk", "aborted"} = {}
<1> USE DEF values, arrivals, loop, timer, report
<1>1. CASE skip_load_pin \/ add_capacitance \/ set_capacitance \/ propagate_slew \/ propagate_delay
  BY <1>1 DEF skip_load_pin, add_capacitance, set_capacitance, propagate_slew, propagate_delay
<1>2. CASE skip_start_pin \/ propagate_arrival_time \/ EndFanout
  BY <1>2 DEF skip_start_pin, propagate_arrival_time, EndFanout
<1>3. CASE EndPinPass \/ set_output_requests \/ EndRequestPass
  <2>1. UNCHANGED <<report_cache, start_type, group>>
    BY <1>3 DEF EndPinPass, set_output_requests, EndRequestPass
  <2>2. PICK p \in Passes : EndPass(p)
    BY <1>3 DEF EndPinPass, set_output_requests, EndRequestPass, Passes
  <2>3. phase \in Passes /\ phase' \in Passes \cup {"idle"}
    BY <2>2 DEF EndPass, NextPass, Passes
  <2> QED  BY <2>1, <2>3 DEF Passes
<1>4. CASE propagate_request_arrival_time \/ abort_no_constraint \/ abort_walk
  BY <1>4 DEF propagate_request_arrival_time, abort_no_constraint, abort_walk
<1>5. CASE skip_end_point \/ start_walk \/ walk_step
  BY <1>5 DEF skip_end_point, start_walk, walk_step
<1>6. CASE call_pass \/ reset_arrival_time \/ reset_request_arrival_time
  BY <1>6 DEF call_pass, reset_arrival_time, reset_request_arrival_time, Called, Passes
<1>7. CASE UNCHANGED vars
  BY <1>7 DEF vars
<1> QED  BY <1>1, <1>2, <1>3, <1>4, <1>5, <1>6, <1>7 DEF Next, Pass, Collect, ClientCall

\* A new cache is empty.
LEMMA CacheInit == Init => CacheFillsInOrder
BY DEF Init, EmptyCache, CacheFillsInOrder, IsCached, IsBuilding

\* The report of a group is added to the others, which stay.
LEMMA EndGroupAdds ==
  ASSUME TypeOK, EndGroup
  PROVE  /\ \A s \in StartTypes, g \in 1 .. 4 :
              IsCached(s, g)' <=> IsCached(s, g) \/ (s = start_type /\ g = group)
         /\ \A r \in DOMAIN report_cache :
              r # <<start_type, Groups[group][1], Groups[group][2]>> =>
                r \in DOMAIN report_cache' /\ report_cache'[r] = report_cache[r]
<1> DEFINE key == <<start_type, Groups[group][1], Groups[group][2]>>
<1>1. report_cache' = [r \in DOMAIN report_cache \cup {key} |->
                         IF r = key THEN paths ELSE report_cache[r]]
  BY DEF EndGroup
<1>2. DOMAIN report_cache' = DOMAIN report_cache \cup {key}
  BY <1>1
<1>3. ASSUME NEW s \in StartTypes, NEW g \in 1 .. 4
      PROVE  <<s, Groups[g][1], Groups[g][2]>> = key <=> s = start_type /\ g = group
  <2>1. group \in 1 .. 4
    BY DEF TypeOK
  <2>2. Groups[g][1] = Groups[group][1] /\ Groups[g][2] = Groups[group][2] => g = group
    BY <2>1 DEF Groups
  <2> QED  BY <2>2
<1>4. \A s \in StartTypes, g \in 1 .. 4 :
        IsCached(s, g)' <=> IsCached(s, g) \/ (s = start_type /\ g = group)
  BY <1>2, <1>3 DEF IsCached
<1> QED  BY <1>1, <1>2, <1>4

\* A report being built fills the cache group by group; nothing else touches
\* it but a new Timer.
LEMMA CacheNext ==
  ASSUME TypeOK, CacheFillsInOrder, [Next]_vars
  PROVE  CacheFillsInOrder'
<1> SUFFICES ASSUME NEW s \in StartTypes, NEW g \in 1 .. 4
             PROVE  /\ IsBuilding(s)' => (IsCached(s, g)' <=> g < group' /\ phase' # "report")
                    /\ ~ IsBuilding(s)' /\ phase' # "aborted" => (IsCached(s, g)' <=> IsCached(s, 1)')
  BY DEF CacheFillsInOrder
<1>1. CASE EndReportPass
  <2>1. /\ phase = "report" /\ phase' = "collect" /\ group' = 1
        /\ start_type' = start_type /\ report_cache' = report_cache
    BY <1>1 DEF EndReportPass, timer
  <2>2. /\ IsCached(s, g)' <=> IsCached(s, g)
        /\ IsCached(s, 1)' <=> IsCached(s, 1)
        /\ IsBuilding(s)' <=> IsBuilding(s)
    BY <2>1 DEF IsCached, IsBuilding
  <2>3. /\ IsBuilding(s) => ~ IsCached(s, g)
        /\ ~ IsBuilding(s) => (IsCached(s, g) <=> IsCached(s, 1))
    BY <2>1 DEF CacheFillsInOrder
  <2>4. ~ (g < group')
    BY <2>1
  <2> QED  BY <2>2, <2>3, <2>4
<1>2. CASE EndGroup
  <2>1. /\ \/ group < 4 /\ group' = group + 1 /\ phase' = phase
           \/ group = 4 /\ phase' = "idle"
        /\ phase = "collect" /\ start_type' = start_type
    BY <1>2 DEF EndGroup, Groups, TypeOK
  <2>2. \A x \in 1 .. 4 : IsCached(s, x)' <=> IsCached(s, x) \/ (s = start_type /\ x = group)
    BY <1>2, EndGroupAdds
  <2>3. \A x \in 1 .. 4 : /\ IsBuilding(s) => (IsCached(s, x) <=> x < group)
                          /\ ~ IsBuilding(s) => (IsCached(s, x) <=> IsCached(s, 1))
    BY <2>1 DEF CacheFillsInOrder
  <2>4. group \in 1 .. 4
    BY DEF TypeOK
  <2>5. CASE s = start_type
    <3>1. \A x \in 1 .. 4 : IsCached(s, x)' <=> x <= group
      BY <2>1, <2>2, <2>3, <2>4, <2>5 DEF IsBuilding
    <3>2. /\ IsCached(s, g)' <=> g <= group
          /\ IsCached(s, 1)'
      BY <2>4, <3>1
    <3> QED  BY <2>1, <2>4, <2>5, <3>2 DEF IsBuilding
  <2>6. CASE s # start_type
    BY <2>1, <2>2, <2>3, <2>6 DEF IsBuilding
  <2> QED  BY <2>5, <2>6
<1>3. CASE update_timing
  <2>1. report_cache' = report_cache \/ report_cache' = EmptyCache
    BY <1>3 DEF update_timing, timer
  <2>2. DOMAIN EmptyCache = {}
    BY DEF EmptyCache
  <2>3. phase = "idle" /\ phase' = "capacitance"
    BY <1>3 DEF update_timing, Called
  <2> QED  BY <2>1, <2>2, <2>3 DEF CacheFillsInOrder, IsCached, IsBuilding
<1>4. CASE \E t \in StartTypes : report_timing(t)
  <2>1. PICK t \in StartTypes : report_timing(t)
    BY <1>4
  <2>2. /\ phase = "idle" /\ report_cache' = report_cache
        /\ \/ phase' = phase /\ start_type' = start_type
           \/ phase' = "report" /\ start_type' = t /\ <<t, "MAX", "REG">> \notin DOMAIN report_cache
    BY <2>1 DEF report_timing, InCache
  <2>3. IsCached(s, g) <=> IsCached(s, 1)
    BY <2>2 DEF CacheFillsInOrder, IsBuilding
  <2>4. IsCached(s, 1) <=> <<s, "MAX", "REG">> \in DOMAIN report_cache
    BY DEF IsCached, Groups
  <2>5. IsCached(s, g)' <=> IsCached(s, g)
    BY <2>2 DEF IsCached
  <2>6. IsCached(s, 1)' <=> IsCached(s, 1)
    BY <2>2 DEF IsCached
  <2> QED  BY <2>2, <2>3, <2>4, <2>5, <2>6 DEF IsBuilding
<1>5. CASE phase' = "aborted" /\ report_cache' = report_cache
  BY <1>5 DEF IsBuilding
<1>6. CASE /\ UNCHANGED <<report_cache, start_type, group>>
           /\ \/ phase' = phase
              \/ {phase, phase'} \subseteq {"collect", "walk"}
              \/ {phase, phase'} \cap {"report", "collect", "walk", "aborted"} = {}
  BY <1>6 DEF IsBuilding, IsCached, CacheFillsInOrder
<1> QED  BY <1>1, <1>2, <1>3, <1>4, <1>5, <1>6, CacheSteps

-----------------------------------------------------------------------------
(***************************************************************************)
(* The inductive invariant and what follows from it.                       *)
(***************************************************************************)
\* The inductive invariant holds at first.
LEMMA IInvInit == Init => IInv
<1> SUFFICES ASSUME Init PROVE IInv
  OBVIOUS
<1>1. phase = "idle"
  BY DEF Init
<1> QED  BY <1>1, TypeInit, ArrivalInit, CacheInit
         DEF IInv, WalkHasArrival, ReportInProgress, ReportComplete, WalkDescends

\* Every step of every call keeps the inductive invariant.
LEMMA IInvNext == IInv /\ [Next]_vars => IInv'
BY TypeNext, ArrivalNext, ReportNext, CompleteNext, WalkNext, CacheNext DEF IInv

\* The inductive invariant of Timer: TypeOK, where arrival times come from,
\* and how far the report being built has come.
THEOREM Inductive == Spec => []IInv
BY IInvInit, IInvNext, PTL DEF Spec

\* An arrival time never stands on a predecessor that a reset has made stale
\* (Pin::reset_arrival_time keeps the predecessors).
THEOREM NoStalePredecessor == Spec => []ArrivalHasPredecessor
BY Inductive, PTL DEF IInv

\* Every path starts at a primary input at time 0.
THEOREM PathsStartAtInputs == Spec => []InputsStartPaths
BY Inductive, PTL DEF IInv

\* LOG_ASSERT(arrival_time) in collect_paths cannot fail.
THEOREM NoAssertOnArrival == Spec => []WalkHasArrival
BY Inductive, PTL DEF IInv

\* The arrival times a report is read from are a fixed point of the path
\* equations of the graph, for every circuit, order and history of calls.
THEOREM ReportsAreExact == Spec => []ReportedArrivalsExact
<1>1. IInv => ReportedArrivalsExact
  BY DEF IInv, ReportComplete, ReportedArrivalsExact
<1> QED  BY <1>1, Inductive, PTL

\* The loop over the predecessors goes strictly down the order, so it ends.
THEOREM WalksEnd == Spec => []WalkDescends
BY Inductive, PTL DEF IInv

\* No step changes a report that is in the cache.
LEMMA CachedStep ==
  ASSUME IInv, [Next]_vars, report_cache' # EmptyCache, NEW r \in DOMAIN report_cache
  PROVE  r \in DOMAIN report_cache' /\ report_cache'[r] = report_cache[r]
<1>1. CASE EndGroup
  <2>1. phase = "collect" /\ group \in 1 .. 4 /\ start_type \in StartTypes
    BY <1>1 DEF EndGroup, IInv, TypeOK
  <2>2. ~ IsCached(start_type, group)
    BY <2>1 DEF IInv, CacheFillsInOrder, IsBuilding
  <2> QED  BY <1>1, <2>2, EndGroupAdds DEF IInv, IsCached
<1>2. CASE report_cache' = report_cache
  BY <1>2
<1>3. EndGroup \/ report_cache' = report_cache
  <2>1. CASE EndReportPass
    BY <2>1 DEF EndReportPass, timer
  <2>2. CASE update_timing
    BY <2>2 DEF update_timing, timer
  <2>3. CASE \E s \in StartTypes : report_timing(s)
    BY <2>3 DEF report_timing
  <2> QED  BY <2>1, <2>2, <2>3, CacheSteps
<1> QED  BY <1>1, <1>2, <1>3

\* A reference report_timing returned stays good until a new Timer is made.
THEOREM ReportsStay == Spec => CachedReportsStay
<1>1. IInv /\ [Next]_vars => [KeepsReports]_vars
  BY CachedStep DEF KeepsReports
<1> QED  BY <1>1, Inductive, PTL DEF Spec, CachedReportsStay

-----------------------------------------------------------------------------
(***************************************************************************)
(* The course of an update.                                                *)
(***************************************************************************)
\* A turn of the loops of a pass or of a report.
Turn ==
  \/ skip_load_pin \/ add_capacitance \/ set_capacitance
  \/ propagate_slew \/ propagate_delay \/ propagate_request_arrival_time
  \/ propagate_arrival_time \/ EndFanout \/ skip_start_pin

\* A turn stays in its pass.
LEMMA TurnStays ==
  ASSUME Turn
  PROVE  UNCHANGED <<phase, updating, calls, order, clock_pin, report_cache, report>>
BY DEF Turn, skip_load_pin, add_capacitance, set_capacitance, propagate_slew,
       propagate_delay, propagate_request_arrival_time, propagate_arrival_time, EndFanout,
       skip_start_pin, timer, report

\* Every other step: where it comes from, where it goes, and what it changes.
LEMMA OtherSteps ==
  ASSUME TypeOK, OnlyUpdates, Client # "library", [Next]_vars, ~ Turn
  PROVE  /\ order' = order
         /\ \/ /\ phase = "capacitance" /\ phase' = "slew" /\ pos > Len(order)
               /\ updating' /\ UNCHANGED <<values, arrivals, total, calls>> /\ StartLoop
            \/ /\ phase = "slew" /\ phase' = "delay" /\ pos > Len(order)
               /\ updating' /\ UNCHANGED <<values, arrivals, total, calls>> /\ StartLoop
            \/ /\ phase = "delay" /\ phase' = "arrival" /\ pos > Len(order)
               /\ updating' /\ UNCHANGED <<values, arrivals, total, calls>> /\ StartLoop
            \/ /\ phase = "arrival" /\ phase' = "outputs" /\ pos > Len(order)
               /\ updating' /\ UNCHANGED <<values, arrivals, total, calls>> /\ StartLoop
            \/ /\ phase = "outputs" /\ phase' = "request" /\ set_output_requests
               /\ updating' /\ UNCHANGED <<arrivals, total, calls>> /\ StartLoop
            \/ /\ phase = "request" /\ phase' = "idle" /\ pos > Len(constraint_arcs)
               /\ UNCHANGED <<values, arrivals, total, calls>>
            \/ abort_no_constraint /\ UNCHANGED <<values, arrivals, total, calls>>
            \/ /\ phase \in {"report", "collect", "walk"}
               /\ phase' \in {"report", "collect", "walk", "idle", "aborted"}
               /\ UNCHANGED <<values, arrivals, total, calls>>
            \/ /\ phase = "idle" /\ phase' = "capacitance" /\ calls' = calls + 1
               /\ updating' /\ UNCHANGED <<values, arrivals, total, loop>>
            \/ /\ phase = "idle" /\ phase' \in {"idle", "report"}
               /\ UNCHANGED <<values, total, calls, predecessor>>
               /\ ResetArrivalTimes \/ UNCHANGED arrivals
            \/ UNCHANGED vars
<1> USE DEF StartLoop, EndPass, NextPass, Called
<1>1. CASE EndPinPass
  <2>1. PICK p \in {"capacitance", "slew", "delay", "arrival"} : EndPass(p)
    BY <1>1 DEF EndPinPass
  <2>2. phase = p /\ updating
    BY <2>1 DEF OnlyUpdates, Passes
  <2>3. phase' = NextPass[p] /\ updating'
    BY <2>1, <2>2
  <2>4. UNCHANGED <<order, values, arrivals, total, calls>> /\ pos > Len(order)
    BY <1>1 DEF EndPinPass
  <2>5. StartLoop
    BY <2>1
  <2> QED  BY <2>2, <2>3, <2>4, <2>5
<1>2. CASE set_output_requests
  BY <1>2 DEF set_output_requests, OnlyUpdates, Passes
<1>3. CASE EndRequestPass
  BY <1>3 DEF EndRequestPass, OnlyUpdates, Passes
<1>4. CASE abort_no_constraint
  BY <1>4 DEF abort_no_constraint
<1>5. CASE EndReportPass \/ skip_end_point \/ start_walk
  BY <1>5 DEF EndReportPass, skip_end_point, start_walk
<1>6. CASE walk_step \/ abort_walk \/ EndGroup
  BY <1>6 DEF walk_step, abort_walk, EndGroup
<1>7. CASE update_timing
  BY <1>7 DEF update_timing
<1>8. CASE call_pass \/ reset_arrival_time \/ reset_request_arrival_time
  BY <1>8 DEF call_pass, reset_arrival_time, reset_request_arrival_time
<1>9. CASE \E s \in StartTypes : report_timing(s)
  BY <1>9 DEF report_timing, arrivals
<1>10. CASE UNCHANGED vars
  BY <1>10 DEF vars
<1> QED  BY <1>1, <1>2, <1>3, <1>4, <1>5, <1>6, <1>7, <1>8, <1>9, <1>10
         DEF Next, Pass, Collect, ClientCall, Turn

\* Passes are run by updates only.
LEMMA OnlyUpdatesNext ==
  ASSUME TypeOK, OnlyUpdates, Client # "library", [Next]_vars
  PROVE  OnlyUpdates'
<1>1. CASE Turn
  BY <1>1, TurnStays DEF OnlyUpdates
<1>2. CASE ~ Turn
  <2>1. phase' \in Passes /\ ~ UNCHANGED vars => updating' /\ (calls' = calls + 1 \/ (phase \in Passes /\ calls' = calls))
    BY <1>2, OtherSteps DEF Passes, abort_no_constraint
  <2>2. calls \in Nat
    BY DEF TypeOK
  <2>3. CASE ~ UNCHANGED vars
    BY <2>1, <2>2, <2>3 DEF OnlyUpdates
  <2>4. CASE UNCHANGED vars
    BY <2>4 DEF OnlyUpdates, vars
  <2> QED  BY <2>3, <2>4
<1> QED  BY <1>1, <1>2

\* The first update gets past a pass only by ending it, at the end of its
\* loop over the pins.
LEMMA PastSteps ==
  ASSUME TypeOK, OnlyUpdates, Client # "library", [Next]_vars
  PROVE  /\ Past({"capacitance"})' =>
              \/ Past({"capacitance"})
              \/ First /\ phase = "capacitance" /\ pos > Len(order) /\ ~ Turn
         /\ Past({"capacitance", "slew"})' =>
              \/ Past({"capacitance", "slew"})
              \/ First /\ phase = "slew" /\ pos > Len(order) /\ ~ Turn
         /\ Past({"capacitance", "slew", "delay"})' =>
              \/ Past({"capacitance", "slew", "delay"})
              \/ First /\ phase = "delay" /\ pos > Len(order) /\ ~ Turn
         /\ Updated' => Updated \/ (First /\ phase = "request" /\ pos > Len(constraint_arcs) /\ ~ Turn)
         /\ First' => First \/ phase' = "capacitance"
<1>1. CASE Turn
  BY <1>1, TurnStays DEF Past, Updated, First
<1>2. CASE ~ Turn
  <2>1. \/ phase = "capacitance" /\ phase' = "slew" /\ pos > Len(order) /\ calls' = calls
        \/ phase = "slew" /\ phase' = "delay" /\ pos > Len(order) /\ calls' = calls
        \/ phase = "delay" /\ phase' = "arrival" /\ pos > Len(order) /\ calls' = calls
        \/ phase = "arrival" /\ phase' = "outputs" /\ calls' = calls
        \/ phase = "outputs" /\ phase' = "request" /\ calls' = calls
        \/ phase = "request" /\ phase' = "idle" /\ pos > Len(constraint_arcs) /\ calls' = calls
        \/ phase = "request" /\ phase' = "aborted" /\ calls' = calls
        \/ /\ phase \in {"report", "collect", "walk"} /\ calls' = calls
           /\ phase' \in {"report", "collect", "walk", "idle", "aborted"}
        \/ phase = "idle" /\ phase' = "capacitance" /\ calls' = calls + 1
        \/ phase = "idle" /\ phase' \in {"idle", "report"} /\ calls' = calls
        \/ phase' = phase /\ calls' = calls
    BY <1>2, OtherSteps DEF abort_no_constraint, AtConstraint, vars
  <2>2. calls \in Nat
    BY DEF TypeOK
  <2> QED  BY <1>2, <2>1, <2>2 DEF Past, Updated, First
<1> QED  BY <1>1, <1>2

\* Each table is written by its own pass.
LEMMA ValueSteps ==
  ASSUME TypeOK, OnlyUpdates, Client # "library", [Next]_vars
  PROVE  /\ order' = order
         /\ ~ set_capacitance => capacitance' = capacitance
         /\ ~ propagate_slew => slew' = slew
         /\ ~ propagate_delay => delay' = delay
         /\ ~ set_output_requests /\ ~ propagate_request_arrival_time =>
              request_arrival_time' = request_arrival_time
<1>1. CASE Turn
  BY <1>1 DEF Turn, skip_load_pin, add_capacitance, set_capacitance, propagate_slew, propagate_delay,
              propagate_request_arrival_time, propagate_arrival_time, EndFanout, skip_start_pin,
              values
<1>2. CASE ~ Turn /\ ~ set_output_requests
  <2>1. order' = order /\ UNCHANGED values
    BY <1>2, OtherSteps DEF vars
  <2> QED  BY <2>1 DEF values
<1>3. CASE set_output_requests
  BY <1>3 DEF set_output_requests
<1> QED  BY <1>1, <1>2, <1>3

-----------------------------------------------------------------------------
(***************************************************************************)
(* Capacitances.                                                           *)
(***************************************************************************)
\* What the loads of a driver add up to depends on the loads alone.
LEMMA SumsStay ==
  ASSUME DriversDriveLoads, NEW p \in Pins, ~ IsLoadPin(p), NEW el \in Modes, NEW rf \in Edges,
         NEW n \in 0 .. Len(fanout[p]), NEW s,
         \A k \in PinKeys : IsLoadPin(k[1]) => capacitance'[k] = capacitance[k]
  PROVE  Sums(s, p, el, rf, n)' <=> Sums(s, p, el, rf, n)
<1>1. ASSUME NEW h \in 1 .. n
      PROVE  capacitance'[To(fanout[p][h], el, rf)] = capacitance[To(fanout[p][h], el, rf)]
  <2>1. fanout[p] \in Seq(Arcs) /\ h \in 1 .. Len(fanout[p])
    BY FanoutAssumption
  <2>2. PICK a \in Arcs : a = fanout[p][h] /\ from_pin[a] = p
    BY <2>1, FanoutAssumption
  <2>3. To(a, el, rf) \in PinKeys /\ IsLoadPin(to_pin[a])
    BY <2>2, CircuitAssumption DEF To, PinKeys, DriversDriveLoads
  <2>4. To(a, el, rf)[1] = to_pin[a]
    BY DEF To
  <2> QED  BY <2>2, <2>3, <2>4
<1> QED  BY <1>1 DEF Sums

\* The empty sum.
LEMMA SumsStart ==
  ASSUME NEW p, NEW el, NEW rf
  PROVE  \E s \in [0 .. 0 -> Int] : Sums(s, p, el, rf, 0) /\ s[0] = 0
<1> DEFINE s == [h \in 0 .. 0 |-> 0]
<1>1. s \in [0 .. 0 -> Int] /\ s[0] = 0
  OBVIOUS
<1>2. Sums(s, p, el, rf, 0)
  BY <1>1 DEF Sums
<1> QED  BY <1>1, <1>2

\* One more load.
LEMMA SumsGrow ==
  ASSUME NEW p, NEW el, NEW rf, NEW n \in Nat, NEW s, Sums(s, p, el, rf, n),
         capacitance[To(fanout[p][n + 1], el, rf)] \in Int
  PROVE  \E r \in [0 .. n + 1 -> Int] :
           /\ Sums(r, p, el, rf, n + 1)
           /\ r[n + 1] = s[n] + capacitance[To(fanout[p][n + 1], el, rf)]
<1> DEFINE c == capacitance[To(fanout[p][n + 1], el, rf)]
           r == [h \in 0 .. n + 1 |-> IF h = n + 1 THEN s[n] + c ELSE s[h]]
<1> HIDE DEF c
<1>1. s \in [0 .. n -> Int] /\ s[0] = 0 /\ c \in Int
  BY DEF Sums, c
<1>2. r \in [0 .. n + 1 -> Int]
  BY <1>1
<1>3. r[0] = 0 /\ r[n + 1] = s[n] + c
  BY <1>1
<1>4. \A h \in 1 .. n : s[h] = s[h - 1] + capacitance[To(fanout[p][h], el, rf)]
  BY DEF Sums
<1>5. ASSUME NEW h \in 1 .. n + 1
      PROVE  r[h] = r[h - 1] + capacitance[To(fanout[p][h], el, rf)]
  <2>1. CASE h = n + 1
    <3>1. r[h] = s[n] + c /\ r[h - 1] = s[n]
      BY <2>1
    <3> QED  BY <2>1, <3>1 DEF c
  <2>2. CASE h \in 1 .. n
    <3>1. r[h] = s[h] /\ r[h - 1] = s[h - 1]
      BY <2>2
    <3> QED  BY <1>4, <2>2, <3>1
  <2> QED  BY <2>1, <2>2
<1>6. Sums(r, p, el, rf, n + 1)
  BY <1>2, <1>3, <1>5 DEF Sums
<1> QED  BY <1>2, <1>3, <1>6 DEF c

\* The pin the pass stands at.
LEMMA DriverType ==
  ASSUME TypeOK, AtDriver
  PROVE  /\ pos \in 1 .. Len(order) /\ ThisPin \in Pins /\ combo \in 1 .. 4
         /\ EL_RF[combo][1] \in Modes /\ EL_RF[combo][2] \in Edges
         /\ fanout[ThisPin] \in Seq(Arcs) /\ Len(fanout[ThisPin]) \in Nat
<1>1. pos \in 1 .. Len(order) /\ combo \in 1 .. 4
  BY OrderType DEF TypeOK, AtDriver
<1>2. ThisPin \in Pins
  BY <1>1, OrderType DEF ThisPin
<1> QED  BY <1>1, <1>2, EL_RF_Type, FanoutAssumption

\* The sum of a pin starts at nothing.
StartsAnew ==
  /\ TypeOK /\ hop = 1 /\ total = 0
  /\ ~ AtDriver => combo = 1
  /\ ~ First /\ phase = "capacitance" => CapacitancesSettled
LEMMA TotalStarts == StartsAnew => TotalInv
<1> SUFFICES ASSUME StartsAnew PROVE TotalInv
  OBVIOUS
<1> USE DEF StartsAnew
<1>1. ASSUME AtDriver
      PROVE  hop - 1 <= Len(fanout[ThisPin]) /\ IF First THEN TotalBuilds ELSE TotalRepeats
  <2>1. hop - 1 <= Len(fanout[ThisPin])
    BY <1>1, DriverType
  <2>2. CASE First
    <3>1. PICK s \in [0 .. 0 -> Int] :
            Sums(s, ThisPin, EL_RF[combo][1], EL_RF[combo][2], 0) /\ s[0] = 0
      BY SumsStart
    <3>2. hop - 1 = 0
      OBVIOUS
    <3>3. TotalBuilds
      BY <3>1, <3>2 DEF TotalBuilds
    <3> QED  BY <2>1, <2>2, <3>3
  <2>3. CASE ~ First
    <3> DEFINE n == Len(fanout[ThisPin])
    <3>1. Loaded(ThisPin, EL_RF[combo][1], EL_RF[combo][2])
      BY <1>1, <2>3, DriverType DEF AtDriver, CapacitancesSettled, ThisPin
    <3>2. PICK s \in [0 .. n -> Int] :
            /\ Sums(s, ThisPin, EL_RF[combo][1], EL_RF[combo][2], n)
            /\ s[n] = capacitance[<<ThisPin, EL_RF[combo][1], EL_RF[combo][2]>>]
      BY <3>1 DEF Loaded
    <3>3. hop - 1 = 0 /\ s[0] = 0
      BY <3>2 DEF Sums
    <3>4. TotalRepeats
      BY <3>2, <3>3 DEF TotalRepeats
    <3> QED  BY <2>1, <2>3, <3>4
  <2> QED  BY <2>2, <2>3
<1> QED  BY <1>1 DEF TotalInv

\* The same of the next state.
LEMMA TotalStartsNext == StartsAnew' => TotalInv'
BY TotalStarts, PTL

\* One turn of the loop over the fanout.
LEMMA AddKeepsTotal ==
  ASSUME TypeOK, DriversDriveLoads, CapacitanceInv, add_capacitance
  PROVE  CapacitanceInv'
<1> DEFINE el == EL_RF[combo][1]
           rf == EL_RF[combo][2]
<1>1. AtDriver /\ AtArcs
  BY DEF add_capacitance, AtArcs, AtDriver
<1>2. /\ UNCHANGED <<order, capacitance, phase, calls, pos, combo>>
      /\ hop' = hop + 1 /\ hop \in Nat \ {0}
      /\ total' = total + capacitance[To(ThisArc, el, rf)]
  BY DEF add_capacitance, NextArc, values, TypeOK
<1>3. ThisPin' = ThisPin /\ AtDriver' /\ First' = First
  BY <1>1, <1>2 DEF ThisPin, AtDriver, First
<1>4. PICK p \in Pins, e \in Modes, r \in Edges, h \in Nat \ {0} :
        p = ThisPin /\ e = el /\ r = rf /\ h = hop
  BY <1>1, <1>2, DriverType
<1>5. h \in 1 .. Len(fanout[p]) /\ ThisArc = fanout[p][h] /\ ThisArc \in Arcs
  BY <1>1, <1>4, AtArcsType DEF ThisArc, ThisPin
<1>6. capacitance[To(fanout[p][h], e, r)] \in Int
  BY <1>5, CircuitAssumption DEF TypeOK, PinKeys, To
<1>7. \A s, n : Sums(s, p, e, r, n)' <=> Sums(s, p, e, r, n)
  BY <1>2 DEF Sums
<1>8. EL_RF[combo'][1] = e /\ EL_RF[combo'][2] = r /\ hop' - 1 = h /\ ThisPin' = p
  BY <1>2, <1>3, <1>4
<1>9. First => TotalBuilds'
  <2> SUFFICES ASSUME First PROVE TotalBuilds'
    OBVIOUS
  <2>1. PICK s \in [0 .. h - 1 -> Int] : Sums(s, p, e, r, h - 1) /\ total = s[h - 1]
    BY <1>1, <1>4 DEF CapacitanceInv, TotalInv, TotalBuilds
  <2>2. PICK n \in Nat : n = h - 1
    OBVIOUS
  <2>3. n + 1 = h
    BY <2>2
  <2>4. \E q \in [0 .. n + 1 -> Int] :
          /\ Sums(q, p, e, r, n + 1)
          /\ q[n + 1] = s[n] + capacitance[To(fanout[p][n + 1], e, r)]
    BY <1>6, <2>1, <2>2, <2>3, SumsGrow
  <2>5. PICK q \in [0 .. h -> Int] :
          Sums(q, p, e, r, h) /\ q[h] = s[n] + capacitance[To(fanout[p][h], e, r)]
    BY <2>3, <2>4
  <2>6. Sums(q, p, e, r, h)'
    BY <1>7, <2>5
  <2>7. total' = q[h]
    BY <1>2, <1>4, <1>5, <2>1, <2>2, <2>5
  <2> QED  BY <1>8, <2>5, <2>6, <2>7 DEF TotalBuilds
<1>10. ~ First => TotalRepeats'
  <2> SUFFICES ASSUME ~ First PROVE TotalRepeats'
    OBVIOUS
  <2> DEFINE n == Len(fanout[p])
  <2>1. PICK s \in [0 .. n -> Int] :
          Sums(s, p, e, r, n) /\ s[n] = capacitance[<<p, e, r>>] /\ total = s[h - 1]
    BY <1>1, <1>4 DEF CapacitanceInv, TotalInv, TotalRepeats
  <2>2. total' = s[h]
    BY <1>2, <1>4, <1>5, <2>1 DEF Sums
  <2>3. Sums(s, p, e, r, n)'
    BY <1>7, <2>1
  <2>4. s[n] = capacitance'[<<p, e, r>>]
    BY <1>2, <2>1
  <2> QED  BY <1>8, <2>1, <2>2, <2>3, <2>4 DEF TotalRepeats
<1>11. TotalInv'
  BY <1>2, <1>3, <1>5, <1>8, <1>9, <1>10 DEF TotalInv
<1>12. \A q, x, y : Loaded(q, x, y)' <=> Loaded(q, x, y)
  BY <1>2 DEF Loaded, Sums
<1>13. CapacitancesVisited => CapacitancesVisited'
  BY <1>2, <1>12 DEF CapacitancesVisited
<1>14. CapacitancesSettled => CapacitancesSettled'
  BY <1>2, <1>12 DEF CapacitancesSettled
<1> QED  BY <1>2, <1>3, <1>11, <1>13, <1>14 DEF CapacitanceInv, Past, First

\* The loop over the fanout ends: the pin has the sum of its loads, and a
\* later update finds the one it had.
LEMMA SetKeepsCapacitances ==
  ASSUME TypeOK, TypeOK', OnlyUpdates, DriversDriveLoads, CapacitanceInv, set_capacitance
  PROVE  CapacitanceInv' /\ (~ First => capacitance' = capacitance)
<1>1. AtDriver /\ ~ AtArcs
  BY DEF set_capacitance, AtDriver
<1>2. PICK p \in Pins, e \in Modes, r \in Edges, n \in Nat :
        p = ThisPin /\ e = EL_RF[combo][1] /\ r = EL_RF[combo][2] /\ n = Len(fanout[p])
  BY <1>1, DriverType
<1>3. hop - 1 = n
  BY <1>1, <1>2 DEF CapacitanceInv, TotalInv, AtArcs, AtDriver, TypeOK, ThisPin
<1>4. ~ IsLoadPin(p) /\ <<p, e, r>> \in PinKeys
  BY <1>1, <1>2 DEF AtDriver, PinKeys
<1>5. /\ UNCHANGED <<order, phase, calls>>
      /\ capacitance' = [capacitance EXCEPT ![<<p, e, r>>] = total]
      /\ total' = 0 /\ hop' = 1
      /\ \/ combo < 4 /\ combo' = combo + 1 /\ pos' = pos
         \/ combo = 4 /\ combo' = 1 /\ pos' = pos + 1
  BY <1>1, <1>2, DriverType DEF set_capacitance, NextCombo, EL_RF
<1>6. PICK s \in [0 .. n -> Int] :
        /\ Sums(s, p, e, r, n) /\ total = s[n]
        /\ ~ First => s[n] = capacitance[<<p, e, r>>]
  <2>1. CASE First
    <3>1. TotalBuilds
      BY <1>1, <2>1 DEF CapacitanceInv, TotalInv
    <3> QED  BY <1>2, <1>3, <2>1, <3>1 DEF TotalBuilds
  <2>2. CASE ~ First
    <3>1. TotalRepeats
      BY <1>1, <2>2 DEF CapacitanceInv, TotalInv
    <3> QED  BY <1>2, <1>3, <3>1 DEF TotalRepeats
  <2> QED  BY <2>1, <2>2
<1>7. ~ First => capacitance' = capacitance
  BY <1>4, <1>5, <1>6 DEF TypeOK
<1>8. \A k \in PinKeys : k # <<p, e, r>> => capacitance'[k] = capacitance[k]
  BY <1>5 DEF TypeOK
<1>9. \A k \in PinKeys : IsLoadPin(k[1]) => capacitance'[k] = capacitance[k]
  BY <1>4, <1>8
<1>10. ASSUME NEW q \in Pins, ~ IsLoadPin(q), NEW x \in Modes, NEW y \in Edges,
              Loaded(q, x, y) \/ <<q, x, y>> = <<p, e, r>>
       PROVE  Loaded(q, x, y)'
  <2>1. Len(fanout[q]) \in 0 .. Len(fanout[q])
    BY <1>10, FanoutAssumption
  <2>2. \A z : Sums(z, q, x, y, Len(fanout[q]))' <=> Sums(z, q, x, y, Len(fanout[q]))
    BY <1>9, <1>10, <2>1, SumsStay
  <2>3. CASE <<q, x, y>> = <<p, e, r>>
    <3>1. capacitance'[<<q, x, y>>] = s[n]
      BY <1>4, <1>5, <1>6, <2>3 DEF TypeOK
    <3>2. Sums(s, q, x, y, Len(fanout[q]))'
      BY <1>2, <1>6, <2>2, <2>3
    <3> QED  BY <1>2, <2>3, <3>1, <3>2 DEF Loaded
  <2>4. CASE <<q, x, y>> # <<p, e, r>>
    <3>1. capacitance'[<<q, x, y>>] = capacitance[<<q, x, y>>]
      BY <1>8, <2>4 DEF PinKeys
    <3> QED  BY <1>10, <2>2, <2>4, <3>1 DEF Loaded
  <2> QED  BY <2>3, <2>4
<1>11. CapacitancesSettled => CapacitancesSettled'
  <2> SUFFICES ASSUME CapacitancesSettled,
                      NEW i \in 1 .. Len(order), NEW c \in 1 .. 4, ~ IsLoadPin(order[i])
               PROVE  Loaded(order[i], EL_RF[c][1], EL_RF[c][2])'
    BY <1>5 DEF CapacitancesSettled
  <2>1. PICK q \in Pins, x \in Modes, y \in Edges :
          q = order[i] /\ x = EL_RF[c][1] /\ y = EL_RF[c][2]
    BY OrderType, EL_RF_Type
  <2>2. Loaded(q, x, y)
    BY <2>1 DEF CapacitancesSettled
  <2>3. Loaded(q, x, y)'
    BY <1>10, <2>1, <2>2
  <2> QED  BY <1>5, <2>1, <2>3
<1>12. CapacitancesVisited => CapacitancesVisited'
  <2> SUFFICES ASSUME CapacitancesVisited,
                      NEW i \in 1 .. Len(order), NEW c \in 1 .. 4, ~ IsLoadPin(order[i]),
                      i < pos' \/ (i = pos' /\ c < combo')
               PROVE  Loaded(order[i], EL_RF[c][1], EL_RF[c][2])'
    BY <1>5 DEF CapacitancesVisited
  <2>1. PICK q \in Pins, x \in Modes, y \in Edges :
          q = order[i] /\ x = EL_RF[c][1] /\ y = EL_RF[c][2]
    BY OrderType, EL_RF_Type
  <2>2. \/ i < pos \/ (i = pos /\ c < combo)
        \/ i = pos /\ c = combo
    BY <1>5, OrderType DEF TypeOK
  <2>3. Loaded(q, x, y) \/ <<q, x, y>> = <<p, e, r>>
    BY <1>2, <2>1, <2>2 DEF CapacitancesVisited, ThisPin
  <2>4. Loaded(q, x, y)'
    BY <1>10, <2>1, <2>3
  <2> QED  BY <1>5, <2>1, <2>4
<1>13. phase = "capacitance" /\ (~ First => calls > 1) /\ First' = First
  BY <1>1, <1>5 DEF AtDriver, OnlyUpdates, Passes, First, TypeOK
<1>14. StartsAnew'
  <2>1. ~ AtDriver' => combo' = 1
    BY <1>1, <1>5 DEF AtDriver, ThisPin
  <2>2. ~ First => CapacitancesSettled'
    BY <1>11, <1>13 DEF CapacitanceInv, Past
  <2> QED  BY <1>5, <1>13, <2>1, <2>2 DEF StartsAnew
<1>15. TotalInv'
  BY <1>14, TotalStartsNext
<1> QED  BY <1>5, <1>7, <1>11, <1>12, <1>13, <1>15 DEF CapacitanceInv, Past, First

\* Nothing is said of a capacitance by a step that leaves all of them alone.
LEMMA SameCapacitances ==
  ASSUME UNCHANGED <<order, capacitance>>
  PROVE  CapacitancesSettled => CapacitancesSettled'
<1>1. \A q, x, y : Loaded(q, x, y)' <=> Loaded(q, x, y)
  BY DEF Loaded, Sums
<1> QED  BY <1>1 DEF CapacitancesSettled

\* A load pin is passed by.
LEMMA SkipKeepsCapacitances ==
  ASSUME TypeOK, TypeOK', OnlyUpdates, CapacitanceInv, skip_load_pin
  PROVE  CapacitanceInv'
<1>1. ~ AtDriver /\ phase = "capacitance" /\ IsLoadPin(order[pos]) /\ combo = 1
  BY DEF skip_load_pin, AtDriver, CapacitanceInv, TotalInv, ThisPin
<1>2. /\ UNCHANGED <<order, capacitance, phase, calls, total>>
      /\ pos' = pos + 1 /\ combo' = 1 /\ hop' = 1 /\ total = 0
  BY <1>1 DEF skip_load_pin, NextPin, values, CapacitanceInv, TotalInv
<1>3. \A q, x, y : Loaded(q, x, y)' <=> Loaded(q, x, y)
  BY <1>2 DEF Loaded, Sums
<1>4. CapacitancesSettled => CapacitancesSettled'
  BY <1>2, SameCapacitances
<1>5. CapacitancesVisited => CapacitancesVisited'
  <2> SUFFICES ASSUME CapacitancesVisited,
                      NEW i \in 1 .. Len(order), NEW c \in 1 .. 4, ~ IsLoadPin(order[i]),
                      i < pos' \/ (i = pos' /\ c < combo')
               PROVE  Loaded(order[i], EL_RF[c][1], EL_RF[c][2])
    BY <1>2, <1>3 DEF CapacitancesVisited
  <2>1. i < pos
    BY <1>1, <1>2, OrderType DEF TypeOK
  <2> QED  BY <2>1 DEF CapacitancesVisited
<1>6. (~ First => calls > 1) /\ First' = First
  BY <1>1, <1>2 DEF OnlyUpdates, Passes, First, TypeOK
<1>7. StartsAnew'
  BY <1>1, <1>2, <1>4, <1>6 DEF StartsAnew, CapacitanceInv, Past
<1>8. TotalInv'
  BY <1>7, TotalStartsNext
<1> QED  BY <1>1, <1>2, <1>4, <1>5, <1>6, <1>8 DEF CapacitanceInv, Past, First

\* When the loop over the pins is over, every driver has been visited.
LEMMA CapacitancesComplete ==
  ASSUME TypeOK, CapacitancesVisited, pos > Len(order)
  PROVE  CapacitancesSettled
<1>1. \A i \in 1 .. Len(order) : i < pos
  BY OrderType DEF TypeOK
<1> QED  BY <1>1 DEF CapacitancesVisited, CapacitancesSettled

\* No step takes the sum of its loads from a driver.
LEMMA CapacitanceNext ==
  ASSUME TypeOK, TypeOK', OnlyUpdates, Client # "library", DriversDriveLoads,
         CapacitanceInv, [Next]_vars
  PROVE  CapacitanceInv' /\ (Past({"capacitance"}) => capacitance' = capacitance)
<1>1. CASE add_capacitance
  BY <1>1, AddKeepsTotal DEF add_capacitance, values
<1>2. CASE set_capacitance
  BY <1>2, SetKeepsCapacitances DEF set_capacitance, Past, First
<1>3. CASE skip_load_pin
  BY <1>3, SkipKeepsCapacitances DEF skip_load_pin, values
<1>4. CASE Turn /\ ~ add_capacitance /\ ~ set_capacitance /\ ~ skip_load_pin
  <2>1. /\ phase # "capacitance" /\ total' = total
        /\ UNCHANGED <<order, capacitance, phase, calls>>
    BY <1>4, TurnStays, ValueSteps
    DEF Turn, propagate_slew, propagate_delay, propagate_request_arrival_time, AtConstraint,
        propagate_arrival_time, EndFanout, skip_start_pin
  <2>2. TotalInv'
    BY <2>1 DEF CapacitanceInv, TotalInv, AtDriver
  <2>3. Past({"capacitance"})' => CapacitancesSettled'
    BY <2>1, SameCapacitances DEF CapacitanceInv, Past, First
  <2> QED  BY <2>1, <2>2, <2>3 DEF CapacitanceInv
<1>5. CASE ~ Turn
  <2>1. UNCHANGED <<order, capacitance>>
    BY <1>5, ValueSteps DEF Turn
  <2>2. Past({"capacitance"})' => CapacitancesSettled'
    <3>1. Past({"capacitance"})' => CapacitancesSettled
      BY PastSteps, CapacitancesComplete DEF CapacitanceInv
    <3> QED  BY <2>1, <3>1, SameCapacitances
  <2>3. CASE UNCHANGED vars
    <3>1. \A q, x, y : Loaded(q, x, y)' <=> Loaded(q, x, y)
      BY <2>1 DEF Loaded, Sums
    <3>2. UNCHANGED <<order, phase, calls, pos, combo, hop, total, capacitance>>
      BY <2>3 DEF vars, values, loop
    <3>3. TotalInv'
      BY <3>2 DEF CapacitanceInv, TotalInv, AtDriver, ThisPin, TotalBuilds, TotalRepeats, Sums, First
    <3>4. CapacitancesVisited => CapacitancesVisited'
      BY <3>1, <3>2 DEF CapacitancesVisited
    <3> QED  BY <2>1, <2>2, <3>2, <3>3, <3>4 DEF CapacitanceInv, First
  <2>4. CASE phase' = "capacitance" /\ ~ UNCHANGED vars
    <3>1. phase = "idle" /\ calls' = calls + 1 /\ UNCHANGED <<total, loop>>
      BY <1>5, <2>4, OtherSteps DEF abort_no_constraint
    <3>2. pos' = 1 /\ combo' = 1 /\ hop' = 1 /\ total' = 0
      BY <3>1 DEF TypeOK, Passes, loop, CapacitanceInv, TotalInv, AtDriver
    <3>3. ~ First' => Past({"capacitance"})'
      BY <3>1 DEF First, Past, TypeOK
    <3>4. TotalInv'
      BY <2>2, <3>2, <3>3, TotalStartsNext DEF StartsAnew
    <3>5. CapacitancesVisited'
      BY <3>2 DEF CapacitancesVisited
    <3> QED  BY <2>1, <2>2, <3>4, <3>5 DEF CapacitanceInv
  <2>5. CASE phase' # "capacitance" /\ ~ UNCHANGED vars
    <3>1. total' = total
      BY <1>5, <2>5, OtherSteps
    <3>2. total' = 0
      <4>1. CASE phase = "capacitance"
        <5>1. pos > Len(order)
          BY <1>5, <2>5, <4>1, OtherSteps DEF abort_no_constraint, AtConstraint
        <5>2. ~ AtDriver
          BY <5>1, OrderType DEF AtDriver, TypeOK
        <5> QED  BY <3>1, <5>2 DEF CapacitanceInv, TotalInv
      <4>2. CASE phase # "capacitance"
        BY <3>1, <4>2 DEF CapacitanceInv, TotalInv, AtDriver
      <4> QED  BY <4>1, <4>2
    <3>3. TotalInv'
      BY <2>5, <3>2 DEF TotalInv, AtDriver
    <3> QED  BY <2>1, <2>2, <2>5, <3>3 DEF CapacitanceInv
  <2> QED  BY <2>3, <2>4, <2>5
<1> QED  BY <1>1, <1>2, <1>3, <1>4, <1>5

-----------------------------------------------------------------------------
(***************************************************************************)
(* The loops over the fanouts.                                             *)
(***************************************************************************)
\* One turn visits one arc more.
LEMMA VisitedTurn ==
  ASSUME TypeOK, NextArc, NEW i \in Int, NEW c \in Int, NEW h \in Int, Visited(i, c, h)'
  PROVE  Visited(i, c, h) \/ (i = pos /\ c = combo /\ h = hop)
<1>1. pos \in Int /\ combo \in Int /\ hop \in Int
  BY DEF TypeOK
<1>2. pos' = pos /\ combo' = combo /\ hop' = hop + 1
  BY DEF NextArc
<1>3. i < pos \/ (i = pos /\ (c < combo \/ (c = combo /\ h < hop + 1)))
  BY <1>2 DEF Visited
<1>4. h < hop + 1 => h < hop \/ h = hop
  BY <1>1
<1> QED  BY <1>3, <1>4 DEF Visited

\* The end of a fanout visits none.
LEMMA VisitedEnd ==
  ASSUME TypeOK, EndFanout, NEW i \in 1 .. Len(order), NEW c \in 1 .. 8,
         NEW h \in 1 .. Len(fanout[order[i]]), Visited(i, c, h)'
  PROVE  Visited(i, c, h)
<1>1. pos <= Len(order) /\ hop > Len(fanout[order[pos]])
  <2>1. pos \in 1 .. Len(order)
    BY OrderType DEF EndFanout, TypeOK
  <2>2. fanout[order[pos]] \in Seq(Arcs)
    BY <2>1, OrderType, FanoutAssumption
  <2> QED  BY <2>1, <2>2 DEF EndFanout, AtArcs, TypeOK
<1>2. \/ combo < 8 /\ combo' = combo + 1 /\ pos' = pos /\ hop' = 1
      \/ combo = 8 /\ combo' = 1 /\ pos' = pos + 1 /\ hop' = 1
  BY DEF EndFanout, NextCombo, EL_FRF_TRF, TypeOK
<1>3. i \in Int /\ c \in Int /\ h \in Int /\ Len(fanout[order[i]]) \in Nat /\ c <= 8
      /\ h <= Len(fanout[order[i]])
  BY OrderType, FanoutAssumption
<1>4. pos \in Int /\ combo \in Int /\ hop \in Int
  BY DEF TypeOK
<1>5. i < pos' \/ (i = pos' /\ (c < combo' \/ (c = combo' /\ h < hop')))
  BY DEF Visited
<1>6. i = pos => h < hop
  <2>1. i = pos => hop > Len(fanout[order[i]])
    BY <1>1
  <2> QED  BY <1>3, <1>4, <2>1
<1>7. i < pos \/ (i = pos /\ c <= combo)
  <2>1. CASE combo' = combo + 1 /\ pos' = pos /\ hop' = 1
    BY <1>3, <1>4, <1>5, <2>1
  <2>2. CASE combo = 8 /\ combo' = 1 /\ pos' = pos + 1 /\ hop' = 1
    BY <1>3, <1>4, <1>5, <2>2
  <2> QED  BY <1>2, <2>1, <2>2
<1> QED  BY <1>3, <1>4, <1>6, <1>7 DEF Visited

\* Nothing is visited when a loop starts, and everything when it is over.
LEMMA VisitedAtEnds ==
  ASSUME TypeOK
  PROVE  /\ pos = 1 /\ combo = 1 /\ hop = 1 =>
              \A i \in 1 .. Len(order), c \in 1 .. 8, h \in Nat \ {0} : ~ Visited(i, c, h)
         /\ pos > Len(order) => \A i \in 1 .. Len(order) : \A c, h : Visited(i, c, h)
<1>1. pos \in Int /\ combo \in Int /\ hop \in Int
  BY DEF TypeOK
<1>2. \A i \in 1 .. Len(order) : i \in Int /\ 1 <= i /\ i <= Len(order)
  BY OrderType
<1>3. Len(order) \in Int
  BY OrderType
<1>4. ASSUME pos = 1, combo = 1, hop = 1, NEW i \in 1 .. Len(order), NEW c \in 1 .. 8,
             NEW h \in Nat \ {0}
      PROVE  ~ Visited(i, c, h)
  BY <1>2, <1>4 DEF Visited
<1>5. ASSUME pos > Len(order), NEW i \in 1 .. Len(order), NEW c, NEW h
      PROVE  Visited(i, c, h)
  <2>1. i < pos
    BY <1>1, <1>2, <1>3, <1>5
  <2> QED  BY <2>1 DEF Visited
<1> QED  BY <1>4, <1>5

\* Every arc of a pin in the order comes by in the loops, in every combination.
LEMMA EveryArcComesBy ==
  ASSUME TypeOK, NEW i \in 1 .. Len(order), NEW a \in Arcs, from_pin[a] = order[i],
         NEW m \in Modes, NEW f \in Edges, NEW t \in Edges
  PROVE  \E h \in 1 .. Len(fanout[order[i]]) : \E c \in 1 .. 8 :
           /\ fanout[order[i]][h] = a
           /\ EL_FRF_TRF[c][1] = m /\ EL_FRF_TRF[c][2] = f /\ EL_FRF_TRF[c][3] = t
<1>1. PICK h \in 1 .. Len(fanout[order[i]]) : fanout[order[i]][h] = a
  BY FanoutAssumption
<1>2. PICK c \in 1 .. 8 : EL_FRF_TRF[c][1] = m /\ EL_FRF_TRF[c][2] = f /\ EL_FRF_TRF[c][3] = t
  BY EL_FRF_TRF_Complete
<1> QED  BY <1>1, <1>2

\* The arcs of the loops are arcs of the pin at hand.
LEMMA FanoutType ==
  ASSUME TypeOK, NEW i \in 1 .. Len(order), NEW c \in 1 .. 8,
         NEW h \in 1 .. Len(fanout[order[i]])
  PROVE  /\ fanout[order[i]][h] \in Arcs /\ from_pin[fanout[order[i]][h]] = order[i]
         /\ EL_FRF_TRF[c][1] \in Modes /\ EL_FRF_TRF[c][2] \in Edges /\ EL_FRF_TRF[c][3] \in Edges
         /\ i \in Int /\ c \in Int /\ h \in Int /\ h \in Nat \ {0}
<1>1. order[i] \in Pins /\ i \in Int
  BY OrderType
<1>2. fanout[order[i]] \in Seq(Arcs)
  BY <1>1, FanoutAssumption
<1>3. fanout[order[i]][h] \in Arcs /\ h \in Int /\ h \in Nat \ {0}
  BY <1>2
<1>4. from_pin[fanout[order[i]][h]] = order[i]
  BY <1>1, FanoutAssumption
<1>5. EL_FRF_TRF[c][1] \in Modes /\ EL_FRF_TRF[c][2] \in Edges /\ EL_FRF_TRF[c][3] \in Edges
  BY EL_FRF_TRF_Type
<1> QED  BY <1>1, <1>3, <1>4, <1>5

\* The arc at hand leads to a pin no arc visited so far leaves.
LEMMA LeadsOn ==
  ASSUME TypeOK, AtArcs
  PROVE  \A i \in 1 .. Len(order) : i <= pos => order[i] # to_pin[ThisArc]
<1>1. /\ pos \in 1 .. Len(order) /\ ThisArc \in Arcs
      /\ from_pin[ThisArc] = order[pos]
  BY AtArcsType DEF ThisPin
<1>2. PICK j \in pos + 1 .. Len(order) : order[j] = to_pin[ThisArc]
  BY <1>1, ArcsLeadForward
<1>3. Len(order) \in Nat
  BY OrderType
<1> QED  BY <1>1, <1>2, <1>3, ArcsLeadForward

\* The turn of a pass, by its pin, its arc and its combination.
LEMMA AtTurn ==
  ASSUME TypeOK, AtArcs
  PROVE  \E a \in Arcs, m \in Modes, f \in Edges, t \in Edges, i \in 1 .. Len(order) :
           /\ a = ThisArc /\ m = EL_FRF_TRF[combo][1]
           /\ f = EL_FRF_TRF[combo][2] /\ t = EL_FRF_TRF[combo][3]
           /\ i = pos /\ from_pin[a] = order[i] /\ a = fanout[order[i]][hop]
           /\ From(a, m, f) \in PinKeys /\ To(a, m, t) \in PinKeys /\ <<a, m, f, t>> \in ArcKeys
<1>1. /\ ThisArc \in Arcs /\ pos \in 1 .. Len(order)
      /\ from_pin[ThisArc] = order[pos] /\ ThisArc = fanout[order[pos]][hop]
  BY AtArcsType DEF ThisPin, ThisArc
<1>2. /\ EL_FRF_TRF[combo][1] \in Modes /\ EL_FRF_TRF[combo][2] \in Edges
      /\ EL_FRF_TRF[combo][3] \in Edges
  BY EL_FRF_TRF_Type DEF TypeOK
<1>3. \A a \in Arcs, m \in Modes, f \in Edges, t \in Edges :
        From(a, m, f) \in PinKeys /\ To(a, m, t) \in PinKeys /\ <<a, m, f, t>> \in ArcKeys
  BY CircuitAssumption DEF From, To, PinKeys, ArcKeys
<1> QED  BY <1>1, <1>2, <1>3

-----------------------------------------------------------------------------
(***************************************************************************)
(* Slews.                                                                  *)
(***************************************************************************)
\* One turn: the slew of the arc's to pin, and no other, gets the value the
\* arc computes, if that replaces what is there.
LEMMA SlewTurn ==
  ASSUME TypeOK, propagate_slew,
         NEW a \in Arcs, NEW m \in Modes, NEW f \in Edges, NEW t \in Edges,
         a = ThisArc, m = EL_FRF_TRF[combo][1],
         f = EL_FRF_TRF[combo][2], t = EL_FRF_TRF[combo][3]
  PROVE  LET new == get_value(slew_lut[<<a, t>>], slew[From(a, m, f)], capacitance[To(a, m, t)])
             taken == /\ is_clock_edge_valid(a, f, t)
                      /\ slew[From(a, m, f)] # None
                      /\ slew_lut[<<a, t>>] # None
                      /\ Replaces(m, new, slew[To(a, m, t)])
         IN /\ slew[From(a, m, f)] # None /\ slew_lut[<<a, t>>] # None => new \in Int
            /\ taken => slew' = [slew EXCEPT ![To(a, m, t)] = new]
            /\ ~ taken => slew' = slew
<1> DEFINE new == get_value(slew_lut[<<a, t>>], slew[From(a, m, f)], capacitance[To(a, m, t)])
<1>1. /\ slew[From(a, m, f)] \in OptInt
      /\ capacitance[To(a, m, t)] \in Int
      /\ slew_lut[<<a, t>>] \in Lut \cup {None}
  BY CircuitAssumption DEF TypeOK, PinKeys, From, To
<1>2. slew[From(a, m, f)] # None /\ slew_lut[<<a, t>>] # None => new \in Int
  BY <1>1, get_value_Type DEF OptInt
<1>3. slew' = IF /\ is_clock_edge_valid(a, f, t)
                 /\ slew[From(a, m, f)] # None
                 /\ slew_lut[<<a, t>>] # None
                 /\ Replaces(m, new, slew[To(a, m, t)])
              THEN [slew EXCEPT ![To(a, m, t)] = new]
              ELSE slew
  BY DEF propagate_slew
<1> QED  BY <1>2, <1>3

\* A slew that is there stays there, and is not taken back for a better one.
LEMMA SlewStays ==
  ASSUME TypeOK, OnlyUpdates, Client # "library", [Next]_vars
  PROVE  \A k \in PinKeys : slew[k] # None => slew'[k] # None
<1>1. CASE propagate_slew
  <2>1. PICK a \in Arcs, m \in Modes, f \in Edges, t \in Edges :
          /\ a = ThisArc /\ m = EL_FRF_TRF[combo][1]
          /\ f = EL_FRF_TRF[combo][2] /\ t = EL_FRF_TRF[combo][3]
    BY <1>1, AtTurn DEF propagate_slew
  <2> DEFINE new == get_value(slew_lut[<<a, t>>], slew[From(a, m, f)], capacitance[To(a, m, t)])
             taken == /\ is_clock_edge_valid(a, f, t)
                      /\ slew[From(a, m, f)] # None
                      /\ slew_lut[<<a, t>>] # None
                      /\ Replaces(m, new, slew[To(a, m, t)])
  <2>2. /\ taken => new \in Int
        /\ taken => slew' = [slew EXCEPT ![To(a, m, t)] = new]
        /\ ~ taken => slew' = slew
    BY <1>1, <2>1, SlewTurn
  <2> HIDE DEF new, taken
  <2> QED  BY <2>2, NoneAssumption DEF TypeOK
<1>2. CASE ~ propagate_slew
  BY <1>2, ValueSteps
<1> QED  BY <1>1, <1>2

\* What the loop has passed stays propagated: an arc visited leaves a pin
\* that no later turn writes to.
LEMMA SlewKeepsVisited ==
  ASSUME TypeOK, VisitedSlews, propagate_slew
  PROVE  VisitedSlews'
<1>1. PICK a \in Arcs, m \in Modes, f \in Edges, t \in Edges, p \in 1 .. Len(order) :
        /\ a = ThisArc /\ m = EL_FRF_TRF[combo][1]
        /\ f = EL_FRF_TRF[combo][2] /\ t = EL_FRF_TRF[combo][3]
        /\ p = pos /\ from_pin[a] = order[p] /\ a = fanout[order[p]][hop]
        /\ From(a, m, f) \in PinKeys /\ To(a, m, t) \in PinKeys
  BY AtTurn DEF propagate_slew
<1> DEFINE new == get_value(slew_lut[<<a, t>>], slew[From(a, m, f)], capacitance[To(a, m, t)])
           taken == /\ is_clock_edge_valid(a, f, t)
                    /\ slew[From(a, m, f)] # None
                    /\ slew_lut[<<a, t>>] # None
                    /\ Replaces(m, new, slew[To(a, m, t)])
<1>2. /\ taken => new \in Int
      /\ taken => slew' = [slew EXCEPT ![To(a, m, t)] = new]
      /\ ~ taken => slew' = slew
  BY <1>1, SlewTurn
<1>3. UNCHANGED <<order, capacitance>> /\ NextArc /\ AtArcs
  BY DEF propagate_slew
<1> SUFFICES ASSUME NEW i \in 1 .. Len(order), NEW c \in 1 .. 8,
                    NEW h \in 1 .. Len(fanout[order[i]]), Visited(i, c, h)'
             PROVE  SlewPropagated(fanout[order[i]][h], EL_FRF_TRF[c][1], EL_FRF_TRF[c][2], EL_FRF_TRF[c][3])'
  BY <1>3 DEF VisitedSlews
<1>4. PICK b \in Arcs, n \in Modes, g \in Edges, u \in Edges :
        /\ b = fanout[order[i]][h] /\ n = EL_FRF_TRF[c][1]
        /\ g = EL_FRF_TRF[c][2] /\ u = EL_FRF_TRF[c][3] /\ from_pin[b] = order[i]
  BY FanoutType
<1>5. Visited(i, c, h) \/ (i = pos /\ c = combo /\ h = hop)
  BY <1>3, VisitedTurn, FanoutType
<1>6. i <= pos
  BY <1>5, FanoutType DEF Visited, TypeOK
<1>7. From(b, n, g) \in PinKeys /\ To(b, n, u) \in PinKeys
  BY CircuitAssumption DEF From, To, PinKeys
<1>8. slew'[From(b, n, g)] = slew[From(b, n, g)]
  <2>1. From(b, n, g) # To(a, m, t)
    BY <1>1, <1>3, <1>4, <1>6, LeadsOn DEF From, To
  <2> QED  BY <1>2, <1>7, <2>1 DEF TypeOK
<1> DEFINE v == get_value(slew_lut[<<b, u>>], slew[From(b, n, g)], capacitance[To(b, n, u)])
<1>9. SlewPropagated(b, n, g, u)'
  <2> SUFFICES ASSUME is_clock_edge_valid(b, g, u), slew[From(b, n, g)] # None,
                      slew_lut[<<b, u>>] # None
               PROVE  ~ Replaces(n, v, slew'[To(b, n, u)])
    BY <1>3, <1>8 DEF SlewPropagated
  <2>1. v \in Int
    <3>1. slew[From(b, n, g)] \in Int /\ capacitance[To(b, n, u)] \in Int
      BY <1>7 DEF TypeOK, OptInt
    <3>2. slew_lut[<<b, u>>] \in Lut
      BY CircuitAssumption
    <3> QED  BY <3>1, <3>2, get_value_Type
  <2> HIDE DEF v
  <2>2. CASE Visited(i, c, h)
    <3>1. ~ Replaces(n, v, slew[To(b, n, u)])
      BY <1>4, <2>2 DEF VisitedSlews, SlewPropagated, v
    <3>2. CASE To(b, n, u) = To(a, m, t) /\ taken
      <4>1. n = m /\ slew'[To(b, n, u)] = new
        BY <1>2, <1>7, <3>2 DEF To, TypeOK
      <4>2. Replaces(n, new, slew[To(b, n, u)]) /\ new \in Int
        BY <1>2, <3>2, <4>1
      <4>3. slew[To(b, n, u)] \in OptInt
        BY <1>7 DEF TypeOK
      <4> HIDE DEF new
      <4> QED  BY <2>1, <3>1, <4>1, <4>2, <4>3, ReplacesMonotone
    <3>3. CASE To(b, n, u) # To(a, m, t) \/ ~ taken
      <4>1. slew'[To(b, n, u)] = slew[To(b, n, u)]
        BY <1>2, <1>7, <3>3 DEF TypeOK
      <4> QED  BY <3>1, <4>1
    <3> QED  BY <3>2, <3>3
  <2>3. CASE i = pos /\ c = combo /\ h = hop
    <3>1. b = a /\ n = m /\ g = f /\ u = t
      BY <1>1, <1>4, <2>3
    <3>2. v = new
      BY <3>1 DEF v
    <3>3. CASE taken
      <4>1. slew'[To(b, n, u)] = v
        BY <1>1, <1>2, <3>1, <3>2, <3>3 DEF TypeOK
      <4> QED  BY <2>1, <4>1, ReplacesIrreflexive
    <3>4. CASE ~ taken
      <4>1. slew' = slew /\ ~ Replaces(m, new, slew[To(a, m, t)])
        BY <1>2, <2>3, <3>1, <3>4
      <4> QED  BY <3>1, <3>2, <4>1
    <3> QED  BY <3>3, <3>4
  <2> QED  BY <1>5, <2>2, <2>3
<1> QED  BY <1>3, <1>4, <1>9

\* Nothing is said of a slew by a step that leaves them and the capacitances
\* alone.
LEMMA SameSlews ==
  ASSUME UNCHANGED <<order, capacitance, slew>>
  PROVE  /\ SlewsSettled => SlewsSettled'
         /\ PortsHaveSlews => PortsHaveSlews'
         /\ \A a, m, f, t : SlewPropagated(a, m, f, t)' <=> SlewPropagated(a, m, f, t)
<1>1. \A a, m, f, t : SlewPropagated(a, m, f, t)' <=> SlewPropagated(a, m, f, t)
  BY DEF SlewPropagated
<1> QED  BY <1>1 DEF SlewsSettled, PortsHaveSlews

\* When the loop over the pins is over, every arc has passed its slew on.
LEMMA SlewsComplete ==
  ASSUME TypeOK, VisitedSlews, pos > Len(order)
  PROVE  SlewsSettled
<1> SUFFICES ASSUME NEW i \in 1 .. Len(order), NEW a \in Arcs, NEW m \in Modes,
                    NEW f \in Edges, NEW t \in Edges, from_pin[a] = order[i]
             PROVE  SlewPropagated(a, m, f, t)
  BY DEF SlewsSettled
<1>1. PICK h \in 1 .. Len(fanout[order[i]]) : \E c \in 1 .. 8 :
        /\ fanout[order[i]][h] = a
        /\ EL_FRF_TRF[c][1] = m /\ EL_FRF_TRF[c][2] = f /\ EL_FRF_TRF[c][3] = t
  BY EveryArcComesBy
<1>2. PICK c \in 1 .. 8 :
        /\ fanout[order[i]][h] = a
        /\ EL_FRF_TRF[c][1] = m /\ EL_FRF_TRF[c][2] = f /\ EL_FRF_TRF[c][3] = t
  BY <1>1
<1>3. Visited(i, c, h)
  BY VisitedAtEnds
<1> QED  BY <1>2, <1>3 DEF VisitedSlews

\* A settled arc passes nothing on.
LEMMA SettledSlewTurn ==
  ASSUME TypeOK, SlewsSettled, propagate_slew
  PROVE  slew' = slew
<1>0. AtArcs
  BY DEF propagate_slew
<1>1. PICK a \in Arcs, m \in Modes, f \in Edges, t \in Edges, p \in 1 .. Len(order) :
        /\ a = ThisArc /\ m = EL_FRF_TRF[combo][1]
        /\ f = EL_FRF_TRF[combo][2] /\ t = EL_FRF_TRF[combo][3]
        /\ p = pos /\ from_pin[a] = order[p] /\ a = fanout[order[p]][hop]
        /\ From(a, m, f) \in PinKeys /\ To(a, m, t) \in PinKeys
  BY <1>0, AtTurn
<1>2. SlewPropagated(a, m, f, t)
  BY <1>1 DEF SlewsSettled
<1> QED  BY <1>1, <1>2, SlewTurn DEF SlewPropagated

\* No step but those of the first slew pass changes a slew, and they keep
\* what is settled.
LEMMA SlewNext ==
  ASSUME TypeOK, OnlyUpdates, Client # "library", DriversDriveLoads, TypeOK',
         CapacitanceInv, SlewInv, [Next]_vars
  PROVE  SlewInv' /\ (Past({"capacitance", "slew"}) => slew' = slew)
<1>1. PortsHaveSlews'
  BY SlewStays DEF SlewInv, PortsHaveSlews
<1>2. CASE propagate_slew
  <2>1. phase = "slew" /\ UNCHANGED <<phase, calls, order, capacitance>>
    BY <1>2 DEF propagate_slew
  <2>2. First => VisitedSlews'
    BY <1>2, <2>1, SlewKeepsVisited DEF SlewInv
  <2>3. SlewsSettled => slew' = slew
    BY <1>2, SettledSlewTurn
  <2>4. SlewsSettled => SlewsSettled'
    BY <2>1, <2>3, SameSlews
  <2>5. Past({"capacitance", "slew"})' <=> Past({"capacitance", "slew"})
    BY <2>1 DEF Past, First
  <2> QED  BY <1>1, <2>1, <2>2, <2>3, <2>4, <2>5 DEF SlewInv, First
<1>3. CASE set_capacitance
  <2>1. UNCHANGED <<order, slew, phase, calls>> /\ phase = "capacitance"
    BY <1>3 DEF set_capacitance
  <2>2. Past({"capacitance", "slew"})' => capacitance' = capacitance
    <3>1. Past({"capacitance", "slew"})' => Past({"capacitance", "slew"})
      BY <2>1 DEF Past, First
    <3>2. Past({"capacitance", "slew"}) => ~ First
      BY <2>1 DEF Past, First
    <3> QED  BY <1>3, <3>1, <3>2, SetKeepsCapacitances
  <2>3. Past({"capacitance", "slew"})' <=> Past({"capacitance", "slew"})
    BY <2>1 DEF Past, First
  <2> QED  BY <1>1, <2>1, <2>2, <2>3, SameSlews DEF SlewInv
<1>4. CASE ~ propagate_slew /\ ~ set_capacitance
  <2>1. UNCHANGED <<order, capacitance, slew>>
    BY <1>4, ValueSteps
  <2>2. Past({"capacitance", "slew"})' => SlewsSettled'
    <3>1. Past({"capacitance", "slew"})' => SlewsSettled
      BY PastSteps, SlewsComplete DEF SlewInv
    <3> QED  BY <2>1, <3>1, SameSlews
  <2>3. phase' = "slew" /\ First' => VisitedSlews'
    <3> SUFFICES ASSUME phase' = "slew", First' PROVE VisitedSlews'
      OBVIOUS
    <3>1. CASE EndFanout
      <4>1. VisitedSlews /\ order' = order
        BY <1>4, <3>1, <2>1 DEF EndFanout, SlewInv, First
      <4>2. ASSUME NEW i \in 1 .. Len(order), NEW c \in 1 .. 8,
                   NEW h \in 1 .. Len(fanout[order[i]]), Visited(i, c, h)'
            PROVE  SlewPropagated(fanout[order[i]][h], EL_FRF_TRF[c][1], EL_FRF_TRF[c][2], EL_FRF_TRF[c][3])
        BY <3>1, <4>1, <4>2, VisitedEnd DEF VisitedSlews
      <4> QED  BY <2>1, <4>1, <4>2, SameSlews DEF VisitedSlews
    <3>2. CASE UNCHANGED vars
      <4>1. UNCHANGED <<order, phase, calls, pos, combo, hop>>
        BY <3>2 DEF vars, loop
      <4> QED  BY <2>1, <4>1, SameSlews DEF SlewInv, First, VisitedSlews, Visited
    <3>3. CASE ~ UNCHANGED vars /\ ~ EndFanout
      <4>1. ~ Turn
        BY <1>4, <3>3, TurnStays
        DEF Turn, skip_load_pin, add_capacitance, propagate_delay, propagate_request_arrival_time,
            AtConstraint, propagate_arrival_time, skip_start_pin
      <4>2. pos' = 1 /\ combo' = 1 /\ hop' = 1
        BY <3>3, <4>1, OtherSteps DEF StartLoop, abort_no_constraint
      <4>3. \A i \in 1 .. Len(order), c \in 1 .. 8, h \in Nat \ {0} : ~ Visited(i, c, h)'
        BY <4>2 DEF Visited
      <4> QED  BY <2>1, <4>3 DEF VisitedSlews
    <3> QED  BY <3>1, <3>2, <3>3
  <2> QED  BY <1>1, <2>1, <2>2, <2>3 DEF SlewInv
<1> QED  BY <1>2, <1>3, <1>4

-----------------------------------------------------------------------------
(***************************************************************************)
(* Delays.                                                                 *)
(***************************************************************************)
\* One turn: the delay of the arc in the combination at hand gets the value
\* the arc computes, if that replaces what is there.
LEMMA DelayTurn ==
  ASSUME TypeOK, propagate_delay,
         NEW a \in Arcs, NEW m \in Modes, NEW f \in Edges, NEW t \in Edges,
         a = ThisArc, m = EL_FRF_TRF[combo][1],
         f = EL_FRF_TRF[combo][2], t = EL_FRF_TRF[combo][3]
  PROVE  LET new == get_value(delay_lut[<<a, t>>], slew[From(a, m, f)], capacitance[To(a, m, t)])
             taken == /\ is_clock_edge_valid(a, f, t)
                      /\ slew[From(a, m, f)] # None
                      /\ delay_lut[<<a, t>>] # None
                      /\ Replaces(m, new, delay[<<a, m, f, t>>])
         IN /\ slew[From(a, m, f)] # None /\ delay_lut[<<a, t>>] # None => new \in Int
            /\ taken => delay' = [delay EXCEPT ![<<a, m, f, t>>] = new]
            /\ ~ taken => delay' = delay
<1> DEFINE new == get_value(delay_lut[<<a, t>>], slew[From(a, m, f)], capacitance[To(a, m, t)])
<1>1. /\ slew[From(a, m, f)] \in OptInt
      /\ capacitance[To(a, m, t)] \in Int
      /\ delay_lut[<<a, t>>] \in Lut \cup {None}
  BY CircuitAssumption DEF TypeOK, PinKeys, From, To
<1>2. slew[From(a, m, f)] # None /\ delay_lut[<<a, t>>] # None => new \in Int
  BY <1>1, get_value_Type DEF OptInt
<1>3. delay' = IF /\ is_clock_edge_valid(a, f, t)
                  /\ slew[From(a, m, f)] # None
                  /\ delay_lut[<<a, t>>] # None
                  /\ Replaces(m, new, delay[<<a, m, f, t>>])
               THEN [delay EXCEPT ![<<a, m, f, t>>] = new]
               ELSE delay
  BY DEF propagate_delay
<1> QED  BY <1>2, <1>3

\* What the loop has passed stays propagated.
LEMMA DelayKeepsVisited ==
  ASSUME TypeOK, VisitedDelays, propagate_delay
  PROVE  VisitedDelays'
<1>0. AtArcs /\ NextArc /\ UNCHANGED <<order, capacitance, slew>>
  BY DEF propagate_delay
<1>1. PICK a \in Arcs, m \in Modes, f \in Edges, t \in Edges, p \in 1 .. Len(order) :
        /\ a = ThisArc /\ m = EL_FRF_TRF[combo][1]
        /\ f = EL_FRF_TRF[combo][2] /\ t = EL_FRF_TRF[combo][3]
        /\ p = pos /\ from_pin[a] = order[p] /\ a = fanout[order[p]][hop]
        /\ From(a, m, f) \in PinKeys /\ To(a, m, t) \in PinKeys /\ <<a, m, f, t>> \in ArcKeys
  BY <1>0, AtTurn
<1> DEFINE new == get_value(delay_lut[<<a, t>>], slew[From(a, m, f)], capacitance[To(a, m, t)])
           taken == /\ is_clock_edge_valid(a, f, t)
                    /\ slew[From(a, m, f)] # None
                    /\ delay_lut[<<a, t>>] # None
                    /\ Replaces(m, new, delay[<<a, m, f, t>>])
<1>2. /\ taken => new \in Int
      /\ taken => delay' = [delay EXCEPT ![<<a, m, f, t>>] = new]
      /\ ~ taken => delay' = delay
  BY <1>1, DelayTurn
<1> SUFFICES ASSUME NEW i \in 1 .. Len(order), NEW c \in 1 .. 8,
                    NEW h \in 1 .. Len(fanout[order[i]]), Visited(i, c, h)'
             PROVE  DelayPropagated(fanout[order[i]][h], EL_FRF_TRF[c][1], EL_FRF_TRF[c][2], EL_FRF_TRF[c][3])'
  BY <1>0 DEF VisitedDelays
<1>4. PICK b \in Arcs, n \in Modes, g \in Edges, u \in Edges :
        /\ b = fanout[order[i]][h] /\ n = EL_FRF_TRF[c][1]
        /\ g = EL_FRF_TRF[c][2] /\ u = EL_FRF_TRF[c][3] /\ from_pin[b] = order[i]
  BY FanoutType
<1>5. Visited(i, c, h) \/ (i = pos /\ c = combo /\ h = hop)
  BY <1>0, VisitedTurn, FanoutType
<1>7. From(b, n, g) \in PinKeys /\ To(b, n, u) \in PinKeys /\ <<b, n, g, u>> \in ArcKeys
  BY CircuitAssumption DEF From, To, PinKeys, ArcKeys
<1> DEFINE v == get_value(delay_lut[<<b, u>>], slew[From(b, n, g)], capacitance[To(b, n, u)])
<1>9. DelayPropagated(b, n, g, u)'
  <2> SUFFICES ASSUME is_clock_edge_valid(b, g, u), slew[From(b, n, g)] # None,
                      delay_lut[<<b, u>>] # None
               PROVE  ~ Replaces(n, v, delay'[<<b, n, g, u>>])
    BY <1>0 DEF DelayPropagated
  <2>1. v \in Int
    <3>1. slew[From(b, n, g)] \in Int /\ capacitance[To(b, n, u)] \in Int
      BY <1>7 DEF TypeOK, OptInt
    <3>2. delay_lut[<<b, u>>] \in Lut
      BY CircuitAssumption
    <3> QED  BY <3>1, <3>2, get_value_Type
  <2> HIDE DEF v
  <2>2. CASE <<b, n, g, u>> # <<a, m, f, t>>
    <3>1. ~ (i = pos /\ c = combo /\ h = hop)
      BY <1>1, <1>4, <2>2
    <3>2. ~ Replaces(n, v, delay[<<b, n, g, u>>])
      BY <1>4, <1>5, <3>1 DEF VisitedDelays, DelayPropagated, v
    <3>3. delay'[<<b, n, g, u>>] = delay[<<b, n, g, u>>]
      BY <1>2, <1>7, <2>2 DEF TypeOK
    <3> QED  BY <3>2, <3>3
  <2>3. CASE <<b, n, g, u>> = <<a, m, f, t>>
    <3>1. b = a /\ n = m /\ g = f /\ u = t
      BY <2>3
    <3>2. v = new
      BY <3>1 DEF v
    <3>3. CASE taken
      <4>1. delay'[<<b, n, g, u>>] = v
        BY <1>1, <1>2, <3>1, <3>2, <3>3 DEF TypeOK
      <4> QED  BY <2>1, <4>1, ReplacesIrreflexive
    <3>4. CASE ~ taken
      <4>1. delay' = delay /\ ~ Replaces(m, new, delay[<<a, m, f, t>>])
        BY <1>2, <3>1, <3>4
      <4> QED  BY <3>1, <3>2, <4>1
    <3> QED  BY <3>3, <3>4
  <2> QED  BY <2>2, <2>3
<1> QED  BY <1>0, <1>4, <1>9

\* Nothing is said of a delay by a step that leaves them and what they come
\* from alone.
LEMMA SameDelays ==
  ASSUME UNCHANGED <<order, capacitance, slew, delay>>
  PROVE  /\ DelaysSettled => DelaysSettled'
         /\ DelayNeedsSlews => DelayNeedsSlews'
         /\ \A a, m, f, t : DelayPropagated(a, m, f, t)' <=> DelayPropagated(a, m, f, t)
<1>1. \A a, m, f, t : DelayPropagated(a, m, f, t)' <=> DelayPropagated(a, m, f, t)
  BY DEF DelayPropagated
<1> QED  BY <1>1 DEF DelaysSettled, DelayNeedsSlews

\* When the loop over the pins is over, every arc has its delays.
LEMMA DelaysComplete ==
  ASSUME TypeOK, VisitedDelays, pos > Len(order)
  PROVE  DelaysSettled
<1> SUFFICES ASSUME NEW i \in 1 .. Len(order), NEW a \in Arcs, NEW m \in Modes,
                    NEW f \in Edges, NEW t \in Edges, from_pin[a] = order[i]
             PROVE  DelayPropagated(a, m, f, t)
  BY DEF DelaysSettled
<1>1. PICK h \in 1 .. Len(fanout[order[i]]) : \E c \in 1 .. 8 :
        /\ fanout[order[i]][h] = a
        /\ EL_FRF_TRF[c][1] = m /\ EL_FRF_TRF[c][2] = f /\ EL_FRF_TRF[c][3] = t
  BY EveryArcComesBy
<1>2. PICK c \in 1 .. 8 :
        /\ fanout[order[i]][h] = a
        /\ EL_FRF_TRF[c][1] = m /\ EL_FRF_TRF[c][2] = f /\ EL_FRF_TRF[c][3] = t
  BY <1>1
<1>3. Visited(i, c, h)
  BY VisitedAtEnds
<1> QED  BY <1>2, <1>3 DEF VisitedDelays

\* A settled arc keeps its delays.
LEMMA SettledDelayTurn ==
  ASSUME TypeOK, DelaysSettled, propagate_delay
  PROVE  delay' = delay
<1>0. AtArcs
  BY DEF propagate_delay
<1>1. PICK a \in Arcs, m \in Modes, f \in Edges, t \in Edges, p \in 1 .. Len(order) :
        /\ a = ThisArc /\ m = EL_FRF_TRF[combo][1]
        /\ f = EL_FRF_TRF[combo][2] /\ t = EL_FRF_TRF[combo][3]
        /\ p = pos /\ from_pin[a] = order[p] /\ a = fanout[order[p]][hop]
        /\ From(a, m, f) \in PinKeys /\ To(a, m, t) \in PinKeys
  BY <1>0, AtTurn
<1>2. DelayPropagated(a, m, f, t)
  BY <1>1 DEF DelaysSettled
<1> QED  BY <1>1, <1>2, DelayTurn DEF DelayPropagated

\* A delay is computed after the slews it needs.
LEMMA DelayTurnNeedsSlews ==
  ASSUME TypeOK, SlewsSettled, DelayNeedsSlews, propagate_delay
  PROVE  DelayNeedsSlews'
<1>0. AtArcs /\ UNCHANGED slew
  BY DEF propagate_delay
<1>1. PICK a \in Arcs, m \in Modes, f \in Edges, t \in Edges, p \in 1 .. Len(order) :
        /\ a = ThisArc /\ m = EL_FRF_TRF[combo][1]
        /\ f = EL_FRF_TRF[combo][2] /\ t = EL_FRF_TRF[combo][3]
        /\ p = pos /\ from_pin[a] = order[p] /\ a = fanout[order[p]][hop]
        /\ From(a, m, f) \in PinKeys /\ To(a, m, t) \in PinKeys /\ <<a, m, f, t>> \in ArcKeys
  BY <1>0, AtTurn
<1> DEFINE new == get_value(delay_lut[<<a, t>>], slew[From(a, m, f)], capacitance[To(a, m, t)])
           taken == /\ is_clock_edge_valid(a, f, t)
                    /\ slew[From(a, m, f)] # None
                    /\ delay_lut[<<a, t>>] # None
                    /\ Replaces(m, new, delay[<<a, m, f, t>>])
<1>2. /\ taken => new \in Int
      /\ taken => delay' = [delay EXCEPT ![<<a, m, f, t>>] = new]
      /\ ~ taken => delay' = delay
  BY <1>1, DelayTurn
<1>3. CASE ~ taken
  <2>1. delay' = delay
    BY <1>2, <1>3
  <2> QED  BY <1>0, <2>1 DEF DelayNeedsSlews
<1>4. CASE taken
  <2>1. slew[From(a, m, f)] # None /\ delay_lut[<<a, t>>] # None
    BY <1>4
  <2>2. slew_lut[<<a, t>>] # None => slew[To(a, m, t)] # None
    <3>1. SlewPropagated(a, m, f, t)
      BY <1>1 DEF SlewsSettled
    <3> QED  BY <1>4, <3>1 DEF SlewPropagated, Replaces
  <2>3. \A k \in ArcKeys : k # <<a, m, f, t>> => delay'[k] = delay[k]
    BY <1>2, <1>4 DEF TypeOK
  <2> SUFFICES ASSUME NEW b \in Arcs, NEW n \in Modes, NEW g \in Edges, NEW u \in Edges,
                      delay'[<<b, n, g, u>>] # None
               PROVE  /\ slew[From(b, n, g)] # None
                      /\ delay_lut[<<b, u>>] # None
                      /\ slew_lut[<<b, u>>] # None => slew[To(b, n, u)] # None
    BY <1>0 DEF DelayNeedsSlews
  <2>4. CASE <<b, n, g, u>> = <<a, m, f, t>>
    <3>1. b = a /\ n = m /\ g = f /\ u = t
      BY <2>4
    <3> QED  BY <2>1, <2>2, <3>1
  <2>5. CASE <<b, n, g, u>> # <<a, m, f, t>>
    <3>1. delay[<<b, n, g, u>>] # None
      BY <2>3, <2>5 DEF ArcKeys
    <3> QED  BY <3>1 DEF DelayNeedsSlews
  <2> QED  BY <2>4, <2>5
<1> QED  BY <1>3, <1>4

\* No step but those of the first delay pass changes a delay, and they keep
\* what is settled.
LEMMA DelayNext ==
  ASSUME TypeOK, TypeOK', OnlyUpdates, Client # "library", DriversDriveLoads,
         CapacitanceInv, SlewInv, DelayInv, [Next]_vars
  PROVE  DelayInv' /\ (Past({"capacitance", "slew", "delay"}) => delay' = delay)
<1> DEFINE S == {"capacitance", "slew", "delay"}
<1>1. \A k \in PinKeys : slew[k] # None => slew'[k] # None
  BY SlewStays
<1>2. CASE propagate_delay
  <2>1. phase = "delay" /\ UNCHANGED <<phase, calls, order, capacitance, slew>>
    BY <1>2 DEF propagate_delay
  <2>2. First => VisitedDelays'
    BY <1>2, <2>1, DelayKeepsVisited DEF DelayInv
  <2>3. DelaysSettled => delay' = delay
    BY <1>2, SettledDelayTurn
  <2>4. DelaysSettled => DelaysSettled'
    BY <2>1, <2>3, SameDelays
  <2>5. Past(S)' <=> Past(S)
    BY <2>1 DEF Past, First
  <2>6. Past({"capacitance", "slew"})
    BY <2>1 DEF OnlyUpdates, Passes, Past, First, TypeOK
  <2>7. DelayNeedsSlews'
    BY <1>2, <2>6, DelayTurnNeedsSlews DEF SlewInv, DelayInv
  <2> QED  BY <2>1, <2>2, <2>3, <2>4, <2>5, <2>7 DEF DelayInv, First
<1>3. CASE ~ propagate_delay
  <2>1. delay' = delay /\ order' = order
    BY <1>3, ValueSteps
  <2>2. DelayNeedsSlews'
    <3>1. \A a \in Arcs, m \in Modes, f \in Edges : From(a, m, f) \in PinKeys /\ To(a, m, f) \in PinKeys
      BY CircuitAssumption DEF From, To, PinKeys
    <3> QED  BY <1>1, <2>1, <3>1 DEF DelayInv, DelayNeedsSlews
  <2>3. Past(S)' => UNCHANGED <<capacitance, slew>>
    <3>1. Past(S)' => Past({"capacitance"}) /\ Past({"capacitance", "slew"})
      BY PastSteps DEF Past, First
    <3> QED  BY <3>1, CapacitanceNext, SlewNext
  <2>4. Past(S)' => DelaysSettled'
    <3>1. Past(S)' => DelaysSettled
      BY PastSteps, DelaysComplete DEF DelayInv
    <3> QED  BY <2>1, <2>3, <3>1, SameDelays
  <2>5. phase' = "delay" /\ First' => VisitedDelays'
    <3> SUFFICES ASSUME phase' = "delay", First' PROVE VisitedDelays'
      OBVIOUS
    <3>1. CASE EndFanout
      <4>1. VisitedDelays /\ UNCHANGED <<order, capacitance, slew, delay>>
        BY <3>1 DEF EndFanout, DelayInv, First, values
      <4>2. ASSUME NEW i \in 1 .. Len(order), NEW c \in 1 .. 8,
                   NEW h \in 1 .. Len(fanout[order[i]]), Visited(i, c, h)'
            PROVE  DelayPropagated(fanout[order[i]][h], EL_FRF_TRF[c][1], EL_FRF_TRF[c][2], EL_FRF_TRF[c][3])
        BY <3>1, <4>1, <4>2, VisitedEnd DEF VisitedDelays
      <4> QED  BY <4>1, <4>2, SameDelays DEF VisitedDelays
    <3>2. CASE UNCHANGED vars
      <4>1. UNCHANGED <<order, phase, calls, pos, combo, hop, capacitance, slew, delay>>
        BY <3>2 DEF vars, loop, values
      <4> QED  BY <4>1, SameDelays DEF DelayInv, First, VisitedDelays, Visited
    <3>3. CASE ~ UNCHANGED vars /\ ~ EndFanout
      <4>1. ~ Turn
        BY <1>3, <3>3, TurnStays
        DEF Turn, skip_load_pin, add_capacitance, set_capacitance, propagate_slew,
            propagate_request_arrival_time, AtConstraint, propagate_arrival_time, skip_start_pin
      <4>2. pos' = 1 /\ combo' = 1 /\ hop' = 1
        BY <3>3, <4>1, OtherSteps DEF StartLoop, abort_no_constraint
      <4>3. \A i \in 1 .. Len(order), c \in 1 .. 8, h \in Nat \ {0} : ~ Visited(i, c, h)'
        BY <4>2 DEF Visited
      <4> QED  BY <2>1, <4>3 DEF VisitedDelays
    <3> QED  BY <3>1, <3>2, <3>3
  <2> QED  BY <2>1, <2>2, <2>4, <2>5 DEF DelayInv
<1> QED  BY <1>2, <1>3

-----------------------------------------------------------------------------
(***************************************************************************)
(* Arrival times and requests.                                             *)
(***************************************************************************)
\* What the arrival pass has passed stays propagated.
LEMMA ArrivalKeepsVisited ==
  ASSUME TypeOK, VisitedArrivals, propagate_arrival_time
  PROVE  VisitedArrivals'
<1>0. AtArcs /\ NextArc /\ UNCHANGED <<order, delay>>
  BY DEF propagate_arrival_time, values
<1>1. PICK a \in Arcs, m \in Modes, f \in Edges, t \in Edges, p \in 1 .. Len(order) :
        /\ a = ThisArc /\ m = EL_FRF_TRF[combo][1]
        /\ f = EL_FRF_TRF[combo][2] /\ t = EL_FRF_TRF[combo][3]
        /\ p = pos /\ from_pin[a] = order[p] /\ a = fanout[order[p]][hop]
        /\ From(a, m, f) \in PinKeys /\ To(a, m, t) \in PinKeys /\ <<a, m, f, t>> \in ArcKeys
  BY <1>0, AtTurn
<1> DEFINE new == arrival_time[From(a, m, f)] + delay[<<a, m, f, t>>]
           taken == /\ is_clock_edge_valid(a, f, t)
                    /\ arrival_time[From(a, m, f)] # None
                    /\ delay[<<a, m, f, t>>] # None
                    /\ Replaces(m, new, arrival_time[To(a, m, t)])
<1>2. /\ taken => new \in Int
      /\ taken => arrival_time' = [arrival_time EXCEPT ![To(a, m, t)] = new]
      /\ ~ taken => arrival_time' = arrival_time
  BY <1>1, ArrivalStep DEF Taken, NewArrival, ThisFrom, ThisTo, ThisDelay, El, Frf, Trf, arrivals
<1> SUFFICES ASSUME NEW i \in 1 .. Len(order), NEW c \in 1 .. 8,
                    NEW h \in 1 .. Len(fanout[order[i]]), Visited(i, c, h)'
             PROVE  ArrivalPropagated(arrival_time, fanout[order[i]][h], EL_FRF_TRF[c][1],
                                      EL_FRF_TRF[c][2], EL_FRF_TRF[c][3])'
  BY <1>0 DEF VisitedArrivals
<1>4. PICK b \in Arcs, n \in Modes, g \in Edges, u \in Edges :
        /\ b = fanout[order[i]][h] /\ n = EL_FRF_TRF[c][1]
        /\ g = EL_FRF_TRF[c][2] /\ u = EL_FRF_TRF[c][3] /\ from_pin[b] = order[i]
  BY FanoutType
<1>5. Visited(i, c, h) \/ (i = pos /\ c = combo /\ h = hop)
  BY <1>0, VisitedTurn, FanoutType
<1>6. i <= pos
  BY <1>5, FanoutType DEF Visited, TypeOK
<1>7. From(b, n, g) \in PinKeys /\ To(b, n, u) \in PinKeys /\ <<b, n, g, u>> \in ArcKeys
  BY CircuitAssumption DEF From, To, PinKeys, ArcKeys
<1>8. arrival_time'[From(b, n, g)] = arrival_time[From(b, n, g)]
  <2>1. From(b, n, g) # To(a, m, t)
    BY <1>0, <1>1, <1>4, <1>6, LeadsOn DEF From, To
  <2> QED  BY <1>2, <1>7, <2>1 DEF TypeOK
<1> DEFINE v == arrival_time[From(b, n, g)] + delay[<<b, n, g, u>>]
<1>9. ArrivalPropagated(arrival_time, b, n, g, u)'
  <2> SUFFICES ASSUME is_clock_edge_valid(b, g, u), arrival_time[From(b, n, g)] # None,
                      delay[<<b, n, g, u>>] # None
               PROVE  ~ Replaces(n, v, arrival_time'[To(b, n, u)])
    BY <1>0, <1>8 DEF ArrivalPropagated
  <2>1. v \in Int
    BY <1>7 DEF TypeOK, OptInt
  <2> HIDE DEF v
  <2>2. CASE Visited(i, c, h)
    <3>1. ~ Replaces(n, v, arrival_time[To(b, n, u)])
      BY <1>4, <2>2 DEF VisitedArrivals, ArrivalPropagated, v
    <3>2. CASE To(b, n, u) = To(a, m, t) /\ taken
      <4>1. n = m /\ arrival_time'[To(b, n, u)] = new
        BY <1>2, <1>7, <3>2 DEF To, TypeOK
      <4>2. Replaces(n, new, arrival_time[To(b, n, u)]) /\ new \in Int
        BY <1>2, <3>2, <4>1
      <4>3. arrival_time[To(b, n, u)] \in OptInt
        BY <1>7 DEF TypeOK
      <4> HIDE DEF new
      <4> QED  BY <2>1, <3>1, <4>1, <4>2, <4>3, ReplacesMonotone
    <3>3. CASE To(b, n, u) # To(a, m, t) \/ ~ taken
      <4>1. arrival_time'[To(b, n, u)] = arrival_time[To(b, n, u)]
        BY <1>2, <1>7, <3>3 DEF TypeOK
      <4> QED  BY <3>1, <4>1
    <3> QED  BY <3>2, <3>3
  <2>3. CASE i = pos /\ c = combo /\ h = hop
    <3>1. b = a /\ n = m /\ g = f /\ u = t
      BY <1>1, <1>4, <2>3
    <3>2. v = new
      BY <3>1 DEF v
    <3>3. CASE taken
      <4>1. arrival_time'[To(b, n, u)] = v
        BY <1>1, <1>2, <3>1, <3>2, <3>3 DEF TypeOK
      <4> QED  BY <2>1, <4>1, ReplacesIrreflexive
    <3>4. CASE ~ taken
      <4>1. arrival_time' = arrival_time /\ ~ Replaces(m, new, arrival_time[To(a, m, t)])
        BY <1>2, <3>1, <3>4
      <4> QED  BY <3>1, <3>2, <4>1
    <3> QED  BY <3>3, <3>4
  <2> QED  BY <1>5, <2>2, <2>3
<1> QED  BY <1>0, <1>4, <1>9

\* When the loop over the pins is over, the arrival times are settled.
LEMMA ArrivalsComplete ==
  ASSUME TypeOK, VisitedArrivals, pos > Len(order)
  PROVE  ArrivalsSettled(arrival_time)
<1> SUFFICES ASSUME NEW i \in 1 .. Len(order), NEW a \in Arcs, NEW m \in Modes,
                    NEW f \in Edges, NEW t \in Edges, from_pin[a] = order[i]
             PROVE  ArrivalPropagated(arrival_time, a, m, f, t)
  BY DEF ArrivalsSettled
<1>1. PICK h \in 1 .. Len(fanout[order[i]]) : \E c \in 1 .. 8 :
        /\ fanout[order[i]][h] = a
        /\ EL_FRF_TRF[c][1] = m /\ EL_FRF_TRF[c][2] = f /\ EL_FRF_TRF[c][3] = t
  BY EveryArcComesBy
<1>2. PICK c \in 1 .. 8 :
        /\ fanout[order[i]][h] = a
        /\ EL_FRF_TRF[c][1] = m /\ EL_FRF_TRF[c][2] = f /\ EL_FRF_TRF[c][3] = t
  BY <1>1
<1>3. Visited(i, c, h)
  BY VisitedAtEnds
<1> QED  BY <1>2, <1>3 DEF VisitedArrivals

\* What is no better stays no better when the same is added to both.
LEMMA ReplacesShift ==
  ASSUME NEW m \in Modes, NEW x \in Int, NEW y \in Int, NEW w \in Int, NEW r \in OptInt,
         ~ Replaces(m, x, y), ~ Replaces(m, y + w, r)
  PROVE  r # None /\ ~ Replaces(m, x + w, r)
BY NoneAssumption DEF Replaces, OptInt, Modes

\* A constraint that has a table is a number.
LEMMA ConstraintType ==
  ASSUME TypeOK, NEW a \in Arcs, NEW f \in Edges, NEW t \in Edges, constraint_lut[<<a, t>>] # None
  PROVE  Constraint(a, f, t) \in Int
<1>1. ASSUME NEW mode \in Modes
      PROVE  ConstraintValue(a, mode, f, t) \in Int
  <2>1. constraint_lut[<<a, t>>] \in Lut
    BY CircuitAssumption
  <2>2. slew[To(a, mode, t)] \in OptInt /\ slew[From(a, mode, f)] \in OptInt
    BY CircuitAssumption DEF TypeOK, PinKeys, From, To
  <2>3. value_or_0(slew[To(a, mode, t)]) \in Int /\ value_or_0(slew[From(a, mode, f)]) \in Int
    BY <2>2 DEF value_or_0, OptInt
  <2> QED  BY <2>1, <2>3, get_value_Type DEF ConstraintValue
<1>2. ConstraintValue(a, "MAX", f, t) \in Int /\ ConstraintValue(a, "MIN", f, t) \in Int
  BY <1>1 DEF Modes
<1> QED  BY <1>2 DEF Constraint

\* The turn of the request pass, by its arc and its combination.
LEMMA AtRequestTurn ==
  ASSUME TypeOK, propagate_request_arrival_time
  PROVE  \E a \in Arcs, m \in Modes, f \in Edges, t \in Edges, i \in 1 .. Len(constraint_arcs) :
           /\ a = constraint_arcs[pos] /\ m = EL_FRF_TRF[combo][1]
           /\ f = EL_FRF_TRF[combo][2] /\ t = EL_FRF_TRF[combo][3] /\ i = pos
           /\ From(a, m, f) \in PinKeys /\ To(a, m, t) \in PinKeys
<1>1. pos \in 1 .. Len(constraint_arcs) /\ constraint_arcs[pos] \in Arcs
  BY CircuitAssumption DEF TypeOK, propagate_request_arrival_time, AtConstraint
<1>2. /\ EL_FRF_TRF[combo][1] \in Modes /\ EL_FRF_TRF[combo][2] \in Edges
      /\ EL_FRF_TRF[combo][3] \in Edges
  BY EL_FRF_TRF_Type DEF TypeOK
<1>3. \A a \in Arcs, m \in Modes, f \in Edges : From(a, m, f) \in PinKeys /\ To(a, m, f) \in PinKeys
  BY CircuitAssumption DEF From, To, PinKeys
<1> QED  BY <1>1, <1>2, <1>3

\* One turn: the to pin of the constraint arc gets the request, if that
\* replaces what is there.
LEMMA RequestTurn ==
  ASSUME TypeOK, propagate_request_arrival_time,
         NEW a \in Arcs, NEW m \in Modes, NEW f \in Edges, NEW t \in Edges,
         a = constraint_arcs[pos], m = EL_FRF_TRF[combo][1],
         f = EL_FRF_TRF[combo][2], t = EL_FRF_TRF[combo][3]
  PROVE  LET new == arrival_time[From(a, m, f)] + Constraint(a, f, t)
             taken == Constrains(a, m, f, t) /\ Replaces(m, new, request_arrival_time[To(a, m, t)])
         IN /\ Constrains(a, m, f, t) => /\ constraint_lut[<<a, t>>] # None
                                         /\ Constraint(a, f, t) \in Int
                                         /\ arrival_time[From(a, m, f)] \in Int
            /\ taken => request_arrival_time' = [request_arrival_time EXCEPT ![To(a, m, t)] = new]
            /\ ~ taken => request_arrival_time' = request_arrival_time
<1> DEFINE new == arrival_time[From(a, m, f)] + Constraint(a, f, t)
<1>1. Constrains(a, m, f, t) => constraint_lut[<<a, t>>] # None
  BY DEF propagate_request_arrival_time, ConstraintArc
<1>2. constraint_lut[<<a, t>>] # None => Constraint(a, f, t) \in Int
  BY ConstraintType
<1>3. Constrains(a, m, f, t) => arrival_time[From(a, m, f)] \in Int
  BY CircuitAssumption DEF Constrains, TypeOK, OptInt, PinKeys, From
<1>4. request_arrival_time' =
        IF Constrains(a, m, f, t) /\ Replaces(m, new, request_arrival_time[To(a, m, t)])
        THEN [request_arrival_time EXCEPT ![To(a, m, t)] = new]
        ELSE request_arrival_time
  BY DEF propagate_request_arrival_time, ConstraintArc, Constraint
<1> QED  BY <1>1, <1>2, <1>3, <1>4

\* A constraint arc the pass has come by asks for nothing more.
LEMMA RequestKeepsVisited ==
  ASSUME TypeOK, VisitedRequests, propagate_request_arrival_time
  PROVE  VisitedRequests'
<1>1. PICK a \in Arcs, m \in Modes, f \in Edges, t \in Edges, p \in 1 .. Len(constraint_arcs) :
        /\ a = constraint_arcs[pos] /\ m = EL_FRF_TRF[combo][1]
        /\ f = EL_FRF_TRF[combo][2] /\ t = EL_FRF_TRF[combo][3] /\ p = pos
        /\ From(a, m, f) \in PinKeys /\ To(a, m, t) \in PinKeys
  BY AtRequestTurn
<1> DEFINE new == arrival_time[From(a, m, f)] + Constraint(a, f, t)
           taken == Constrains(a, m, f, t) /\ Replaces(m, new, request_arrival_time[To(a, m, t)])
<1>2. /\ Constrains(a, m, f, t) => /\ constraint_lut[<<a, t>>] # None
                                   /\ Constraint(a, f, t) \in Int
                                   /\ arrival_time[From(a, m, f)] \in Int
      /\ taken => request_arrival_time' = [request_arrival_time EXCEPT ![To(a, m, t)] = new]
      /\ ~ taken => request_arrival_time' = request_arrival_time
  BY <1>1, RequestTurn
<1>3. /\ UNCHANGED <<slew, arrival_time>>
      /\ \/ combo < 8 /\ combo' = combo + 1 /\ pos' = pos
         \/ combo = 8 /\ combo' = 1 /\ pos' = pos + 1
  BY DEF propagate_request_arrival_time, NextCombo, EL_FRF_TRF, arrivals, TypeOK
<1> SUFFICES ASSUME NEW i \in 1 .. Len(constraint_arcs), NEW c \in 1 .. 8,
                    i < pos' \/ (i = pos' /\ c < combo')
             PROVE  Requested(arrival_time, constraint_arcs[i], EL_FRF_TRF[c][1],
                              EL_FRF_TRF[c][2], EL_FRF_TRF[c][3])'
  BY DEF VisitedRequests
<1>4. PICK b \in Arcs, n \in Modes, g \in Edges, u \in Edges :
        /\ b = constraint_arcs[i] /\ n = EL_FRF_TRF[c][1]
        /\ g = EL_FRF_TRF[c][2] /\ u = EL_FRF_TRF[c][3]
  BY CircuitAssumption, EL_FRF_TRF_Type
<1>5. (i < pos \/ (i = pos /\ c < combo)) \/ (i = pos /\ c = combo)
  <2>1. i \in Int /\ c \in Int /\ c <= 8 /\ pos \in Int /\ combo \in Int
    BY CircuitAssumption DEF TypeOK
  <2> QED  BY <1>3, <2>1
<1>6. From(b, n, g) \in PinKeys /\ To(b, n, u) \in PinKeys
  BY CircuitAssumption DEF From, To, PinKeys
<1>7. Constraint(b, g, u)' = Constraint(b, g, u)
  BY <1>3 DEF Constraint, ConstraintValue
<1> DEFINE v == arrival_time[From(b, n, g)] + Constraint(b, g, u)
<1>8. Requested(arrival_time, b, n, g, u)'
  <2> SUFFICES ASSUME is_clock_edge_valid(b, g, u), IsSetup(b) => n = "MAX", IsHold(b) => n = "MIN",
                      arrival_time[From(b, n, g)] # None
               PROVE  constraint_lut[<<b, u>>] # None /\ ~ Replaces(n, v, request_arrival_time'[To(b, n, u)])
    BY <1>3, <1>7 DEF Requested
  <2>1. CASE i < pos \/ (i = pos /\ c < combo)
    <3>1. constraint_lut[<<b, u>>] # None /\ ~ Replaces(n, v, request_arrival_time[To(b, n, u)])
      BY <1>4, <2>1 DEF VisitedRequests, Requested
    <3>2. v \in Int
      <4>1. Constraint(b, g, u) \in Int
        BY <3>1, ConstraintType
      <4> QED  BY <1>6, <4>1 DEF TypeOK, OptInt
    <3> HIDE DEF v
    <3>3. CASE To(b, n, u) = To(a, m, t) /\ taken
      <4>1. n = m /\ request_arrival_time'[To(b, n, u)] = new /\ new \in Int
        BY <1>2, <1>6, <3>3 DEF To, TypeOK
      <4>2. Replaces(n, new, request_arrival_time[To(b, n, u)])
        BY <3>3, <4>1
      <4>3. request_arrival_time[To(b, n, u)] \in OptInt
        BY <1>6 DEF TypeOK
      <4> HIDE DEF new
      <4> QED  BY <3>1, <3>2, <4>1, <4>2, <4>3, ReplacesMonotone
    <3>4. CASE To(b, n, u) # To(a, m, t) \/ ~ taken
      <4>1. request_arrival_time'[To(b, n, u)] = request_arrival_time[To(b, n, u)]
        BY <1>2, <1>6, <3>4 DEF TypeOK
      <4> QED  BY <3>1, <4>1
    <3> QED  BY <3>3, <3>4
  <2>2. CASE i = pos /\ c = combo
    <3>1. b = a /\ n = m /\ g = f /\ u = t /\ v = new
      BY <1>1, <1>4, <2>2
    <3>2. Constrains(a, m, f, t)
      BY <3>1 DEF Constrains
    <3>3. constraint_lut[<<b, u>>] # None /\ new \in Int
      BY <1>2, <3>1, <3>2
    <3>4. CASE taken
      <4>1. request_arrival_time'[To(b, n, u)] = new
        BY <1>1, <1>2, <3>1, <3>4 DEF TypeOK
      <4> HIDE DEF new, v
      <4> QED  BY <3>1, <3>3, <4>1, ReplacesIrreflexive
    <3>5. CASE ~ taken
      <4>1. request_arrival_time' = request_arrival_time
        BY <1>2, <3>5
      <4>2. ~ Replaces(m, new, request_arrival_time[To(a, m, t)])
        BY <3>2, <3>5
      <4> HIDE DEF new, v
      <4> QED  BY <3>1, <3>3, <4>1, <4>2
    <3> QED  BY <3>4, <3>5
  <2> QED  BY <1>5, <2>1, <2>2
<1> QED  BY <1>3, <1>4, <1>8

\* A settled constraint arc asks for nothing new.
LEMMA SettledRequestTurn ==
  ASSUME TypeOK, NEW A \in [PinKeys -> OptInt], Within(A), RequestsSettled(A),
         propagate_request_arrival_time
  PROVE  request_arrival_time' = request_arrival_time
<1>1. PICK a \in Arcs, m \in Modes, f \in Edges, t \in Edges, p \in 1 .. Len(constraint_arcs) :
        /\ a = constraint_arcs[pos] /\ m = EL_FRF_TRF[combo][1]
        /\ f = EL_FRF_TRF[combo][2] /\ t = EL_FRF_TRF[combo][3] /\ p = pos
        /\ From(a, m, f) \in PinKeys /\ To(a, m, t) \in PinKeys
  BY AtRequestTurn
<1> DEFINE new == arrival_time[From(a, m, f)] + Constraint(a, f, t)
           taken == Constrains(a, m, f, t) /\ Replaces(m, new, request_arrival_time[To(a, m, t)])
<1>2. /\ Constrains(a, m, f, t) => /\ constraint_lut[<<a, t>>] # None
                                   /\ Constraint(a, f, t) \in Int
                                   /\ arrival_time[From(a, m, f)] \in Int
      /\ taken => request_arrival_time' = [request_arrival_time EXCEPT ![To(a, m, t)] = new]
      /\ ~ taken => request_arrival_time' = request_arrival_time
  BY <1>1, RequestTurn
<1>3. ASSUME Constrains(a, m, f, t)
      PROVE  ~ Replaces(m, new, request_arrival_time[To(a, m, t)])
  <2> DEFINE x == arrival_time[From(a, m, f)]
             y == A[From(a, m, f)]
             r == request_arrival_time[To(a, m, t)]
  <2>1. x \in Int /\ x # None /\ Constraint(a, f, t) \in Int
    BY <1>2, <1>3 DEF Constrains
  <2>2. y # None /\ ~ Replaces(m, x, y)
    BY <1>1, <2>1 DEF Within, From
  <2>3. y \in Int /\ r \in OptInt
    BY <1>1, <2>2 DEF OptInt, TypeOK
  <2>4. ~ Replaces(m, y + Constraint(a, f, t), r)
    <3>1. Requested(A, a, m, f, t)
      BY <1>1 DEF RequestsSettled
    <3> QED  BY <1>3, <2>2, <3>1 DEF Requested, Constrains
  <2> HIDE DEF x, y, r
  <2>5. ~ Replaces(m, x + Constraint(a, f, t), r)
    BY <2>1, <2>2, <2>3, <2>4, ReplacesShift
  <2> QED  BY <2>5 DEF x, r
<1> HIDE DEF new
<1> QED  BY <1>2, <1>3

\* A constraint arc leads to no output port.
LEMMA RequestKeepsOutputs ==
  ASSUME TypeOK, ConstraintsAtCells, OutputsRequested, propagate_request_arrival_time
  PROVE  OutputsRequested'
<1>1. PICK a \in Arcs, m \in Modes, f \in Edges, t \in Edges, p \in 1 .. Len(constraint_arcs) :
        /\ a = constraint_arcs[pos] /\ m = EL_FRF_TRF[combo][1]
        /\ f = EL_FRF_TRF[combo][2] /\ t = EL_FRF_TRF[combo][3] /\ p = pos
        /\ From(a, m, f) \in PinKeys /\ To(a, m, t) \in PinKeys
  BY AtRequestTurn
<1> DEFINE new == arrival_time[From(a, m, f)] + Constraint(a, f, t)
           taken == Constrains(a, m, f, t) /\ Replaces(m, new, request_arrival_time[To(a, m, t)])
<1>2. /\ Constrains(a, m, f, t) => /\ constraint_lut[<<a, t>>] # None
                                   /\ Constraint(a, f, t) \in Int
                                   /\ arrival_time[From(a, m, f)] \in Int
      /\ taken => request_arrival_time' = [request_arrival_time EXCEPT ![To(a, m, t)] = new]
      /\ ~ taken => request_arrival_time' = request_arrival_time
  BY <1>1, RequestTurn
<1>3. ~ is_primary_output(To(a, m, t)[1])
  BY <1>1 DEF ConstraintsAtCells, To
<1> HIDE DEF new, taken
<1>4. \A k \in PinKeys : is_primary_output(k[1]) => request_arrival_time'[k] = request_arrival_time[k]
  BY <1>2, <1>3 DEF TypeOK
<1> QED  BY <1>4 DEF OutputsRequested

\* The loop over the outputs asks for the end of the cycle at each of them.
LEMMA OutputsAreRequested ==
  ASSUME TypeOK, set_output_requests
  PROVE  /\ OutputsRequested'
         /\ OutputsRequested => request_arrival_time' = request_arrival_time
BY DEF set_output_requests, OutputsRequested, TypeOK

\* When the loop over the constraint arcs is over, none asks for more.
LEMMA RequestsComplete ==
  ASSUME TypeOK, VisitedRequests, pos > Len(constraint_arcs)
  PROVE  RequestsSettled(arrival_time)
<1> SUFFICES ASSUME NEW i \in 1 .. Len(constraint_arcs), NEW m \in Modes, NEW f \in Edges, NEW t \in Edges
             PROVE  Requested(arrival_time, constraint_arcs[i], m, f, t)
  BY DEF RequestsSettled
<1>1. PICK c \in 1 .. 8 : EL_FRF_TRF[c][1] = m /\ EL_FRF_TRF[c][2] = f /\ EL_FRF_TRF[c][3] = t
  BY EL_FRF_TRF_Complete
<1>2. i < pos
  <2>1. Len(constraint_arcs) \in Nat /\ pos \in Int
    BY CircuitAssumption DEF TypeOK
  <2> QED  BY <2>1
<1> QED  BY <1>1, <1>2 DEF VisitedRequests

\* A turn of the arrival loop, in an update or a report, stays within
\* arrival times that are settled.
LEMMA ArrivalTurnWithin ==
  ASSUME TypeOK, NEW A \in [PinKeys -> OptInt], Within(A), ArrivalsSettled(A),
         propagate_arrival_time
  PROVE  Within(A)'
<1>0. AtArcs
  BY DEF propagate_arrival_time
<1>1. PICK a \in Arcs, m \in Modes, f \in Edges, t \in Edges, p \in 1 .. Len(order) :
        /\ a = ThisArc /\ m = EL_FRF_TRF[combo][1]
        /\ f = EL_FRF_TRF[combo][2] /\ t = EL_FRF_TRF[combo][3]
        /\ p = pos /\ from_pin[a] = order[p] /\ a = fanout[order[p]][hop]
        /\ From(a, m, f) \in PinKeys /\ To(a, m, t) \in PinKeys /\ <<a, m, f, t>> \in ArcKeys
  BY <1>0, AtTurn
<1> DEFINE x == arrival_time[From(a, m, f)]
           d == delay[<<a, m, f, t>>]
           taken == /\ is_clock_edge_valid(a, f, t)
                    /\ x # None
                    /\ d # None
                    /\ Replaces(m, x + d, arrival_time[To(a, m, t)])
<1>2. /\ taken => x + d \in Int
      /\ taken => arrival_time' = [arrival_time EXCEPT ![To(a, m, t)] = x + d]
      /\ ~ taken => arrival_time' = arrival_time
  BY <1>1, ArrivalStep DEF Taken, NewArrival, ThisFrom, ThisTo, ThisDelay, El, Frf, Trf, arrivals
<1>3. ASSUME taken
      PROVE  A[To(a, m, t)] # None /\ ~ Replaces(m, x + d, A[To(a, m, t)])
  <2> DEFINE y == A[From(a, m, f)]
             r == A[To(a, m, t)]
  <2>1. x \in Int /\ d \in Int
    BY <1>1, <1>3 DEF TypeOK, OptInt
  <2>2. y # None /\ ~ Replaces(m, x, y)
    BY <1>1, <1>3 DEF Within, From
  <2>3. y \in Int /\ r \in OptInt
    BY <1>1, <2>2 DEF OptInt
  <2>4. ~ Replaces(m, y + d, r)
    <3>1. ArrivalPropagated(A, a, m, f, t)
      BY <1>1 DEF ArrivalsSettled
    <3> QED  BY <1>3, <2>2, <3>1 DEF ArrivalPropagated
  <2> HIDE DEF x, y, r, d
  <2>5. r # None /\ ~ Replaces(m, x + d, r)
    BY <2>1, <2>2, <2>3, <2>4, ReplacesShift
  <2> QED  BY <2>5 DEF r
<1>4. To(a, m, t)[2] = m
  BY DEF To
<1>5. CASE taken
  <2> DEFINE new == x + d
             to == To(a, m, t)
  <2>1. /\ to \in PinKeys /\ to[2] = m /\ A[to] # None /\ ~ Replaces(m, new, A[to])
        /\ arrival_time' = [arrival_time EXCEPT ![to] = new]
    BY <1>1, <1>2, <1>3, <1>4, <1>5
  <2> HIDE DEF new, to
  <2> QED  BY <2>1 DEF Within, TypeOK
<1>6. CASE ~ taken
  <2>1. arrival_time' = arrival_time
    BY <1>2, <1>6
  <2> QED  BY <2>1 DEF Within
<1> QED  BY <1>5, <1>6

\* A report that throws the arrival times away keeps those of the inputs.
LEMMA ResetWithin ==
  ASSUME NEW A \in [PinKeys -> OptInt], ResetArrivalTimes,
         \A k \in PinKeys : is_primary_input(k[1]) => A[k] = 0
  PROVE  Within(A)'
<1> SUFFICES ASSUME NEW k \in PinKeys, arrival_time'[k] # None
             PROVE  A[k] # None /\ ~ Replaces(k[2], arrival_time'[k], A[k])
  BY DEF Within
<1>1. arrival_time'[k] = 0 /\ A[k] = 0
  BY DEF ResetArrivalTimes
<1>2. k[2] \in Modes
  BY DEF PinKeys
<1> QED  BY <1>1, <1>2, NoneAssumption, ReplacesIrreflexive

\* Nothing is said of an arrival time or a request by a step that leaves
\* what they come from alone.
LEMMA SameRequests ==
  ASSUME NEW A, UNCHANGED <<order, slew, delay, request_arrival_time>>
  PROVE  /\ ArrivalsSettled(A) => ArrivalsSettled(A)'
         /\ RequestsSettled(A) => RequestsSettled(A)'
<1>1. \A a, m, f, t : ArrivalPropagated(A, a, m, f, t)' <=> ArrivalPropagated(A, a, m, f, t)
  BY DEF ArrivalPropagated
<1>2. \A a, m, f, t : Requested(A, a, m, f, t)' <=> Requested(A, a, m, f, t)
  BY DEF Requested, Constraint, ConstraintValue
<1> QED  BY <1>1, <1>2 DEF ArrivalsSettled, RequestsSettled
\* The same for the arrival times at hand.
LEMMA SameArrivalTimes ==
  ASSUME UNCHANGED <<order, slew, delay, arrival_time>>
  PROVE  /\ ArrivalsSettled(arrival_time) => ArrivalsSettled(arrival_time)'
         /\ \A a, m, f, t : ArrivalPropagated(arrival_time, a, m, f, t)'
                              <=> ArrivalPropagated(arrival_time, a, m, f, t)
<1>1. \A a, m, f, t : ArrivalPropagated(arrival_time, a, m, f, t)'
                        <=> ArrivalPropagated(arrival_time, a, m, f, t)
  BY DEF ArrivalPropagated
<1> QED  BY <1>1 DEF ArrivalsSettled

\* The arrival times the loop of the first update has come by are settled.
LEMMA ArrivalsNext ==
  ASSUME TypeOK, OnlyUpdates, Client # "library",
         RequestInv, [Next]_vars, order' = order,
         phase \in {"arrival", "outputs", "request"} => UNCHANGED <<slew, delay>>
  PROVE  /\ phase' = "arrival" /\ First' => VisitedArrivals'
         /\ phase' \in {"outputs", "request"} /\ First' => ArrivalsSettled(arrival_time)'
<1>1. First' /\ phase' # "capacitance" => First
  BY PastSteps
<1>2. phase' = "arrival" /\ First' => VisitedArrivals'
  <2> SUFFICES ASSUME phase' = "arrival", First' PROVE VisitedArrivals'
    OBVIOUS
  <2>1. CASE propagate_arrival_time
    <3>1. phase = "arrival"
      BY <2>1, TurnStays DEF Turn
    <3> QED  BY <1>1, <2>1, <3>1, ArrivalKeepsVisited DEF RequestInv
  <2>2. CASE EndFanout
    <3>1. UNCHANGED <<phase, order, slew, delay, arrival_time>>
      BY <2>2 DEF EndFanout, values, arrivals
    <3>2. VisitedArrivals
      BY <1>1, <3>1 DEF RequestInv
    <3>3. ASSUME NEW i \in 1 .. Len(order), NEW c \in 1 .. 8,
                 NEW h \in 1 .. Len(fanout[order[i]]), Visited(i, c, h)'
          PROVE  ArrivalPropagated(arrival_time, fanout[order[i]][h],
                                   EL_FRF_TRF[c][1], EL_FRF_TRF[c][2], EL_FRF_TRF[c][3])
      BY <2>2, <3>2, <3>3, VisitedEnd DEF VisitedArrivals
    <3> QED  BY <3>1, <3>3, SameArrivalTimes DEF VisitedArrivals
  <2>3. CASE UNCHANGED vars
    <3>1. UNCHANGED <<order, phase, calls, pos, combo, hop, slew, delay, arrival_time>>
      BY <2>3 DEF vars, loop, values, arrivals
    <3> QED  BY <3>1, SameArrivalTimes DEF RequestInv, First, VisitedArrivals, Visited
  <2>4. CASE ~ UNCHANGED vars /\ ~ EndFanout /\ ~ propagate_arrival_time
    <3>1. ~ Turn
      BY <2>4, TurnStays
      DEF Turn, skip_load_pin, add_capacitance, set_capacitance, propagate_slew, propagate_delay,
          propagate_request_arrival_time, AtConstraint, skip_start_pin
    <3>2. pos' = 1 /\ combo' = 1 /\ hop' = 1
      BY <2>4, <3>1, OtherSteps DEF StartLoop, abort_no_constraint
    <3>3. \A i \in 1 .. Len(order), c \in 1 .. 8, h \in Nat \ {0} : ~ Visited(i, c, h)'
      BY <3>2 DEF Visited
    <3> QED  BY <3>3 DEF VisitedArrivals
  <2> QED  BY <2>1, <2>2, <2>3, <2>4
<1>3. phase' \in {"outputs", "request"} /\ First' => ArrivalsSettled(arrival_time)'
  <2> SUFFICES ASSUME phase' \in {"outputs", "request"}, First'
               PROVE  ArrivalsSettled(arrival_time)'
    OBVIOUS
  <2>1. /\ arrival_time' = arrival_time
        /\ phase \in {"outputs", "request"} \/ (phase = "arrival" /\ pos > Len(order))
    <3>1. CASE Turn
      <4>1. phase \in {"outputs", "request"}
        BY <3>1, TurnStays
      <4>2. ~ propagate_arrival_time
        BY <4>1 DEF propagate_arrival_time
      <4>3. arrival_time' = arrival_time
        BY <3>1, <4>2
        DEF Turn, skip_load_pin, add_capacitance, set_capacitance, propagate_slew, propagate_delay,
            propagate_request_arrival_time, skip_start_pin, EndFanout, arrivals
      <4> QED  BY <4>1, <4>3
    <3>2. CASE ~ Turn
      BY <3>2, OtherSteps DEF abort_no_constraint, arrivals, vars
    <3> QED  BY <3>1, <3>2
  <2>2. ArrivalsSettled(arrival_time)
    BY <1>1, <2>1, ArrivalsComplete DEF RequestInv
  <2> QED  BY <2>1, <2>2, SameArrivalTimes
<1> QED  BY <1>2, <1>3

\* The same for the constraint arcs the loop of the first update has come by,
\* and for the outputs.
LEMMA RequestsNext ==
  ASSUME TypeOK, OnlyUpdates, Client # "library", ConstraintsAtCells,
         RequestInv, [Next]_vars, phase = "request" => UNCHANGED slew
  PROVE  /\ phase' = "request" /\ First' => VisitedRequests'
         /\ phase' = "request" \/ Updated' => OutputsRequested'
<1>1. CASE propagate_request_arrival_time
  <2>1. phase = "request" /\ UNCHANGED <<phase, calls>>
    BY <1>1 DEF propagate_request_arrival_time, AtConstraint
  <2>2. OutputsRequested'
    BY <1>1, <2>1, RequestKeepsOutputs DEF RequestInv
  <2>3. First => VisitedRequests'
    BY <1>1, <2>1, RequestKeepsVisited DEF RequestInv
  <2> QED  BY <2>1, <2>2, <2>3 DEF First
<1>2. CASE set_output_requests
  <2>1. pos' = 1 /\ combo' = 1
    BY <1>2 DEF set_output_requests, EndPass, StartLoop
  <2>2. \A i \in 1 .. Len(constraint_arcs), c \in 1 .. 8 :
          ~ (i < pos' \/ (i = pos' /\ c < combo'))
    <3>1. Len(constraint_arcs) \in Nat
      BY CircuitAssumption
    <3> QED  BY <2>1, <3>1
  <2>3. VisitedRequests'
    BY <2>2 DEF VisitedRequests
  <2> QED  BY <1>2, <2>3, OutputsAreRequested
<1>3. CASE ~ propagate_request_arrival_time /\ ~ set_output_requests
  <2>1. request_arrival_time' = request_arrival_time
    BY <1>3, ValueSteps
  <2>2. phase' = "request" =>
          phase = "request" /\ UNCHANGED <<calls, pos, combo, arrival_time>>
    <3>1. CASE Turn
      BY <1>3, <3>1, TurnStays
      DEF Turn, skip_load_pin, add_capacitance, set_capacitance, propagate_slew, propagate_delay,
          propagate_arrival_time, skip_start_pin, EndFanout
    <3>2. CASE ~ Turn
      BY <1>3, <3>2, OtherSteps DEF abort_no_constraint, vars, loop, arrivals
    <3> QED  BY <3>1, <3>2
  <2>3. Updated' => Updated \/ phase = "request"
    BY PastSteps
  <2>4. phase' = "request" \/ Updated' => OutputsRequested'
    BY <2>1, <2>2, <2>3 DEF RequestInv, OutputsRequested
  <2>5. ASSUME phase' = "request", First'
        PROVE  VisitedRequests'
    <3>1. VisitedRequests /\ UNCHANGED <<slew, pos, combo, arrival_time, request_arrival_time>>
      BY <2>1, <2>2, <2>5 DEF RequestInv, First
    <3>2. \A a, m, f, t : Requested(arrival_time, a, m, f, t)' <=> Requested(arrival_time, a, m, f, t)
      BY <3>1 DEF Requested, Constraint, ConstraintValue
    <3> QED  BY <3>1, <3>2 DEF VisitedRequests
  <2> QED  BY <2>4, <2>5
<1> QED  BY <1>1, <1>2, <1>3

\* After the first update the requests stay, and arrival times stay within
\* those it ended with.
LEMMA WithinNext ==
  ASSUME TypeOK, OnlyUpdates, Client # "library", InputsStartPaths,
         RequestInv, [Next]_vars, order' = order,
         Updated \/ phase = "request" => UNCHANGED <<slew, delay>>
  PROVE  /\ Updated' => StaysWithin'
         /\ Updated => request_arrival_time' = request_arrival_time
<1>1. CASE Updated
  <2>1. PICK A \in [PinKeys -> OptInt] :
          /\ \A k \in PinKeys : is_primary_input(k[1]) => A[k] = 0
          /\ Within(A) /\ ArrivalsSettled(A) /\ RequestsSettled(A)
    BY <1>1 DEF RequestInv, StaysWithin
  <2>2. request_arrival_time' = request_arrival_time
    <3>1. CASE propagate_request_arrival_time
      BY <2>1, <3>1, SettledRequestTurn
    <3>2. CASE set_output_requests
      BY <1>1, <3>2, OutputsAreRequested DEF RequestInv
    <3>3. CASE ~ propagate_request_arrival_time /\ ~ set_output_requests
      BY <3>3, ValueSteps
    <3> QED  BY <3>1, <3>2, <3>3
  <2>3. Within(A)'
    <3>1. CASE propagate_arrival_time
      BY <2>1, <3>1, ArrivalTurnWithin
    <3>2. CASE ResetArrivalTimes
      BY <2>1, <3>2, ResetWithin
    <3>3. CASE arrival_time' = arrival_time
      BY <2>1, <3>3 DEF Within
    <3>4. propagate_delay => arrival_time' = arrival_time
      BY DEF propagate_delay, arrivals
    <3> QED  BY <3>1, <3>2, <3>3, <3>4, ArrivalSteps
  <2>4. ArrivalsSettled(A)' /\ RequestsSettled(A)'
    BY <1>1, <2>1, <2>2, SameRequests
  <2> QED  BY <2>1, <2>2, <2>3, <2>4 DEF StaysWithin
<1>2. CASE ~ Updated
  <2> SUFFICES ASSUME Updated' PROVE StaysWithin'
    BY <1>2
  <2>1. First /\ phase = "request" /\ pos > Len(constraint_arcs) /\ ~ Turn
    BY <1>2, PastSteps
  <2>2. PICK A \in [PinKeys -> OptInt] : A = arrival_time
    BY DEF TypeOK
  <2>3. calls' = calls
    BY <2>1, OtherSteps DEF vars
  <2>4. UNCHANGED <<request_arrival_time, arrival_time>>
    BY <2>1, <2>3, OtherSteps DEF values, arrivals, vars
  <2>5. ArrivalsSettled(A) /\ RequestsSettled(A)
    <3>1. ArrivalsSettled(arrival_time) /\ RequestsSettled(arrival_time)
      BY <2>1, RequestsComplete DEF RequestInv
    <3> QED  BY <2>2, <3>1
  <2>6. ArrivalsSettled(A)' /\ RequestsSettled(A)'
    BY <2>1, <2>4, <2>5, SameRequests
  <2>7. \A k \in PinKeys : is_primary_input(k[1]) => A[k] = 0
    BY <2>2 DEF InputsStartPaths
  <2>8. Within(A)'
    <3> SUFFICES ASSUME NEW k \in PinKeys, A[k] # None
                 PROVE  ~ Replaces(k[2], A[k], A[k])
      BY <2>2, <2>4 DEF Within
    <3>1. k[2] \in Modes /\ A[k] \in Int
      BY DEF PinKeys, OptInt
    <3> QED  BY <3>1, ReplacesIrreflexive
  <2> QED  BY <2>6, <2>7, <2>8 DEF StaysWithin
<1> QED  BY <1>1, <1>2

\* All of it.
LEMMA RequestNext ==
  ASSUME TypeOK, TypeOK', OnlyUpdates, Client # "library",
         DriversDriveLoads, ConstraintsAtCells, InputsStartPaths,
         CapacitanceInv, SlewInv, DelayInv, RequestInv, [Next]_vars
  PROVE  RequestInv' /\ (Updated => request_arrival_time' = request_arrival_time)
<1>1. order' = order
  BY ValueSteps
<1>2. Updated \/ phase \in {"arrival", "outputs", "request"} =>
        Past({"capacitance", "slew"}) /\ Past({"capacitance", "slew", "delay"})
  BY DEF Updated, OnlyUpdates, Passes, Past, First, TypeOK
<1>3. Updated \/ phase \in {"arrival", "outputs", "request"} => UNCHANGED <<slew, delay>>
  BY <1>2, SlewNext, DelayNext
<1>4. phase = "request" => phase \in {"arrival", "outputs", "request"}
  OBVIOUS
<1> QED  BY <1>1, <1>3, <1>4, ArrivalsNext, RequestsNext, WithinNext DEF RequestInv

-----------------------------------------------------------------------------
(***************************************************************************)
(* Reports find what they need.                                            *)
(***************************************************************************)
\* The slew a path is reported with is there at an end point, and at every
\* pin the walk comes to from there.
LEMMA WalkSlewNext ==
  ASSUME TypeOK, ArrivalHasPredecessor, InputsStartPaths, LoadsHaveSlews,
         PortsHaveSlews, DelayNeedsSlews, WalkHasSlew, [Next]_vars
  PROVE  WalkHasSlew'
<1> SUFFICES ASSUME phase' = "walk" PROVE WalkSlew' # None
  BY DEF WalkHasSlew
<1>1. CASE start_walk
  <2> DEFINE m == Groups[group][1]
  <2>1. PICK p \in end_points :
          /\ is_matching_end_point(p, Groups[group][2]) /\ Reportable(p, m)
          /\ walk' = [pin |-> p, edge |-> WorstEdge(p, m),
                      slack |-> Slack(p, m, WorstEdge(p, m)), hops |-> << >>]
    BY <1>1 DEF start_walk
  <2>2. PICK e \in Edges : e = WorstEdge(p, m)
    BY DEF WorstEdge, Edges
  <2>3. UNCHANGED <<slew, group>>
    BY <1>1 DEF start_walk, values
  <2>4. WalkSlew' = slew[<<p, m, e>>]
    BY <2>1, <2>2, <2>3 DEF WalkSlew, WalkKey
  <2>5. p \in Pins /\ m \in Modes
    BY Groups_Type DEF TypeOK, EndPoints
  <2> HIDE DEF m
  <2>6. <<p, m, e>> \in PinKeys
    BY <2>5 DEF PinKeys
  <2>7. CASE is_primary_output(p)
    BY <2>4, <2>6, <2>7 DEF PortsHaveSlews
  <2>8. CASE pin_type[p] = "INPUT"
    <3>1. arrival_time[<<p, m, e>>] # None /\ ~ is_primary_input(p)
      BY <2>1, <2>8 DEF Reportable, is_primary_input
    <3>2. PICK a \in Arcs, f \in Edges : Explains(a, f, <<p, m, e>>)
      <4>1. /\ predecessor[<<p, m, e>>] # None
            /\ Explains(predecessor[<<p, m, e>>][2], predecessor[<<p, m, e>>][1], <<p, m, e>>)
        BY <2>6, <3>1 DEF ArrivalHasPredecessor
      <4>2. predecessor[<<p, m, e>>] \in Edges \X Arcs
        BY <2>6, <4>1 DEF TypeOK
      <4> QED  BY <4>1, <4>2
    <3>3. to_pin[a] = p /\ delay[<<a, m, f, e>>] # None
      BY <3>2 DEF Explains
    <3>4. /\ delay_lut[<<a, e>>] # None
          /\ slew_lut[<<a, e>>] # None => slew[To(a, m, e)] # None
      BY <2>5, <3>3 DEF DelayNeedsSlews
    <3>5. slew_lut[<<a, e>>] # None
      BY <2>8, <3>3, <3>4 DEF LoadsHaveSlews
    <3> QED  BY <2>4, <3>3, <3>4, <3>5 DEF To
  <2> QED  BY <2>1, <2>7, <2>8 DEF is_matching_end_point
<1>2. CASE walk_step
  <2> DEFINE f == WalkPredecessor[1]
             a == WalkPredecessor[2]
             m == Groups[group][1]
             hops == << [pin |-> walk.pin, edge |-> walk.edge, at |-> WalkAt, slew |-> WalkSlew] >>
                       \o walk.hops
  <2>1. /\ WalkAt # None /\ WalkPredecessor # None /\ phase = "walk"
        /\ walk' = [walk EXCEPT !.edge = f, !.pin = from_pin[a], !.hops = hops]
        /\ UNCHANGED <<slew, group>>
    BY <1>2 DEF walk_step, values, PredecessorPin
  <2>2. walk \in WalkStates
    BY <2>1 DEF TypeOK
  <2>3. walk'.pin = from_pin[a] /\ walk'.edge = f
    BY <2>1, <2>2 DEF WalkStates
  <2>4. WalkKey \in PinKeys /\ m \in Modes /\ walk.edge \in Edges
    BY <2>2, Groups_Type DEF WalkKey, PinKeys, WalkStates, TypeOK
  <2>5. WalkKey[1] = walk.pin /\ WalkKey[2] = m /\ WalkKey[3] = walk.edge
    BY DEF WalkKey
  <2>6. Explains(a, f, WalkKey)
    <3>1. ~ is_primary_input(walk.pin)
      BY <2>1, <2>4, <2>5 DEF InputsStartPaths, WalkPredecessor
    <3> QED  BY <2>1, <2>4, <2>5, <3>1 DEF ArrivalHasPredecessor, WalkPredecessor, WalkAt
  <2>7. a \in Arcs /\ f \in Edges
    BY <2>1, <2>4 DEF TypeOK, WalkPredecessor
  <2>8. delay[<<a, m, f, walk.edge>>] # None
    BY <2>5, <2>6 DEF Explains
  <2>9. slew[From(a, m, f)] # None
    BY <2>4, <2>7, <2>8 DEF DelayNeedsSlews
  <2>10. WalkSlew' = slew[<<from_pin[a], m, f>>]
    BY <2>1, <2>3 DEF WalkSlew, WalkKey
  <2> QED  BY <2>9, <2>10 DEF From
<1>3. CASE phase \in {"collect", "walk"} /\ UNCHANGED <<phase, walk, group, slew>>
  BY <1>3 DEF WalkHasSlew, WalkSlew, WalkKey
<1> QED  BY <1>1, <1>2, <1>3, CollectSteps DEF EndReportPass

\* The steps that stop the program, and nothing moves after them.
LEMMA AbortSteps ==
  ASSUME TypeOK, [Next]_vars, phase' = "aborted"
  PROVE  abort_no_constraint \/ abort_walk \/ UNCHANGED vars
<1>1. CASE Turn
  <2>1. phase = "aborted"
    BY <1>1, TurnStays
  <2> QED  BY <1>1, <2>1
           DEF Turn, skip_load_pin, add_capacitance, set_capacitance, propagate_slew,
               propagate_delay, propagate_request_arrival_time, AtConstraint,
               propagate_arrival_time, EndFanout, skip_start_pin
<1>2. CASE EndPinPass \/ set_output_requests \/ EndRequestPass
  BY <1>2 DEF EndPinPass, set_output_requests, EndRequestPass, EndPass, NextPass
<1>3. CASE EndReportPass \/ skip_end_point \/ start_walk \/ walk_step \/ EndGroup
  BY <1>3 DEF EndReportPass, skip_end_point, start_walk, walk_step, EndGroup
<1>4. CASE ClientCall
  BY <1>4 DEF ClientCall, update_timing, call_pass, reset_arrival_time,
              reset_request_arrival_time, report_timing, Called, Passes
<1> QED  BY <1>1, <1>2, <1>3, <1>4 DEF Next, Pass, Collect, Turn

\* A walk gives no reason to stop, so only a constraint without a table does.
LEMMA AbortNext ==
  ASSUME TypeOK, WalkHasArrival, WalkHasSlew, AbortsOnlyWithoutTable, [Next]_vars
  PROVE  AbortsOnlyWithoutTable'
<1> SUFFICES ASSUME phase' = "aborted" PROVE AbortsOnlyWithoutTable'
  BY DEF AbortsOnlyWithoutTable
<1>1. CASE abort_no_constraint
  <2>1. /\ pos <= Len(constraint_arcs)
        /\ Constrains(ConstraintArc, EL_FRF_TRF[combo][1], EL_FRF_TRF[combo][2], EL_FRF_TRF[combo][3])
        /\ constraint_lut[<<ConstraintArc, EL_FRF_TRF[combo][3]>>] = None
        /\ UNCHANGED <<pos, combo, arrival_time>>
    BY <1>1 DEF abort_no_constraint, AtConstraint, loop, arrivals
  <2> QED  BY <2>1 DEF AbortsOnlyWithoutTable, Constrains, ConstraintArc
<1>2. CASE abort_walk
  BY <1>2 DEF abort_walk, WalkHasArrival, WalkHasSlew
<1>3. CASE UNCHANGED vars
  BY <1>3 DEF AbortsOnlyWithoutTable, Constrains, ConstraintArc, vars, loop, arrivals
<1> QED  BY <1>1, <1>2, <1>3, AbortSteps

-----------------------------------------------------------------------------
(***************************************************************************)
(* The invariant and what follows from it.                                 *)
(***************************************************************************)
\* Before the first update there is nothing to settle.
LEMMA SettledInit == Init => SettledInv
<1> SUFFICES ASSUME Init PROVE SettledInv
  OBVIOUS
<1>1. phase = "idle" /\ calls = 0 /\ total = 0 /\ updating = FALSE
  BY DEF Init
<1>2. PortsHaveSlews
  BY NoneAssumption DEF Init, PortsHaveSlews
<1>3. DelayNeedsSlews
  BY DEF Init, DelayNeedsSlews, ArcKeys
<1> QED  BY <1>1, <1>2, <1>3
         DEF SettledInv, OnlyUpdates, Passes, CapacitanceInv, TotalInv, AtDriver, Past, First,
             SlewInv, DelayInv, RequestInv, Updated, WalkHasSlew, AbortsOnlyWithoutTable

\* Every step keeps it, and leaves the values of the first update alone.
LEMMA SettledNext ==
  ASSUME WiresAndCells, Client # "library", IInv, IInv', SettledInv, [Next]_vars
  PROVE  SettledInv' /\ KeepsValues
<1>1. /\ TypeOK /\ TypeOK' /\ ArrivalHasPredecessor /\ InputsStartPaths /\ WalkHasArrival
      /\ LoadsHaveSlews /\ DriversDriveLoads /\ ConstraintsAtCells
      /\ OnlyUpdates /\ CapacitanceInv /\ SlewInv /\ DelayInv /\ RequestInv
      /\ WalkHasSlew /\ AbortsOnlyWithoutTable
  BY DEF IInv, SettledInv, WiresAndCells
<1>2. OnlyUpdates'
  BY <1>1, OnlyUpdatesNext
<1>3. CapacitanceInv' /\ (Past({"capacitance"}) => capacitance' = capacitance)
  BY <1>1, CapacitanceNext
<1>4. SlewInv' /\ (Past({"capacitance", "slew"}) => slew' = slew)
  BY <1>1, SlewNext
<1>5. DelayInv' /\ (Past({"capacitance", "slew", "delay"}) => delay' = delay)
  BY <1>1, DelayNext
<1>6. RequestInv' /\ (Updated => request_arrival_time' = request_arrival_time)
  BY <1>1, RequestNext
<1>7. WalkHasSlew'
  BY <1>1, WalkSlewNext DEF SlewInv, DelayInv
<1>8. AbortsOnlyWithoutTable'
  BY <1>1, AbortNext
<1>9. Updated => /\ Past({"capacitance"}) /\ Past({"capacitance", "slew"})
                 /\ Past({"capacitance", "slew", "delay"})
  BY DEF Updated, Past, First
<1>10. KeepsValues
  BY <1>3, <1>4, <1>5, <1>6, <1>9 DEF KeepsValues, values
<1> QED  BY <1>2, <1>3, <1>4, <1>5, <1>6, <1>7, <1>8, <1>10 DEF SettledInv

\* A client that calls whole updates and reports, on a circuit of wires and
\* cells: every table it reads is settled once the first update is complete,
\* and what later updates and reports compute stays within it.
THEOREM ValuesSettle ==
  ASSUME WiresAndCells, Client # "library"
  PROVE  Spec => []SettledInv
<1>1. Init => IInv /\ SettledInv
  BY IInvInit, SettledInit
<1>2. IInv /\ SettledInv /\ [Next]_vars => (IInv /\ SettledInv)'
  BY IInvNext, SettledNext
<1> QED  BY <1>1, <1>2, PTL DEF Spec

\* LOG_ASSERT stops such a client only at a constraint without a table: no
\* path it reports meets a pin without a slew or an arrival time.
THEOREM NothingElseAborts ==
  ASSUME WiresAndCells, Client # "library"
  PROVE  Spec => []AbortsOnlyWithoutTable
<1>1. SettledInv => AbortsOnlyWithoutTable
  BY DEF SettledInv
<1> QED  BY <1>1, ValuesSettle, PTL

\* update_timing called again and again, with reports between, changes no
\* capacitance, slew, delay or request arrival time of the first.
THEOREM UpdatesAreIdempotent ==
  ASSUME WiresAndCells, Client # "library"
  PROVE  Spec => UpdateIsIdempotent
<1>1. IInv /\ SettledInv /\ [Next]_vars => [KeepsValues]_vars
  BY IInvNext, SettledNext
<1> QED  BY <1>1, ValuesSettle, Inductive, PTL DEF Spec, UpdateIsIdempotent
=============================================================================
