--------------------------------- MODULE Sta ---------------------------------
(***************************************************************************)
(* What a client of Timer is promised.  The abstract state is the report   *)
(* of each start type, mode and end type; an abstract step either forgets  *)
(* all reports (a new Timer) or fixes one report.  A report is a function  *)
(* of the circuit alone: one worst path for every end point, with respect  *)
(* to the set of all paths through the graph (the tables of StaTables).    *)
(***************************************************************************)
EXTENDS Circuit

CONSTANTS
  Client,
  Starts, WorstSlew, ArcDelay, Arrival, Required   \* the tables of StaTables

VARIABLE reports   \* (start type, mode, end type) -> set of paths, where there is one

StartTypes == {"IN", "REG"}
EndTypes == {"REG", "OUT"}

Matches(p, end) == \/ end = "OUT" /\ is_primary_output(p)
                   \/ end = "REG" /\ pin_type[p] = "INPUT"

SlackOf(start, mode, p, e) ==
  LET k == <<p, mode, e>> IN
  IF mode = "MAX" THEN ClockCycle - Required[k] - Arrival[start][k]
                  ELSE Arrival[start][k] - Required[k]

\* End points a report must have a path for.
Reported(start, mode, end) ==
  {p \in Pins : /\ \A a \in Arcs : from_pin[a] # p
                /\ Matches(p, end)
                /\ \A e \in Edges : /\ Arrival[start][<<p, mode, e>>] # None
                                     /\ Required[<<p, mode, e>>] # None}

End(r) == r.hops[Len(r.hops)]

IsHop(start, mode, h) ==
  LET k == <<h.pin, mode, h.edge>> IN h.at = Arrival[start][k] /\ h.slew = WorstSlew[k]
IsLink(mode, g, h) ==
  \E a \in Arcs :
    LET d == ArcDelay[<<a, mode, g.edge, h.edge>>]
    IN from_pin[a] = g.pin /\ to_pin[a] = h.pin /\ d # None /\ h.at = g.at + d

\* r leads to an end point of the report: each hop adds exactly the delay of an
\* arc of the circuit, its arrival is the worst over all paths into its pin and
\* edge, and its slack the lesser one of the two edges.
LeadsToEnd(start, mode, end, r) ==
  /\ End(r).pin \in Reported(start, mode, end)
  /\ r.slack = SlackOf(start, mode, End(r).pin, End(r).edge)
  /\ \A e \in Edges : r.slack <= SlackOf(start, mode, End(r).pin, e)
  /\ \A i \in 1 .. Len(r.hops) : IsHop(start, mode, r.hops[i])
  /\ \A i \in 1 .. Len(r.hops) - 1 : IsLink(mode, r.hops[i], r.hops[i + 1])

\* It is a worst path of its end point, from an input the start type allows.
IsWorstPath(start, mode, end, r) ==
  /\ LeadsToEnd(start, mode, end, r)
  /\ is_primary_input(r.hops[1].pin) /\ r.hops[1].at = 0
  /\ Len(r.hops) > 1 => r.hops[1].pin \in Starts[start]

IsReport(start, mode, end, R) ==
  /\ \A r \in R : IsWorstPath(start, mode, end, r)
  /\ {End(r).pin : r \in R} = Reported(start, mode, end)
  /\ \A r, s \in R : End(r).pin = End(s).pin => r = s

NoReports == [r \in {} |-> {}]

Init == reports = NoReports

\* The shell gets a new Timer, with no reports, for every update.
Forget == Client = "shell" /\ reports' = NoReports

FixReport(s, m, e) ==
  /\ <<s, m, e>> \notin DOMAIN reports
  /\ DOMAIN reports' = DOMAIN reports \cup {<<s, m, e>>}
  /\ \A r \in DOMAIN reports : reports'[r] = reports[r]
  /\ IsReport(s, m, e, reports'[s, m, e])

Next == Forget \/ \E s \in StartTypes, m \in Modes, e \in EndTypes : FixReport(s, m, e)

Spec == Init /\ [][Next]_reports
=============================================================================
