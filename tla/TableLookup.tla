---------------------------- MODULE TableLookup ----------------------------
(* The two lookups of a Liberty table: findValue of the library's LibTable,  *)
(* which knows the template and so which axis is the slew, and get_value of  *)
(* mySTA's Lut, made from such a table by LibertyParser, which takes the     *)
(* first axis for the input slew and the second for the load.                *)
(*                                                                           *)
(* A table is a record: its template ([variable1, variable2, axes], or None  *)
(* for a scalar table), its own axes (a sequence of [name, values]), and its *)
(* values in row order.  What a lookup comes to is an outcome:               *)
(* <<"value", fraction>>, <<"stops">> where an assertion or LOG_FATAL ends   *)
(* the program, or <<"undefined">> where the code indexes beyond an array or *)
(* uses an optional that is empty.                                           *)
EXTENDS Fractions, Sequences, FiniteSets

CONSTANT None  \* a null pointer or an empty optional

Value(f) == <<"value", f>>
Stops == <<"stops">>
Undefined == <<"undefined">>
IsValue(o) == o[1] = "value"

SlewVariables == {"input_net_transition", "related_pin_transition", "input_transition_time"}
LoadVariables == {"total_output_net_capacitance", "constrained_pin_transition"}

get_axes(t) == IF t.axes = <<>> THEN t.template.axes ELSE t.axes
Axis(t, i) == get_axes(t)[i].values

(* The slew is looked up on the first axis, or on the second: the template   *)
(* says, and must name one variable of each kind.                            *)
SlewFirst(t) == t.template.variable1 \in SlewVariables
FitsTemplate(t) ==
  LET first == t.template.variable1
      second == t.template.variable2 IN
  \/ first \in SlewVariables /\ second \in LoadVariables \cup {None}
  \/ first \in LoadVariables /\ second \in SlewVariables \cup {None}

(* The left end of the interval in which a value is interpolated, from 1: the *)
(* last breakpoint not above it, so that a value on a breakpoint starts its  *)
(* interval; the first or last interval for a value out of range.            *)
get_axis_region(axis, val) ==
  LET atMost == Cardinality({k \in DOMAIN axis : axis[k] <= val})
  IN  CASE atMost = Len(axis) -> Len(axis) - 1
        [] atMost = 0 -> 1
        [] OTHER -> atMost

(* The same in Lut, by lower_bound: the last breakpoint below the value.     *)
get_index_LastBreakpoint(axis, t) ==
  LET below == Cardinality({k \in DOMAIN axis : axis[k] < t})
  IN  IF below = 0 THEN 1 ELSE below
get_index(axis, t) ==
  LET below == Cardinality({k \in DOMAIN axis : axis[k] < t})
  IN  CASE below = 0 -> 1
        [] below = Len(axis) -> Len(axis) - 1
        [] OTHER -> below

(* Both classes write the line through two points, and the bilinear surface  *)
(* through four, in forms of their own that are equal as fractions.          *)
LinearInterpolate(x1, x2, y1, y2, x) ==
  Plus(y1, Over(Times(Minus(x, x1), Minus(y2, y1)), Minus(x2, x1)))

BilinearInterpolation(q11, q12, q21, q22, x1, x2, y1, y2, x, y) ==
  LinearInterpolate(x1, x2, LinearInterpolate(y1, y2, q11, q12, y),
                            LinearInterpolate(y1, y2, q21, q22, y), x)

(* The value at a row and a column, from 1.                                  *)
to_1d_index(columns, i, j) == columns * (i - 1) + j

Surface(xs, ys, values, i, j, x, y) ==
  LET Q(a, b) == Whole(values[to_1d_index(Len(ys), a, b)])
  IN  BilinearInterpolation(Q(i, j), Q(i, j + 1), Q(i + 1, j), Q(i + 1, j + 1),
                            Whole(xs[i]), Whole(xs[i + 1]), Whole(ys[j]), Whole(ys[j + 1]),
                            Whole(x), Whole(y))

(* One axis: its value is the one the template names, be it slew or load.    *)
FindOnLine(t, val) ==
  LET xs == Axis(t, 1)
      i == get_axis_region(xs, val) IN
  CASE Len(xs) < 2 -> Undefined
    [] i + 1 > Len(t.values) -> Stops
    [] OTHER -> Value(LinearInterpolate(Whole(xs[i]), Whole(xs[i + 1]), Whole(t.values[i]),
                                        Whole(t.values[i + 1]), Whole(val)))

(* Two axes, or more: a third one is not looked at.                          *)
FindOnSurface(t, val1, val2) ==
  LET xs == Axis(t, 1)
      ys == Axis(t, 2)
      i == get_axis_region(xs, val1)
      j == get_axis_region(ys, val2) IN
  CASE Len(xs) < 2 \/ Len(ys) < 2 -> Undefined
    [] to_1d_index(Len(ys), i + 1, j + 1) > Len(t.values) -> Stops
    [] OTHER -> Value(Surface(xs, ys, t.values, i, j, val1, val2))

FindOnAxes(t, val1, val2) ==
  CASE get_axes(t) = <<>> -> Undefined
    [] Len(get_axes(t)) = 1 -> FindOnLine(t, val1)
    [] OTHER -> FindOnSurface(t, val1, val2)

(* A scalar table has no template and one value.                             *)
FindScalar(t) == IF t.values = <<>> THEN Undefined ELSE Value(Whole(t.values[1]))

findValue(t, slew, load) ==
  IF t.template = None THEN FindScalar(t)
  ELSE CASE t.template.variable1 = None -> Undefined
         [] t.template.variable1 # None /\ ~FitsTemplate(t) -> Stops
         [] OTHER -> IF SlewFirst(t) THEN FindOnAxes(t, slew, load)
                                     ELSE FindOnAxes(t, load, slew)

(* The drive of a port: the slew at the highest load over that load, without *)
(* a load axis 0 over 1; a negative slew counts as 0.                        *)
HasLoadAxis(t) ==
  /\ t.template # None
  /\ "total_output_net_capacitance" \in {t.template.variable1, t.template.variable2}

Drive(found, load) ==
  IF IsValue(found)
  THEN Value(Over(IF Less(found[2], Whole(0)) THEN Whole(0) ELSE found[2], Whole(load)))
  ELSE found
driveResistance(t) ==
  LET load == IF t.template.variable1 = "total_output_net_capacitance" THEN 1 ELSE 2
      highest == Axis(t, load)[Len(Axis(t, load))] IN
  CASE ~HasLoadAxis(t) -> Value(Whole(0))
    [] HasLoadAxis(t) /\ Len(get_axes(t)) < load -> Undefined
    [] OTHER -> Drive(findValue(t, 0, highest), highest)

(* LibertyParser makes a Lut of a table with two axes, index_1 before        *)
(* index_2, and the constructor of Lut counts the values.  A table without   *)
(* axes of its own is asked for those of its template, which a scalar table  *)
(* does not have.                                                            *)
Converts(t) ==
  /\ Len(get_axes(t)) = 2
  /\ get_axes(t)[1].name = "index_1"
  /\ get_axes(t)[2].name = "index_2"
  /\ Len(Axis(t, 1)) * Len(Axis(t, 2)) = Len(t.values)

create_lut_data(t) ==
  CASE t.axes = <<>> /\ t.template = None -> Undefined
    [] t.axes # <<>> \/ t.template # None ->
         IF Converts(t)
         THEN Value([index_1 |-> Axis(t, 1), index_2 |-> Axis(t, 2), values |-> t.values])
         ELSE Stops

get_value(lut, x0, y0) ==
  LET i == get_index(lut.index_1, x0)
      j == get_index(lut.index_2, y0)
      Inside(axis, k) == k \in DOMAIN axis /\ k + 1 \in DOMAIN axis IN
  IF Inside(lut.index_1, i) /\ Inside(lut.index_2, j)
  THEN Value(Surface(lut.index_1, lut.index_2, lut.values, i, j, x0, y0))
  ELSE Undefined

=============================================================================
