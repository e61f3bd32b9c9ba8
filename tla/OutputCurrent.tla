--------------------------- MODULE OutputCurrent ---------------------------
(* The output current of a Liberty delay model (CCS): vector tables of       *)
(* current over time, one for each characterised slew and load, of which the *)
(* four around a slew and load are sampled and interpolated.                 *)
(*                                                                           *)
(* A vector is [slew, load, times, values, ref_time]; the sampling (the      *)
(* code's simu_info) is [start, end, points], counted from ref_time.         *)
EXTENDS TableLookup, FiniteSetsExt

Ahead(axis, x) == {a \in axis : a > x}

(* Two neighbours on an axis around a value: the first two below the range.  *)
(* At the top of the range and beyond it the second is the end of the set.   *)
find_bound(axis, x) ==
  LET high == IF Min(axis) > x THEN Min(axis \ {Min(axis)}) ELSE Min(Ahead(axis, x))
  IN  <<Max({a \in axis : a < high}), high>>
HasBound(axis, x) == Cardinality(axis) > 1 /\ Ahead(axis, x) # {}

(* The first vector made for a slew and a load, and the first of all where   *)
(* the grid has a gap: operator[] of the map makes an index 0.               *)
get_vector_table(vectors, slew, load) ==
  LET made == {i \in DOMAIN vectors : vectors[i].slew = slew /\ vectors[i].load = load}
  IN  vectors[IF made = {} THEN 1 ELSE Min(made)]

gateOutputCurrent(vectors, slew, load) ==
  LET slews == {vectors[i].slew : i \in DOMAIN vectors}
      loads == {vectors[i].load : i \in DOMAIN vectors}
      s == find_bound(slews, slew)
      l == find_bound(loads, load) IN
  IF HasBound(slews, slew) /\ HasBound(loads, load)
  THEN [q \in {1, 2} \X {1, 2} |-> get_vector_table(vectors, s[q[1]], l[q[2]])]
  ELSE Undefined

LastTime(vector) == vector.times[Len(vector.times)]

(* A vector that is sampled first, without a sampling asked for, sets its    *)
(* own for all four.                                                         *)
OwnSampling(vector) ==
  [start |-> 0, end |-> LastTime(vector) - vector.ref_time, points |-> Len(vector.times)]

(* One sample: the line through the two time points around it, currents      *)
(* without their sign.                                                       *)
Magnitude(n) == IF n < 0 THEN -n ELSE n
Sample_Signed(vector, time) ==
  LET first == Min({k \in DOMAIN vector.times : AtMost(time, Whole(vector.times[k]))})
      k == IF first = 1 THEN 2 ELSE first
  IN  LinearInterpolate(Whole(vector.times[k - 1]), Whole(vector.times[k]),
                        Whole(vector.values[k - 1]), Whole(vector.values[k]), time)
Sample(vector, time) ==
  LET first == Min({k \in DOMAIN vector.times : AtMost(time, Whole(vector.times[k]))})
      k == IF first = 1 THEN 2 ELSE first
  IN  LinearInterpolate(Whole(vector.times[k - 1]), Whole(vector.times[k]),
                        Whole(Magnitude(vector.values[k - 1])), Whole(Magnitude(vector.values[k])), time)

SampleTimes(vector, sampling) ==
  [k \in 1..sampling.points |->
     Plus(Whole(vector.ref_time + sampling.start),
          <<(k - 1) * (sampling.end - sampling.start), sampling.points - 1>>)]

(* The currents of one vector: the program stops at a sample behind the last *)
(* time of the vector.                                                       *)
OutlastsSampling(vector, sampling) == LastTime(vector) - vector.ref_time >= sampling.end
VectorCurrent(vector, sampling) ==
  [k \in 1..sampling.points |-> Sample(vector, SampleTimes(vector, sampling)[k])]

(* Between the four: along one axis where the corners share the other.       *)
Along(x1, x2, a, b, x) == LinearInterpolate(Whole(x1), Whole(x2), a, b, Whole(x))
Between(four, current, slew, load) ==
  LET low == four[<<1, 1>>]
      high == four[<<2, 2>>] IN
  IF low.slew = high.slew
  THEN Along(low.load, high.load, current[<<1, 1>>], current[<<1, 2>>], load)
  ELSE IF low.load = high.load
  THEN Along(low.slew, high.slew, current[<<1, 1>>], current[<<2, 1>>], slew)
  ELSE BilinearInterpolation(current[<<1, 1>>], current[<<1, 2>>], current[<<2, 1>>], current[<<2, 2>>],
                             Whole(low.slew), Whole(high.slew), Whole(low.load), Whole(high.load),
                             Whole(slew), Whole(load))

(* The currents at a slew and a load.  Without a sampling asked for, the     *)
(* vector that is sampled first sets its own, and which of the four that is  *)
(* the compiler decides.  Corners that coincide are divided by zero.         *)
Samplings(four, asked) ==
  IF asked = None THEN {OwnSampling(four[q]) : q \in DOMAIN four} ELSE {asked}

getOutputCurrent(four, sampling, slew, load) ==
  LET low == four[<<1, 1>>]
      high == four[<<2, 2>>]
      currents == [q \in DOMAIN four |-> VectorCurrent(four[q], sampling)] IN
  CASE \E q \in DOMAIN four : ~OutlastsSampling(four[q], sampling) -> Stops
    [] /\ \A q \in DOMAIN four : OutlastsSampling(four[q], sampling)
       /\ low.slew = high.slew /\ low.load = high.load -> Undefined
    [] OTHER -> Value([k \in 1..sampling.points |->
                         Between(four, [q \in DOMAIN four |-> currents[q][k]], slew, load)])

=============================================================================
