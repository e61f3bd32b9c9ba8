------------------------------- MODULE StaProofs -------------------------------
(***************************************************************************)
(* Timer, called by the shell, implements Sta: proof for every circuit and *)
(* every order its pins may be sorted in.  First the tables of StaTables,  *)
(* which are defined without an order, are shown to be the only solution   *)
(* of equations that hold along any order; then each pass is shown to      *)
(* solve them; then what is traced back is shown to be a path of Sta.      *)
(***************************************************************************)
EXTENDS TimerProperties, TimerProofs, WellFoundedInduction

-----------------------------------------------------------------------------
(***************************************************************************)
(* Induction, for sets.                                                    *)
(***************************************************************************)
\* A set of numbers has a least one.
LEMMA LeastNumber == ASSUME NEW S, S \subseteq Nat, S # {} PROVE \E x \in S : \A y \in S : x <= y
<1>1. PICK x \in S : \A y \in S : ~ (<<y, x>> \in OpToRel(<, Nat))
  BY NatLessThanWellFounded, WFMin
<1>2. ASSUME NEW y \in S, y < x PROVE <<y, x>> \in OpToRel(<, Nat)
  <2>1. <<y, x>> \in Nat \X Nat
    OBVIOUS
  <2>2. <<y, x>>[1] < <<y, x>>[2]
    BY <1>2
  <2> QED  BY <2>1, <2>2, Zenon DEF OpToRel
<1>3. \A y \in S : ~ (y < x)
  BY <1>1, <1>2
<1> QED  BY <1>3

\* A set of numbers that holds 0 and the successor of each number holds all.
LEMMA NumbersFromZero ==
  ASSUME NEW N, 0 \in N, \A n \in Nat : n \in N => n + 1 \in N
  PROVE  Nat \subseteq N
<1> SUFFICES ASSUME Nat \ N # {} PROVE FALSE
  OBVIOUS
<1>1. PICK x \in Nat \ N : \A y \in Nat \ N : x <= y
  BY LeastNumber
<1>2. x - 1 \in Nat /\ ~ (x <= x - 1)
  BY <1>1
<1>3. x - 1 \in N
  BY <1>1, <1>2
<1> QED  BY <1>1, <1>2, <1>3

-----------------------------------------------------------------------------
(***************************************************************************)
(* The pins the inputs reach, along an order.                              *)
(***************************************************************************)
\* The facts of an order that get_toposorted_pins may return, by its arcs.
LEMMA OrderFacts ==
  ASSUME NEW s \in Toposorts
  PROVE  /\ s \in Seq(Pins)
         /\ \A i, j \in 1 .. Len(s) : s[i] = s[j] => i = j
         /\ \A p \in PrimaryInputs : \E i \in 1 .. Len(s) : s[i] = p
         /\ \A i \in 1 .. Len(s), a \in Arcs :
              from_pin[a] = s[i] => \E j \in i + 1 .. Len(s) : s[j] = to_pin[a]
         /\ \A j \in 1 .. Len(s) : s[j] \in PrimaryInputs \/
              \E i \in 1 .. j - 1 : \E a \in Arcs : from_pin[a] = s[i] /\ to_pin[a] = s[j]
<1>1. IsTopologicalOrder(s, Pins, PrimaryInputs, Links)
  BY ToposortAssumption DEF IsToposort
<1>2. /\ s \in Seq(Pins)
      /\ \A i, j \in 1 .. Len(s) : s[i] = s[j] => i = j
      /\ \A p \in PrimaryInputs : \E i \in 1 .. Len(s) : s[i] = p
      /\ \A i \in 1 .. Len(s), v \in Pins : <<s[i], v>> \in Links => \E j \in i + 1 .. Len(s) : s[j] = v
      /\ \A j \in 1 .. Len(s) : s[j] \in PrimaryInputs \/ \E i \in 1 .. j - 1 : <<s[i], s[j]>> \in Links
  BY <1>1 DEF IsTopologicalOrder
<1>3. ASSUME NEW i \in 1 .. Len(s), NEW a \in Arcs, from_pin[a] = s[i]
      PROVE  \E j \in i + 1 .. Len(s) : s[j] = to_pin[a]
  <2>1. <<s[i], to_pin[a]>> \in Links /\ to_pin[a] \in Pins
    BY <1>3, CircuitAssumption DEF Links
  <2> QED  BY <1>2, <2>1
<1>4. ASSUME NEW j \in 1 .. Len(s), NEW i \in 1 .. j - 1, <<s[i], s[j]>> \in Links
      PROVE  \E a \in Arcs : from_pin[a] = s[i] /\ to_pin[a] = s[j]
  BY <1>4 DEF Links
<1> QED  BY <1>2, <1>3, <1>4

\* The reached pins are those of the order, whichever it is.
LEMMA ReachedInOrder ==
  ASSUME NEW s \in Toposorts
  PROVE  /\ \A i \in 1 .. Len(s) : s[i] \in Reached
         /\ \A p \in Reached : \E i \in 1 .. Len(s) : s[i] = p
<1> DEFINE S0 == {s[i] : i \in 1 .. Len(s)}
<1>1. S0 \in SUBSET Pins /\ PrimaryInputs \subseteq S0 /\ Closed(S0)
  <2>1. S0 \in SUBSET Pins /\ PrimaryInputs \subseteq S0
    BY OrderFacts
  <2>2. ASSUME NEW a \in Arcs, from_pin[a] \in S0 PROVE to_pin[a] \in S0
    <3>1. PICK i \in 1 .. Len(s) : from_pin[a] = s[i]
      BY <2>2
    <3>2. PICK j \in i + 1 .. Len(s) : s[j] = to_pin[a]
      BY <3>1, OrderFacts
    <3>3. j \in 1 .. Len(s)
      BY OrderFacts
    <3> QED  BY <3>2, <3>3
  <2> QED  BY <2>1, <2>2 DEF Closed
<1>2. \A p \in Reached : p \in S0
  BY <1>1 DEF Reached
<1>3. ASSUME NEW S \in SUBSET Pins, PrimaryInputs \subseteq S, Closed(S)
      PROVE  \A i \in 1 .. Len(s) : s[i] \in S
  <2> DEFINE Out == {i \in 1 .. Len(s) : s[i] \notin S}
  <2> SUFFICES ASSUME Out # {} PROVE FALSE
    OBVIOUS
  <2>1. Out \subseteq Nat
    BY OrderFacts
  <2>2. PICK j \in Out : \A i \in Out : j <= i
    BY <2>1, LeastNumber
  <2>3. j \in 1 .. Len(s) /\ s[j] \notin S
    OBVIOUS
  <2>4. PICK i \in 1 .. j - 1 : \E a \in Arcs : from_pin[a] = s[i] /\ to_pin[a] = s[j]
    BY <1>3, <2>3, OrderFacts
  <2>5. i \in 1 .. Len(s) /\ ~ (j <= i)
    BY <2>3, OrderFacts
  <2>6. s[i] \in S
    BY <2>2, <2>5
  <2> QED  BY <1>3, <2>3, <2>4, <2>6 DEF Closed
<1>4. \A i \in 1 .. Len(s) : s[i] \in Pins
  BY OrderFacts
<1>5. \A i \in 1 .. Len(s) : s[i] \in Reached
  BY <1>3, <1>4 DEF Reached
<1> QED  BY <1>2, <1>5

\* No arc leads from a reached pin to one that is not.
LEMMA ReachedOn ==
  ASSUME NEW a \in Arcs, from_pin[a] \in Reached
  PROVE  to_pin[a] \in Reached
BY CircuitAssumption DEF Reached, Closed

\* What holds of a reached pin once it holds of all reached pins with an arc
\* into it holds of every reached pin.
LEMMA AlongOrder ==
  ASSUME NEW s \in Toposorts, NEW G,
         \A p \in Reached :
           (\A a \in Arcs : to_pin[a] = p /\ from_pin[a] \in Reached => from_pin[a] \in G) => p \in G
  PROVE  Reached \subseteq G
<1> DEFINE Out == {i \in 1 .. Len(s) : s[i] \notin G}
<1> SUFFICES ASSUME Out # {} PROVE FALSE
  BY ReachedInOrder
<1>1. Out \subseteq Nat
  BY OrderFacts
<1>2. PICK j \in Out : \A i \in Out : j <= i
  BY <1>1, LeastNumber
<1>3. j \in 1 .. Len(s) /\ s[j] \notin G /\ s[j] \in Reached
  BY ReachedInOrder
<1>4. ASSUME NEW a \in Arcs, to_pin[a] = s[j], from_pin[a] \in Reached
      PROVE  from_pin[a] \in G
  <2>1. PICK i \in 1 .. Len(s) : s[i] = from_pin[a]
    BY <1>4, ReachedInOrder
  <2>2. PICK k \in i + 1 .. Len(s) : s[k] = to_pin[a]
    BY <2>1, OrderFacts
  <2>3. k \in 1 .. Len(s) /\ Len(s) \in Nat
    BY OrderFacts
  <2>4. k = j
    BY <1>3, <1>4, <2>2, <2>3, OrderFacts
  <2>5. ~ (j <= i)
    BY <2>3, <2>4
  <2> QED  BY <1>2, <2>1, <2>5
<1> QED  BY <1>3, <1>4

-----------------------------------------------------------------------------
(***************************************************************************)
(* The equations of the tables, and that each has one solution.            *)
(***************************************************************************)
\* The running sums of the sinks are the only ones that add them up.
LEMMA SumIs ==
  ASSUME NEW p \in Pins, NEW m \in Modes, NEW e \in Edges,
         NEW s \in [0 .. Len(fanout[p]) -> Int], s[0] = 0,
         \A h \in 1 .. Len(fanout[p]) : s[h] = s[h - 1] + port_capacitance[To(fanout[p][h], m, e)]
  PROVE  SumOfSinks(<<p, m, e>>) = s[Len(fanout[p])]
<1> DEFINE L == Len(fanout[p])
           Adds(g) == g = [n \in 0 .. L |-> IF n = 0 THEN 0
                             ELSE g[n - 1] + port_capacitance[To(fanout[p][n], m, e)]]
           sum == CHOOSE g : Adds(g)
<1>1. SumOfSinks(<<p, m, e>>) = sum[L]
  BY DEF SumOfSinks
<1>2. L \in Nat
  BY FanoutAssumption
<1>3. Adds(s)
  <2>1. \A n \in 0 .. L : n # 0 => n \in 1 .. L
    BY <1>2
  <2>2. \A n \in 0 .. L : s[n] = IF n = 0 THEN 0
                                   ELSE s[n - 1] + port_capacitance[To(fanout[p][n], m, e)]
    BY <2>1
  <2> QED  BY <2>2
<1> HIDE DEF Adds
<1>4. Adds(sum)
  BY <1>3, Zenon
<1> HIDE DEF sum
<1>5. \A n \in 0 .. L : sum[n] = s[n]
  <2> DEFINE Out == {n \in 0 .. L : sum[n] # s[n]}
  <2> SUFFICES ASSUME Out # {} PROVE FALSE
    OBVIOUS
  <2>1. Out \subseteq Nat
    BY <1>2
  <2>2. PICK n \in Out : \A i \in Out : n <= i
    BY <2>1, LeastNumber
  <2>3. n \in 0 .. L /\ sum[n] # s[n]
    OBVIOUS
  <2>4. sum[n] = IF n = 0 THEN 0 ELSE sum[n - 1] + port_capacitance[To(fanout[p][n], m, e)]
    BY <1>4, <2>3 DEF Adds
  <2>5. CASE n = 0
    BY <2>3, <2>4, <2>5
  <2>6. CASE n # 0
    <3>1. n \in 1 .. L /\ n - 1 \in 0 .. L /\ ~ (n <= n - 1)
      BY <1>2, <2>3, <2>6
    <3>2. sum[n - 1] = s[n - 1]
      BY <2>2, <3>1
    <3> QED  BY <2>3, <2>4, <2>6, <3>1, <3>2
  <2> QED  BY <2>5, <2>6
<1> QED  BY <1>1, <1>2, <1>5

\* The worst of a set of numbers is the one none replaces.
LEMMA WorstIs ==
  ASSUME NEW m \in Modes, NEW S, S \subseteq Int, NEW v \in S, \A w \in S : ~ Replaces(m, w, v)
  PROVE  Worst(m, S) = v
<1> DEFINE Better(x, y) == IF m = "MAX" THEN x <= y ELSE y <= x
<1>1. S # {} /\ v \in Int
  OBVIOUS
<1>2. \A w \in S : w \in Int /\ Better(w, v)
  BY DEF Replaces, Modes
<1>3. Worst(m, S) = CHOOSE x \in S : \A w \in S : Better(w, x)
  BY <1>1 DEF Worst
<1>4. (CHOOSE x \in S : \A w \in S : Better(w, x)) \in S
      /\ \A w \in S : Better(w, CHOOSE x \in S : \A u \in S : Better(u, x))
  BY <1>2, Zenon
<1> DEFINE c == CHOOSE x \in S : \A w \in S : Better(w, x)
<1>5. c \in S /\ Better(v, c)
  BY <1>4
<1> HIDE DEF c
<1>6. Better(c, v) /\ c \in Int
  BY <1>2, <1>5
<1>7. c = v
  BY <1>1, <1>5, <1>6
<1> QED  BY <1>3, <1>7 DEF c

LEMMA WorstOfNone == ASSUME NEW m PROVE Worst(m, {}) = None
BY DEF Worst

\* A table of slews whose every entry is the worst that comes over the arcs.
SlewOf(g, k) ==
  LET Boundary == IF is_primary_input(k[1]) \/ is_primary_output(k[1]) THEN {0} ELSE {}
      Live == {x \in FanIn(k[1]) \X Edges :
                 /\ from_pin[x[1]] \in Reached
                 /\ is_clock_edge_valid(x[1], x[2], k[3])
                 /\ slew_lut[<<x[1], k[3]>>] # None
                 /\ g[From(x[1], k[2], x[2])] # None}
  IN Worst(k[2], Boundary \cup
       {get_value(slew_lut[<<x[1], k[3]>>], g[From(x[1], k[2], x[2])], Load[k]) : x \in Live})
SolvesSlews(g) == g = [k \in PinKeys |-> SlewOf(g, k)]

\* Only the entries of reached pins with an arc into the pin count.
LEMMA SlewOfSame ==
  ASSUME NEW g, NEW h, NEW k \in PinKeys,
         \A a \in Arcs, f \in Edges : to_pin[a] = k[1] /\ from_pin[a] \in Reached =>
           g[From(a, k[2], f)] = h[From(a, k[2], f)]
  PROVE  SlewOf(g, k) = SlewOf(h, k)
<1> DEFINE Live(j) == {x \in FanIn(k[1]) \X Edges :
                         /\ from_pin[x[1]] \in Reached
                         /\ is_clock_edge_valid(x[1], x[2], k[3])
                         /\ slew_lut[<<x[1], k[3]>>] # None
                         /\ j[From(x[1], k[2], x[2])] # None}
           Values(j) == {get_value(slew_lut[<<x[1], k[3]>>], j[From(x[1], k[2], x[2])], Load[k]) : x \in Live(j)}
<1>1. \A x \in FanIn(k[1]) \X Edges : from_pin[x[1]] \in Reached =>
        g[From(x[1], k[2], x[2])] = h[From(x[1], k[2], x[2])]
  BY DEF FanIn
<1>2. Live(g) = Live(h)
  BY <1>1
<1>3. \A x \in Live(g) : g[From(x[1], k[2], x[2])] = h[From(x[1], k[2], x[2])]
  BY <1>1
<1> HIDE DEF Live
<1>4. Values(g) = Values(h)
  BY <1>2, <1>3
<1> QED  BY <1>4 DEF SlewOf, Live

\* There is only one.
LEMMA SlewsAre ==
  ASSUME NEW s \in Toposorts, NEW h, SolvesSlews(h)
  PROVE  WorstSlew = h
<1>1. WorstSlew = CHOOSE g : SolvesSlews(g)
  BY DEF WorstSlew, SolvesSlews, SlewOf
<1>2. SolvesSlews(WorstSlew)
  BY <1>1, Zenon
<1> DEFINE G == {p \in Pins : \A m \in Modes, e \in Edges : WorstSlew[<<p, m, e>>] = h[<<p, m, e>>]}
<1>3. ASSUME NEW p \in Pins,
             \A a \in Arcs : to_pin[a] = p /\ from_pin[a] \in Reached => from_pin[a] \in G
      PROVE  p \in G
  <2> SUFFICES ASSUME NEW m \in Modes, NEW e \in Edges
               PROVE  WorstSlew[<<p, m, e>>] = h[<<p, m, e>>]
    OBVIOUS
  <2> DEFINE k == <<p, m, e>>
  <2>1. k \in PinKeys
    BY DEF PinKeys
  <2>2. \A a \in Arcs, f \in Edges : to_pin[a] = p /\ from_pin[a] \in Reached =>
          WorstSlew[From(a, m, f)] = h[From(a, m, f)]
    BY <1>3 DEF From
  <2>3. SlewOf(WorstSlew, k) = SlewOf(h, k)
    BY <2>1, <2>2, SlewOfSame
  <2>4. WorstSlew[k] = SlewOf(WorstSlew, k) /\ h[k] = SlewOf(h, k)
    BY <1>2, <2>1 DEF SolvesSlews
  <2> QED  BY <2>3, <2>4
<1>4. Reached \subseteq Pins
  BY DEF Reached
<1>5. Reached \subseteq G
  <2> HIDE DEF G
  <2> QED  BY <1>3, <1>4, AlongOrder
<1>6. \A p \in Pins : p \in G
  BY <1>3, <1>5
<1>7. \A k \in PinKeys : WorstSlew[k] = h[k]
  BY <1>6 DEF PinKeys
<1> HIDE DEF G
<1> QED  BY <1>2, <1>7 DEF SolvesSlews

\* The same for the delays of the paths of a report.
DelaysOf(start, g, k) ==
  (IF is_primary_input(k[1]) THEN {0} ELSE {}) \cup
  UNION {{d + ArcDelay[<<x[1], k[2], x[2], k[3]>>] : d \in g[From(x[1], k[2], x[2])]} :
         x \in {y \in FanIn(k[1]) \X Edges :
                  /\ Leaves(from_pin[y[1]], start)
                  /\ ArcDelay[<<y[1], k[2], y[2], k[3]>>] # None}}
SolvesPaths(start, g) == g = [k \in PinKeys |-> DelaysOf(start, g, k)]

\* An arc with a delay leaves a reached pin, and adds a number.
LEMMA DelayFacts ==
  ASSUME capacitance = Load, slew = WorstSlew, TypeOK,
         NEW a \in Arcs, NEW m \in Modes, NEW f \in Edges, NEW t \in Edges,
         ArcDelay[<<a, m, f, t>>] # None
  PROVE  /\ from_pin[a] \in Reached /\ ArcDelay[<<a, m, f, t>>] \in Int
         /\ is_clock_edge_valid(a, f, t)
<1>1. <<a, m, f, t>> \in ArcKeys /\ From(a, m, f) \in PinKeys /\ To(a, m, t) \in PinKeys
  BY CircuitAssumption DEF ArcKeys, PinKeys, From, To
<1>2. /\ from_pin[a] \in Reached /\ is_clock_edge_valid(a, f, t)
      /\ delay_lut[<<a, t>>] # None /\ WorstSlew[From(a, m, f)] # None
      /\ ArcDelay[<<a, m, f, t>>] =
           get_value(delay_lut[<<a, t>>], WorstSlew[From(a, m, f)], Load[To(a, m, t)])
  BY <1>1 DEF ArcDelay
<1>3. delay_lut[<<a, t>>] \in Lut /\ WorstSlew[From(a, m, f)] \in Int /\ Load[To(a, m, t)] \in Int
  BY <1>1, <1>2, CircuitAssumption DEF TypeOK, OptInt
<1> QED  BY <1>2, <1>3, get_value_Type

\* Only paths into the from pins of the arcs into the pin count.
LEMMA DelaysOfSame ==
  ASSUME NEW start, NEW g, NEW h, NEW k \in PinKeys,
         \A a \in Arcs, f \in Edges :
           to_pin[a] = k[1] /\ ArcDelay[<<a, k[2], f, k[3]>>] # None =>
             g[From(a, k[2], f)] = h[From(a, k[2], f)]
  PROVE  DelaysOf(start, g, k) = DelaysOf(start, h, k)
<1> DEFINE X == {y \in FanIn(k[1]) \X Edges :
                   /\ Leaves(from_pin[y[1]], start)
                   /\ ArcDelay[<<y[1], k[2], y[2], k[3]>>] # None}
           Along(j, x) == {d + ArcDelay[<<x[1], k[2], x[2], k[3]>>] : d \in j[From(x[1], k[2], x[2])]}
<1>1. \A x \in X : g[From(x[1], k[2], x[2])] = h[From(x[1], k[2], x[2])]
  BY DEF FanIn
<1>2. \A x \in X : Along(g, x) = Along(h, x)
  BY <1>1
<1> HIDE DEF X, Along
<1>3. {Along(g, x) : x \in X} = {Along(h, x) : x \in X}
  BY <1>2
<1> QED  BY <1>3 DEF DelaysOf, X, Along

\* The delays of the paths into the first n pins of an order can be told from
\* those into the pins before.
LEMMA PathsSolvable ==
  ASSUME NEW s \in Toposorts, NEW start, capacitance = Load, slew = WorstSlew, TypeOK
  PROVE  \E g \in [PinKeys -> SUBSET Int] : SolvesPaths(start, g)
<1> DEFINE Done(n, g) ==
             \A k \in PinKeys : (k[1] \notin Reached \/ \E i \in 1 .. Len(s) : i <= n /\ s[i] = k[1]) =>
               g[k] = DelaysOf(start, g, k)
           N == {n \in Nat : n <= Len(s) => \E g \in [PinKeys -> SUBSET Int] : Done(n, g)}
<1>0. /\ Len(s) \in Nat /\ \A i \in 1 .. Len(s) : i \in Nat
  BY OrderFacts
<1>1. ASSUME NEW k \in PinKeys, NEW a \in Arcs, NEW f \in Edges, to_pin[a] = k[1],
             ArcDelay[<<a, k[2], f, k[3]>>] # None
      PROVE  /\ From(a, k[2], f) \in PinKeys /\ from_pin[a] \in Reached /\ k[1] \in Reached
             /\ ArcDelay[<<a, k[2], f, k[3]>>] \in Int
  <2>1. k[2] \in Modes /\ k[3] \in Edges
    BY DEF PinKeys
  <2>2. from_pin[a] \in Reached /\ ArcDelay[<<a, k[2], f, k[3]>>] \in Int
    BY <1>1, <2>1, DelayFacts
  <2>3. From(a, k[2], f) \in PinKeys
    BY <2>1, CircuitAssumption DEF From, PinKeys
  <2> QED  BY <1>1, <2>2, <2>3, ReachedOn
<1>2. 0 \in N
  <2> DEFINE g0 == [k \in PinKeys |-> {}]
  <2>1. ASSUME NEW k \in PinKeys, k[1] \notin Reached PROVE DelaysOf(start, g0, k) = {}
    <3>1. ~ is_primary_input(k[1])
      BY <2>1 DEF Reached, PrimaryInputs, PinKeys
    <3>2. {y \in FanIn(k[1]) \X Edges :
             /\ Leaves(from_pin[y[1]], start)
             /\ ArcDelay[<<y[1], k[2], y[2], k[3]>>] # None} = {}
      BY <1>1, <2>1 DEF FanIn
    <3> QED  BY <3>1, <3>2 DEF DelaysOf
  <2>2. \A i \in 1 .. Len(s) : ~ (i <= 0)
    BY <1>0
  <2>3. Done(0, g0)
    BY <2>1, <2>2
  <2>4. g0 \in [PinKeys -> SUBSET Int]
    OBVIOUS
  <2> HIDE DEF Done
  <2> QED  BY <2>3, <2>4
<1>3. ASSUME NEW n \in Nat, n \in N PROVE n + 1 \in N
  <2> SUFFICES ASSUME n + 1 <= Len(s) PROVE \E g \in [PinKeys -> SUBSET Int] : Done(n + 1, g)
    OBVIOUS
  <2>1. n <= Len(s) /\ n + 1 \in 1 .. Len(s)
    BY <1>0
  <2>2. PICK g \in [PinKeys -> SUBSET Int] : Done(n, g)
    BY <1>3, <2>1
  <2> DEFINE h == [k \in PinKeys |-> IF k[1] = s[n + 1] THEN DelaysOf(start, g, k) ELSE g[k]]
  <2>3. ASSUME NEW k \in PinKeys PROVE DelaysOf(start, g, k) \in SUBSET Int
    <3> DEFINE X == {y \in FanIn(k[1]) \X Edges :
                       /\ Leaves(from_pin[y[1]], start)
                       /\ ArcDelay[<<y[1], k[2], y[2], k[3]>>] # None}
               Along(x) == {d + ArcDelay[<<x[1], k[2], x[2], k[3]>>] : d \in g[From(x[1], k[2], x[2])]}
    <3>1. ASSUME NEW x \in X PROVE Along(x) \subseteq Int
      <4>1. g[From(x[1], k[2], x[2])] \in SUBSET Int /\ ArcDelay[<<x[1], k[2], x[2], k[3]>>] \in Int
        BY <1>1, <2>2 DEF FanIn
      <4> QED  BY <4>1
    <3> HIDE DEF X, Along
    <3>2. UNION {Along(x) : x \in X} \subseteq Int
      BY <3>1
    <3> DEFINE Arriving == UNION {Along(x) : x \in X}
    <3>3. DelaysOf(start, g, k) = (IF is_primary_input(k[1]) THEN {0} ELSE {}) \cup Arriving
      BY DEF DelaysOf, X, Along
    <3> HIDE DEF Arriving
    <3>4. Arriving \subseteq Int
      BY <3>2 DEF Arriving
    <3> QED  BY <3>3, <3>4
  <2>4. h \in [PinKeys -> SUBSET Int]
    BY <2>2, <2>3
  <2>5. ASSUME NEW k \in PinKeys, k[1] \notin Reached \/ \E i \in 1 .. Len(s) : i <= n + 1 /\ s[i] = k[1],
               NEW a \in Arcs, NEW f \in Edges, to_pin[a] = k[1], ArcDelay[<<a, k[2], f, k[3]>>] # None
        PROVE  h[From(a, k[2], f)] = g[From(a, k[2], f)]
    <3>1. from_pin[a] \in Reached /\ k[1] \in Reached /\ From(a, k[2], f) \in PinKeys
      BY <1>1, <2>5
    <3>2. PICK j \in 1 .. Len(s) : j <= n + 1 /\ s[j] = k[1]
      BY <2>5, <3>1
    <3>3. from_pin[a] # s[n + 1]
      <4> SUFFICES ASSUME from_pin[a] = s[n + 1] PROVE FALSE
        OBVIOUS
      <4>1. PICK i \in n + 2 .. Len(s) : s[i] = to_pin[a]
        BY <2>1, OrderFacts
      <4>2. i = j
        BY <1>0, <2>5, <3>2, <4>1, OrderFacts
      <4> QED  BY <1>0, <3>2, <4>2
    <3> QED  BY <3>1, <3>3 DEF From
  <2>6. ASSUME NEW k \in PinKeys, k[1] \notin Reached \/ \E i \in 1 .. Len(s) : i <= n + 1 /\ s[i] = k[1]
        PROVE  h[k] = DelaysOf(start, h, k)
    <3>1. DelaysOf(start, h, k) = DelaysOf(start, g, k)
      <4> HIDE DEF h
      <4> QED  BY <2>5, <2>6, DelaysOfSame
    <3>2. CASE k[1] = s[n + 1]
      BY <3>1, <3>2
    <3>3. CASE k[1] # s[n + 1]
      <4>1. h[k] = g[k]
        BY <3>3
      <4>2. k[1] \notin Reached \/ \E i \in 1 .. Len(s) : i <= n /\ s[i] = k[1]
        BY <1>0, <2>6, <3>3
      <4>3. g[k] = DelaysOf(start, g, k)
        BY <2>2, <4>2
      <4> QED  BY <3>1, <4>1, <4>3
    <3> QED  BY <3>2, <3>3
  <2>7. Done(n + 1, h)
    <3> HIDE DEF h
    <3> QED  BY <2>6
  <2> HIDE DEF Done, h
  <2> QED  BY <2>4, <2>7
<1>4. Len(s) \in N
  <2> HIDE DEF N
  <2> QED  BY <1>0, <1>2, <1>3, NumbersFromZero
<1>5. PICK g \in [PinKeys -> SUBSET Int] : Done(Len(s), g)
  BY <1>0, <1>4
<1>6. \A k \in PinKeys : g[k] = DelaysOf(start, g, k)
  BY <1>0, <1>5, ReachedInOrder
<1> QED  BY <1>5, <1>6 DEF SolvesPaths

\* Arrival times that no arc betters, each of which comes along an arc, are
\* the worst over all paths.
LEMMA ArrivalIs ==
  ASSUME NEW s \in Toposorts, capacitance = Load, slew = WorstSlew, TypeOK,
         NEW start \in {"IN", "REG", "ALL"}, NEW A \in [PinKeys -> OptInt],
         \A k \in PinKeys : is_primary_input(k[1]) => A[k] = 0,
         \A a \in Arcs, m \in Modes, f \in Edges, t \in Edges :
           /\ Leaves(from_pin[a], start)
           /\ A[From(a, m, f)] # None /\ ArcDelay[<<a, m, f, t>>] # None
           => ~ Replaces(m, A[From(a, m, f)] + ArcDelay[<<a, m, f, t>>], A[To(a, m, t)]),
         \A k \in PinKeys : A[k] # None /\ ~ is_primary_input(k[1]) =>
           \E a \in Arcs, f \in Edges :
             /\ to_pin[a] = k[1] /\ Leaves(from_pin[a], start)
             /\ A[From(a, k[2], f)] # None /\ ArcDelay[<<a, k[2], f, k[3]>>] # None
             /\ A[k] = A[From(a, k[2], f)] + ArcDelay[<<a, k[2], f, k[3]>>]
  PROVE  A = Arrival[start]
<1> DEFINE D == PathDelays(start)
<1>1. SolvesPaths(start, D)
  <2>1. D = CHOOSE g : SolvesPaths(start, g)
    BY DEF PathDelays, SolvesPaths, DelaysOf
  <2>2. \E g : SolvesPaths(start, g)
    BY PathsSolvable
  <2> QED  BY <2>1, <2>2, Zenon
<1>2. Arrival[start] = [k \in PinKeys |-> Worst(k[2], D[k])]
  <2>1. start \in DOMAIN Starts
    BY DEF Starts
  <2> QED  BY <2>1 DEF Arrival
<1> HIDE DEF D
\* Right at a key: nothing arrives and there is no path, or the worst path arrives.
<1> DEFINE Right(k) == /\ D[k] \subseteq Int
                       /\ A[k] = None => D[k] = {}
                       /\ A[k] # None => A[k] \in D[k] /\ \A d \in D[k] : ~ Replaces(k[2], d, A[k])
           G == {p \in Pins : \A m \in Modes, e \in Edges : Right(<<p, m, e>>)}
<1>3. ASSUME NEW p \in Pins,
             \A a \in Arcs : to_pin[a] = p /\ from_pin[a] \in Reached => from_pin[a] \in G
      PROVE  p \in G
  <2> SUFFICES ASSUME NEW m \in Modes, NEW e \in Edges PROVE Right(<<p, m, e>>)
    OBVIOUS
  <2> DEFINE k == <<p, m, e>>
             X == {y \in FanIn(k[1]) \X Edges :
                     /\ Leaves(from_pin[y[1]], start)
                     /\ ArcDelay[<<y[1], k[2], y[2], k[3]>>] # None}
             Along(x) == {d + ArcDelay[<<x[1], k[2], x[2], k[3]>>] : d \in D[From(x[1], k[2], x[2])]}
  <2>1. k \in PinKeys /\ A[k] \in OptInt
    BY DEF PinKeys
  <2>2. D[k] = (IF is_primary_input(p) THEN {0} ELSE {}) \cup UNION {Along(x) : x \in X}
    <3>1. D[k] = DelaysOf(start, D, k)
      BY <1>1, <2>1 DEF SolvesPaths
    <3> QED  BY <3>1 DEF DelaysOf
  <2>3. CASE is_primary_input(p)
    <3>1. X = {}
      BY <2>3, DriverAssumption DEF FanIn
    <3>2. UNION {Along(x) : x \in X} = {}
      <4> HIDE DEF X, Along
      <4> QED  BY <3>1
    <3>3. D[k] = {0} /\ A[k] = 0
      BY <2>1, <2>2, <2>3, <3>2
    <3>4. 0 # None /\ ~ Replaces(m, 0, 0)
      BY NoneAssumption, ReplacesIrreflexive
    <3> QED  BY <3>3, <3>4
  <2>4. CASE ~ is_primary_input(p)
    <3>1. D[k] = UNION {Along(x) : x \in X}
      BY <2>2, <2>4
    <3>2. ASSUME NEW a \in Arcs, NEW f \in Edges, to_pin[a] = p, ArcDelay[<<a, m, f, e>>] # None
          PROVE  /\ Right(From(a, m, f)) /\ From(a, m, f) \in PinKeys
                 /\ ArcDelay[<<a, m, f, e>>] \in Int
      <4>1. from_pin[a] \in Reached /\ ArcDelay[<<a, m, f, e>>] \in Int
        BY <3>2, DelayFacts
      <4>2. from_pin[a] \in G
        BY <1>3, <3>2, <4>1
      <4>3. Right(<<from_pin[a], m, f>>)
        BY <4>2
      <4> HIDE DEF Right
      <4> QED  BY <4>1, <4>3, CircuitAssumption DEF From, PinKeys
    <3>3. ASSUME NEW d \in D[k]
          PROVE  d \in Int /\ A[k] # None /\ ~ Replaces(m, d, A[k])
      <4>1. PICK x \in X : d \in Along(x)
        <5> HIDE DEF X, Along
        <5> QED  BY <3>1
      <4>2. PICK a \in Arcs, f \in Edges : /\ x = <<a, f>> /\ to_pin[a] = p
                                           /\ Leaves(from_pin[a], start) /\ ArcDelay[<<a, m, f, e>>] # None
        BY DEF FanIn
      <4>3. PICK c \in D[From(a, m, f)] : d = c + ArcDelay[<<a, m, f, e>>]
        BY <4>1, <4>2
      <4> DEFINE w == ArcDelay[<<a, m, f, e>>]
                 y == A[From(a, m, f)]
      <4>4. Right(From(a, m, f)) /\ From(a, m, f) \in PinKeys /\ w \in Int
        BY <3>2, <4>2
      <4>5. c \in Int /\ y # None /\ ~ Replaces(m, c, y)
        BY <4>3, <4>4 DEF From
      <4>6. y \in Int
        BY <4>4, <4>5 DEF OptInt
      <4>7. ~ Replaces(m, y + w, A[k])
        BY <4>2, <4>5 DEF To
      <4> HIDE DEF w, y
      <4>8. A[k] # None /\ ~ Replaces(m, c + w, A[k])
        BY <2>1, <4>4, <4>5, <4>6, <4>7, ReplacesShift
      <4> QED  BY <4>3, <4>4, <4>5, <4>8 DEF w
    <3>4. ASSUME A[k] # None PROVE A[k] \in D[k]
      <4>1. PICK a \in Arcs, f \in Edges :
              /\ to_pin[a] = p /\ Leaves(from_pin[a], start)
              /\ A[From(a, m, f)] # None /\ ArcDelay[<<a, m, f, e>>] # None
              /\ A[k] = A[From(a, m, f)] + ArcDelay[<<a, m, f, e>>]
        BY <2>1, <2>4, <3>4
      <4>2. Right(From(a, m, f))
        BY <3>2, <4>1
      <4>3. A[From(a, m, f)] \in D[From(a, m, f)]
        BY <4>1, <4>2
      <4>4. <<a, f>> \in X /\ A[k] \in Along(<<a, f>>)
        BY <4>1, <4>3 DEF FanIn
      <4> HIDE DEF X, Along
      <4> QED  BY <3>1, <4>4
    <3> HIDE DEF X, Along, k
    <3>5. Right(k)
      BY <3>3, <3>4 DEF k
    <3> QED  BY <3>5 DEF k
  <2> QED  BY <2>3, <2>4
<1>4. Reached \subseteq Pins
  BY DEF Reached
<1>5. Reached \subseteq G
  <2> HIDE DEF G
  <2> QED  BY <1>3, <1>4, AlongOrder
<1>6. \A p \in Pins : p \in G
  <2> HIDE DEF G
  <2> QED  BY <1>3, <1>5
<1>7. ASSUME NEW k \in PinKeys PROVE A[k] = Worst(k[2], D[k])
  <2>1. Right(k) /\ k[2] \in Modes
    BY <1>6 DEF PinKeys
  <2>2. CASE A[k] = None
    BY <2>1, <2>2, WorstOfNone
  <2>3. CASE A[k] # None
    BY <2>1, <2>3, WorstIs
  <2> QED  BY <2>2, <2>3
<1> QED  BY <1>2, <1>7

-----------------------------------------------------------------------------
(***************************************************************************)
(* The first update meets the tables of the constructors.                  *)
(***************************************************************************)
\* The shell makes a Timer before it asks for a report.
LEMMA FirstCall ==
  ASSUME Client = "shell", calls = 0, phase = "idle", [Next]_vars
  PROVE  update_timing \/ UNCHANGED vars
<1>1. CASE Pass
  BY <1>1
  DEF Pass, skip_load_pin, add_capacitance, set_capacitance, propagate_slew, propagate_delay,
      skip_start_pin, propagate_arrival_time, EndFanout, EndPinPass, EndPass, set_output_requests,
      propagate_request_arrival_time, AtConstraint, abort_no_constraint, EndRequestPass
<1>2. CASE Collect
  BY <1>2
  DEF Collect, EndReportPass, skip_end_point, start_walk, walk_step, abort_walk, EndGroup
<1>3. CASE ClientCall
  BY <1>3 DEF ClientCall, call_pass, reset_arrival_time, reset_request_arrival_time, report_timing
<1> QED  BY <1>1, <1>2, <1>3 DEF Next

\* Where the steps of an update and of the calls between lead.
LEMMA PhaseSteps ==
  ASSUME TypeOK, OnlyUpdates, Client # "library", [Next]_vars
  PROVE  \/ phase = "capacitance" /\ phase' = "slew" /\ calls' = calls
         \/ phase = "slew" /\ phase' = "delay" /\ calls' = calls
         \/ phase = "delay" /\ phase' = "arrival" /\ calls' = calls
         \/ phase = "arrival" /\ phase' = "outputs" /\ calls' = calls
         \/ phase = "outputs" /\ phase' = "request" /\ calls' = calls
         \/ phase = "request" /\ phase' \in {"idle", "aborted"} /\ calls' = calls
         \/ /\ phase \in {"report", "collect", "walk"} /\ calls' = calls
            /\ phase' \in {"report", "collect", "walk", "idle", "aborted"}
         \/ phase = "idle" /\ phase' = "capacitance" /\ calls' = calls + 1
         \/ phase = "idle" /\ phase' \in {"idle", "report"} /\ calls' = calls
         \/ phase' = phase /\ calls' = calls
<1>1. CASE Turn
  BY <1>1, TurnStays
<1>2. CASE ~ Turn
  BY <1>2, OtherSteps DEF abort_no_constraint, AtConstraint, vars
<1> QED  BY <1>1, <1>2

\* An update comes to a pass from the one before.
LEMMA BeforeSteps ==
  ASSUME TypeOK, OnlyUpdates, Client = "shell", TablesWait, [Next]_vars
  PROVE  /\ Before({"capacitance"})' => Before({"capacitance"})
         /\ Before({"capacitance", "slew"})' => Before({"capacitance", "slew"})
         /\ Before({"capacitance", "slew", "delay"})' => Before({"capacitance", "slew", "delay"})
         /\ Before({"capacitance", "slew", "delay", "arrival", "outputs"})' =>
              Before({"capacitance", "slew", "delay", "arrival", "outputs"})
         /\ calls' = 0 => phase' = "idle"
<1>1. calls \in Nat /\ (calls = 0 => phase = "idle")
  BY DEF TypeOK, TablesWait
<1>2. calls = 0 => (phase' = "capacitance" /\ calls' = 1) \/ (phase' = phase /\ calls' = calls)
  <2>1. calls = 0 => update_timing \/ UNCHANGED vars
    BY <1>1, FirstCall
  <2>2. update_timing /\ calls = 0 => phase' = "capacitance" /\ calls' = 1
    BY DEF update_timing, Called
  <2>3. UNCHANGED vars => phase' = phase /\ calls' = calls
    BY DEF vars
  <2> QED  BY <2>1, <2>2, <2>3
<1>3. Client # "library"
  OBVIOUS
<1> QED  BY <1>1, <1>2, <1>3, PhaseSteps DEF Before, First

\* Arrival times are written by the loops of propagate_arrival_time and reset
\* for a report, which is made after an update.
LEMMA ArrivalTimeSteps ==
  ASSUME Client = "shell", [Next]_vars
  PROVE  \/ propagate_arrival_time
         \/ phase = "idle" /\ calls > 0 /\ calls' = calls
         \/ arrival_time' = arrival_time
BY DEF Next, Pass, Collect, ClientCall, vars, values, arrivals,
       skip_load_pin, add_capacitance, set_capacitance, propagate_slew, propagate_delay,
       skip_start_pin, EndFanout, EndPinPass, set_output_requests, propagate_request_arrival_time,
       abort_no_constraint, EndRequestPass, EndReportPass, skip_end_point, start_walk,
       walk_step, abort_walk, EndGroup, update_timing, call_pass, reset_arrival_time,
       reset_request_arrival_time, report_timing

\* Before its pass a table is left alone.
LEMMA TablesWaitNext ==
  ASSUME TypeOK, OnlyUpdates, Client = "shell", TablesWait, [Next]_vars
  PROVE  TablesWait'
<1>0. Client # "library" /\ (calls = 0 => phase = "idle")
  BY DEF TablesWait
<1>1. Before({"capacitance"})' => slew' = slew
  <2>1. Before({"capacitance"}) => phase # "slew"
    BY <1>0 DEF Before
  <2> QED  BY <1>0, <2>1, BeforeSteps, ValueSteps DEF propagate_slew
<1>2. Before({"capacitance", "slew"})' => delay' = delay
  <2>1. Before({"capacitance", "slew"}) => phase # "delay"
    BY <1>0 DEF Before
  <2> QED  BY <1>0, <2>1, BeforeSteps, ValueSteps DEF propagate_delay
<1>3. Before({"capacitance", "slew", "delay"})' => arrival_time' = arrival_time
  <2>1. Before({"capacitance", "slew", "delay"}) => phase \notin {"arrival", "report"}
    BY <1>0 DEF Before
  <2>2. Before({"capacitance", "slew", "delay"}) => ~ (phase = "idle" /\ calls > 0)
    BY DEF Before, First, TypeOK
  <2> QED  BY <2>1, <2>2, BeforeSteps, ArrivalTimeSteps DEF propagate_arrival_time
<1>4. Before({"capacitance", "slew", "delay", "arrival", "outputs"})' =>
        request_arrival_time' = request_arrival_time
  <2> DEFINE S == {"capacitance", "slew", "delay", "arrival", "outputs"}
  <2>1. Before(S)' => phase # "request" /\ ~ (phase = "outputs" /\ phase' = "request")
    <3>1. Before(S)' => Before(S)
      BY BeforeSteps
    <3>2. Before(S) => phase # "request"
      BY <1>0 DEF Before
    <3>3. phase = "outputs" /\ phase' = "request" => ~ Before(S)'
      <4>1. phase = "outputs" => calls # 0
        BY <1>0
      <4>2. calls \in Nat /\ (phase = "outputs" /\ phase' = "request" => calls' = calls)
        BY <1>0, PhaseSteps DEF TypeOK
      <4> QED  BY <4>1, <4>2 DEF Before
    <3> QED  BY <3>1, <3>2, <3>3
  <2>2. set_output_requests => phase = "outputs" /\ phase' = "request"
    BY DEF set_output_requests, EndPass, NextPass
  <2> QED  BY <1>0, <2>1, <2>2, ValueSteps DEF propagate_request_arrival_time, AtConstraint
<1>5. calls' = 0 => phase' = "idle"
  BY BeforeSteps
<1> QED  BY <1>1, <1>2, <1>3, <1>4, <1>5, BeforeSteps DEF TablesWait

-----------------------------------------------------------------------------
(***************************************************************************)
(* Each pass of the first update makes its table the one of StaTables.     *)
(***************************************************************************)
\* From the pass on that fills it, a table stays.
LEMMA TablesStay ==
  ASSUME WiresAndCells, Client = "shell", IInv, IInv', SettledInv, [Next]_vars
  PROVE  /\ Past({"capacitance"}) => capacitance' = capacitance
         /\ Past({"capacitance", "slew"}) => slew' = slew
         /\ Past({"capacitance", "slew", "delay"}) => delay' = delay
         /\ Updated => request_arrival_time' = request_arrival_time
<1>1. /\ TypeOK /\ TypeOK' /\ ArrivalHasPredecessor /\ InputsStartPaths /\ WalkHasArrival
      /\ LoadsHaveSlews /\ DriversDriveLoads /\ ConstraintsAtCells /\ Client # "library"
      /\ OnlyUpdates /\ CapacitanceInv /\ SlewInv /\ DelayInv /\ RequestInv
  BY DEF IInv, SettledInv, WiresAndCells
<1>2. Past({"capacitance"}) => capacitance' = capacitance
  BY <1>1, CapacitanceNext
<1>3. Past({"capacitance", "slew"}) => slew' = slew
  BY <1>1, SlewNext
<1>4. Past({"capacitance", "slew", "delay"}) => delay' = delay
  BY <1>1, DelayNext
<1>5. Updated => request_arrival_time' = request_arrival_time
  BY <1>1, RequestNext
<1> QED  BY <1>2, <1>3, <1>4, <1>5

\* Only drivers in the order get another capacitance than that of their port.
LEMMA PortsKeepLoadsNext ==
  ASSUME TypeOK, OnlyUpdates, Client # "library", PortsKeepLoads, [Next]_vars
  PROVE  PortsKeepLoads'
<1>1. CASE set_capacitance
  <2>1. PICK i \in 1 .. Len(order), m \in Modes, e \in Edges :
          /\ ~ IsLoadPin(order[i])
          /\ capacitance' = [capacitance EXCEPT ![<<order[i], m, e>>] = total]
    <3>1. pos \in 1 .. Len(order)
      BY <1>1, OrderType DEF set_capacitance, TypeOK
    <3>2. combo \in 1 .. 4
      BY <1>1 DEF set_capacitance, TypeOK
    <3> QED  BY <1>1, <3>1, <3>2, EL_RF_Type DEF set_capacitance, ThisPin
  <2>2. order[i] \in Reached
    BY ReachedInOrder DEF TypeOK
  <2>3. ASSUME NEW k \in PinKeys, IsLoadPin(k[1]) \/ k[1] \notin Reached
        PROVE  capacitance'[k] = capacitance[k]
    <3>1. k # <<order[i], m, e>>
      BY <2>1, <2>2, <2>3
    <3> QED  BY <2>1, <3>1 DEF TypeOK
  <2> QED  BY <2>3 DEF PortsKeepLoads
<1>2. CASE ~ set_capacitance
  BY <1>2, ValueSteps DEF PortsKeepLoads
<1> QED  BY <1>1, <1>2

\* Capacitances that sum up what the loads of each driver have are the loads.
LEMMA LoadsAre ==
  ASSUME TypeOK, DriversDriveLoads, PortsKeepLoads, CapacitancesSettled
  PROVE  capacitance = Load
<1> SUFFICES ASSUME NEW p \in Pins, NEW m \in Modes, NEW e \in Edges
             PROVE  capacitance[<<p, m, e>>] = Load[<<p, m, e>>]
  <2>1. capacitance = [k \in PinKeys |-> capacitance[k]]
    BY DEF TypeOK
  <2>2. Load = [k \in PinKeys |-> Load[k]]
    BY Zenon DEF Load
  <2>3. \A k \in PinKeys : capacitance[k] = Load[k]
    BY DEF PinKeys
  <2> QED  BY <2>1, <2>2, <2>3
<1> DEFINE k == <<p, m, e>>
<1>1. k \in PinKeys /\ k[1] = p /\ k[2] = m /\ k[3] = e
  BY DEF PinKeys
<1>2. pin_type[p] \in PinTypes
  BY CircuitAssumption
<1>3. CASE p \in Reached /\ ~ IsLoadPin(p)
  <2>1. PICK i \in 1 .. Len(order) : order[i] = p
    BY <1>3, ReachedInOrder DEF TypeOK
  <2>2. PICK c \in 1 .. 4 : EL_RF[c][1] = m /\ EL_RF[c][2] = e
    BY DEF EL_RF, Modes, Edges
  <2>3. Loaded(p, m, e)
    BY <1>3, <2>1, <2>2 DEF CapacitancesSettled
  <2>4. PICK s \in [0 .. Len(fanout[p]) -> Int] :
          Sums(s, p, m, e, Len(fanout[p])) /\ s[Len(fanout[p])] = capacitance[k]
    BY <2>3 DEF Loaded
  <2>5. ASSUME NEW h \in 1 .. Len(fanout[p])
        PROVE  s[h] = s[h - 1] + port_capacitance[To(fanout[p][h], m, e)]
    <3> DEFINE a == fanout[p][h]
    <3>1. a \in Arcs /\ from_pin[a] = p
      BY FanoutAssumption
    <3>2. IsLoadPin(to_pin[a]) /\ To(a, m, e) \in PinKeys
      BY <1>3, <3>1, CircuitAssumption DEF DriversDriveLoads, To, PinKeys
    <3>3. capacitance[To(a, m, e)] = port_capacitance[To(a, m, e)]
      BY <3>2 DEF PortsKeepLoads, To
    <3>4. s[h] = s[h - 1] + capacitance[To(a, m, e)]
      BY <2>4 DEF Sums
    <3> QED  BY <3>3, <3>4
  <2>6. SumOfSinks(k) = s[Len(fanout[p])]
    BY <2>4, <2>5, SumIs DEF Sums
  <2>7. Load[k] = SumOfSinks(k)
    BY <1>1, <1>2, <1>3 DEF Load, IsLoadPin, PinTypes
  <2> QED  BY <2>4, <2>6, <2>7
<1>4. CASE p \notin Reached \/ IsLoadPin(p)
  <2>1. capacitance[k] = port_capacitance[k]
    BY <1>1, <1>4 DEF PortsKeepLoads
  <2>2. Load[k] = port_capacitance[k]
    BY <1>1, <1>4 DEF Load, IsLoadPin
  <2> QED  BY <2>1, <2>2
<1> QED  BY <1>3, <1>4

\* A turn of the slew pass: the value it writes comes along its arc, from a
\* pin no later turn writes to.
LEMMA SlewTurnComes ==
  ASSUME TypeOK, PortsFromZero, SlewsCome, propagate_slew
  PROVE  PortsFromZero' /\ SlewsCome'
<1>0. AtArcs /\ UNCHANGED <<order, pos, capacitance>>
  BY DEF propagate_slew, NextArc
<1>1. PICK a \in Arcs, m \in Modes, f \in Edges, t \in Edges, p \in 1 .. Len(order) :
        /\ a = ThisArc /\ m = EL_FRF_TRF[combo][1]
        /\ f = EL_FRF_TRF[combo][2] /\ t = EL_FRF_TRF[combo][3]
        /\ p = pos /\ from_pin[a] = order[p] /\ a = fanout[order[p]][hop]
        /\ From(a, m, f) \in PinKeys /\ To(a, m, t) \in PinKeys
  BY <1>0, AtTurn
<1> DEFINE new == get_value(slew_lut[<<a, t>>], slew[From(a, m, f)], capacitance[To(a, m, t)])
           taken == /\ is_clock_edge_valid(a, f, t)
                    /\ slew[From(a, m, f)] # None
                    /\ slew_lut[<<a, t>>] # None
                    /\ Replaces(m, new, slew[To(a, m, t)])
<1>2. /\ taken => new \in Int
      /\ taken => slew' = [slew EXCEPT ![To(a, m, t)] = new]
      /\ ~ taken => slew' = slew
  BY <1>1, SlewTurn
<1>3. ASSUME NEW i \in 1 .. Len(order), i <= pos, NEW b \in Arcs, NEW n \in Modes, NEW g \in Edges,
             from_pin[b] = order[i]
      PROVE  slew'[From(b, n, g)] = slew[From(b, n, g)]
  <2>1. From(b, n, g) # To(a, m, t)
    BY <1>0, <1>1, <1>3, LeadsOn DEF From, To
  <2>2. From(b, n, g) \in PinKeys
    BY CircuitAssumption DEF From, PinKeys
  <2> QED  BY <1>2, <2>1, <2>2 DEF TypeOK
<1>4. slew'[From(a, m, f)] = slew[From(a, m, f)]
  BY <1>1, <1>3, OrderType DEF TypeOK
<1>5. ASSUME NEW k \in PinKeys, ~ (taken /\ k = To(a, m, t)) PROVE slew'[k] = slew[k]
  BY <1>1, <1>2, <1>5 DEF TypeOK
<1>6. taken => slew'[To(a, m, t)] = new
  BY <1>1, <1>2 DEF TypeOK
<1>7. PortsFromZero'
  <2> SUFFICES ASSUME NEW k \in PinKeys, IsPort(k[1])
               PROVE  slew'[k] # None /\ ~ Replaces(k[2], 0, slew'[k])
    BY DEF PortsFromZero
  <2>1. slew[k] # None /\ ~ Replaces(k[2], 0, slew[k]) /\ slew[k] \in OptInt /\ k[2] \in Modes
    BY DEF PortsFromZero, TypeOK, PinKeys
  <2>2. CASE taken /\ k = To(a, m, t)
    <3>1. Replaces(k[2], new, slew[k]) /\ new \in Int /\ slew'[k] = new
      BY <1>2, <1>6, <2>2 DEF To
    <3> HIDE DEF new, taken
    <3> QED  BY <2>1, <3>1, ReplacesMonotone, NoneAssumption
  <2>3. CASE ~ (taken /\ k = To(a, m, t))
    BY <1>5, <2>1, <2>3
  <2> QED  BY <2>2, <2>3
<1>8. SlewsCome'
  <2> SUFFICES ASSUME NEW k \in PinKeys, slew'[k] # None, ~ (IsPort(k[1]) /\ slew'[k] = 0)
               PROVE  \E i \in 1 .. Len(order), b \in Arcs, g \in Edges :
                        /\ i <= pos /\ from_pin[b] = order[i] /\ to_pin[b] = k[1]
                        /\ is_clock_edge_valid(b, g, k[3])
                        /\ slew'[From(b, k[2], g)] # None /\ slew_lut[<<b, k[3]>>] # None
                        /\ slew'[k] = get_value(slew_lut[<<b, k[3]>>], slew'[From(b, k[2], g)], capacitance[k])
    BY <1>0 DEF SlewsCome
  <2>1. CASE taken /\ k = To(a, m, t)
    <3>1. slew'[k] = get_value(slew_lut[<<a, k[3]>>], slew'[From(a, k[2], f)], capacitance[k])
      BY <1>4, <1>6, <2>1 DEF To
    <3>2. /\ p <= pos /\ from_pin[a] = order[p] /\ to_pin[a] = k[1]
          /\ is_clock_edge_valid(a, f, k[3])
          /\ slew'[From(a, k[2], f)] # None /\ slew_lut[<<a, k[3]>>] # None
      BY <1>1, <1>4, <2>1, OrderType DEF To, TypeOK
    <3> HIDE DEF taken, new
    <3> QED  BY <3>1, <3>2
  <2>2. CASE ~ (taken /\ k = To(a, m, t))
    <3>1. slew'[k] = slew[k] /\ k[2] \in Modes
      BY <1>5, <2>2 DEF PinKeys
    <3>2. PICK i \in 1 .. Len(order), b \in Arcs, g \in Edges :
            /\ i <= pos /\ from_pin[b] = order[i] /\ to_pin[b] = k[1]
            /\ is_clock_edge_valid(b, g, k[3])
            /\ slew[From(b, k[2], g)] # None /\ slew_lut[<<b, k[3]>>] # None
            /\ slew[k] = get_value(slew_lut[<<b, k[3]>>], slew[From(b, k[2], g)], capacitance[k])
      BY <3>1 DEF SlewsCome
    <3>3. slew'[From(b, k[2], g)] = slew[From(b, k[2], g)]
      BY <1>3, <3>1, <3>2
    <3> QED  BY <3>1, <3>2, <3>3
  <2> QED  BY <2>1, <2>2
<1> QED  BY <1>7, <1>8

\* Slews that are settled and come along the arcs are the worst ones.
LEMMA SlewsSolve ==
  ASSUME TypeOK, capacitance = Load, PortsFromZero, SlewsCome, SlewsSettled
  PROVE  slew = WorstSlew
<1>1. ASSUME NEW k \in PinKeys PROVE slew[k] = SlewOf(slew, k)
  <2> DEFINE Boundary == IF is_primary_input(k[1]) \/ is_primary_output(k[1]) THEN {0} ELSE {}
             Live == {x \in FanIn(k[1]) \X Edges :
                        /\ from_pin[x[1]] \in Reached
                        /\ is_clock_edge_valid(x[1], x[2], k[3])
                        /\ slew_lut[<<x[1], k[3]>>] # None
                        /\ slew[From(x[1], k[2], x[2])] # None}
             Value(x) == get_value(slew_lut[<<x[1], k[3]>>], slew[From(x[1], k[2], x[2])], Load[k])
             V == Boundary \cup {Value(x) : x \in Live}
  <2>1. SlewOf(slew, k) = Worst(k[2], V)
    BY DEF SlewOf
  <2>2. k[1] \in Pins /\ k[2] \in Modes /\ k[3] \in Edges /\ k = <<k[1], k[2], k[3]>>
    BY DEF PinKeys
  <2>3. ASSUME NEW x \in Live
        PROVE  Value(x) \in Int /\ slew[k] # None /\ ~ Replaces(k[2], Value(x), slew[k])
    <3>1. PICK a \in Arcs, f \in Edges :
            /\ x = <<a, f>> /\ to_pin[a] = k[1] /\ from_pin[a] \in Reached
            /\ is_clock_edge_valid(a, f, k[3]) /\ slew_lut[<<a, k[3]>>] # None
            /\ slew[From(a, k[2], f)] # None
      BY DEF FanIn
    <3>2. PICK i \in 1 .. Len(order) : order[i] = from_pin[a]
      BY <3>1, ReachedInOrder DEF TypeOK
    <3>3. SlewPropagated(a, k[2], f, k[3])
      BY <2>2, <3>2 DEF SlewsSettled
    <3>4. To(a, k[2], k[3]) = k /\ From(a, k[2], f) \in PinKeys
      BY <2>2, <3>1, CircuitAssumption DEF To, From, PinKeys
    <3>5. ~ Replaces(k[2], Value(x), slew[k])
      BY <3>1, <3>3, <3>4 DEF SlewPropagated
    <3>6. slew_lut[<<a, k[3]>>] \in Lut /\ slew[From(a, k[2], f)] \in Int /\ Load[k] \in Int
      BY <2>2, <3>1, <3>4, CircuitAssumption DEF TypeOK, OptInt
    <3>7. Value(x) \in Int
      BY <3>1, <3>6, get_value_Type
    <3> HIDE DEF Value
    <3> QED  BY <3>5, <3>7 DEF Replaces
  <2>4. ASSUME NEW v \in Boundary
        PROVE  v \in Int /\ slew[k] # None /\ ~ Replaces(k[2], v, slew[k])
    <3>1. v = 0 /\ IsPort(k[1])
      BY DEF IsPort
    <3> QED  BY <3>1 DEF PortsFromZero
  <2>5. ASSUME slew[k] # None PROVE slew[k] \in V
    <3>1. CASE IsPort(k[1]) /\ slew[k] = 0
      BY <3>1 DEF IsPort
    <3>2. CASE ~ (IsPort(k[1]) /\ slew[k] = 0)
      <4>1. PICK i \in 1 .. Len(order), a \in Arcs, f \in Edges :
              /\ i <= pos /\ from_pin[a] = order[i] /\ to_pin[a] = k[1]
              /\ is_clock_edge_valid(a, f, k[3])
              /\ slew[From(a, k[2], f)] # None /\ slew_lut[<<a, k[3]>>] # None
              /\ slew[k] = get_value(slew_lut[<<a, k[3]>>], slew[From(a, k[2], f)], capacitance[k])
        BY <2>5, <3>2 DEF SlewsCome
      <4>2. from_pin[a] \in Reached
        BY <4>1, ReachedInOrder DEF TypeOK
      <4>3. <<a, f>> \in Live /\ slew[k] = Value(<<a, f>>)
        BY <4>1, <4>2 DEF FanIn
      <4> HIDE DEF Live, Value
      <4> QED  BY <4>3
    <3> QED  BY <3>1, <3>2
  <2> HIDE DEF Boundary, Live, Value
  <2>6. CASE slew[k] = None
    <3>1. V = {}
      BY <2>3, <2>4, <2>6
    <3> QED  BY <2>1, <2>6, <3>1, WorstOfNone
  <2>7. CASE slew[k] # None
    <3>1. V \subseteq Int /\ slew[k] \in V /\ \A w \in V : ~ Replaces(k[2], w, slew[k])
      BY <2>3, <2>4, <2>5, <2>7
    <3> HIDE DEF V
    <3> QED  BY <2>1, <2>2, <3>1, WorstIs
  <2> QED  BY <2>6, <2>7
<1>2. slew = [k \in PinKeys |-> slew[k]]
  BY DEF TypeOK
<1>3. SolvesSlews(slew)
  BY <1>1, <1>2 DEF SolvesSlews
<1> QED  BY <1>3, SlewsAre DEF TypeOK

\* The steps within a pass of the first update, and into it.
LEMMA InPass ==
  ASSUME TypeOK, OnlyUpdates, Client = "shell", TablesWait, [Next]_vars,
         First', phase' \in {"slew", "delay", "arrival"}
  PROVE  /\ First
         /\ \/ /\ phase = phase'
               /\ \/ phase = "slew" /\ propagate_slew
                  \/ phase = "delay" /\ propagate_delay
                  \/ phase = "arrival" /\ propagate_arrival_time
                  \/ UNCHANGED <<order, values, arrivals>> /\ pos <= pos'
            \/ /\ \/ phase = "capacitance" /\ phase' = "slew"
                  \/ phase = "slew" /\ phase' = "delay"
                  \/ phase = "delay" /\ phase' = "arrival"
               /\ pos > Len(order) /\ UNCHANGED <<order, values, arrivals>>
<1>0. Client # "library" /\ pos \in Int /\ calls \in Nat
  BY DEF TypeOK
<1>1. First
  BY <1>0, PastSteps
<1>2. CASE Turn
  <2>1. phase' = phase
    BY <1>2, TurnStays
  <2>2. EndFanout => UNCHANGED <<order, values, arrivals>> /\ pos <= pos'
    BY <1>0 DEF EndFanout, NextCombo
  <2>3. \/ phase = "slew" /\ propagate_slew
        \/ phase = "delay" /\ propagate_delay
        \/ phase = "arrival" /\ propagate_arrival_time
        \/ EndFanout
    BY <1>2, <2>1
    DEF Turn, skip_load_pin, add_capacitance, set_capacitance, propagate_slew, propagate_delay,
        propagate_request_arrival_time, AtConstraint, propagate_arrival_time, skip_start_pin
  <2> QED  BY <1>1, <2>1, <2>2, <2>3
<1>3. CASE UNCHANGED vars
  BY <1>0, <1>1, <1>3 DEF vars, loop
<1>4. CASE ~ Turn /\ ~ UNCHANGED vars
  BY <1>0, <1>1, <1>4, OtherSteps DEF abort_no_constraint, AtConstraint
<1> QED  BY <1>2, <1>3, <1>4

\* The capacitance pass leaves the loads.
LEMMA LoadsRightNext ==
  ASSUME WiresAndCells, Client = "shell", IInv, IInv', SettledInv,
         PortsKeepLoads, TablesRight, [Next]_vars
  PROVE  Past({"capacitance"})' => capacitance' = Load
<1> SUFFICES ASSUME Past({"capacitance"})' PROVE capacitance' = Load
  OBVIOUS
<1>1. /\ TypeOK /\ OnlyUpdates /\ Client # "library" /\ DriversDriveLoads
      /\ CapacitanceInv
  BY DEF IInv, SettledInv, WiresAndCells
<1>2. CASE Past({"capacitance"})
  BY <1>2, TablesStay DEF TablesRight
<1>3. CASE First /\ phase = "capacitance" /\ pos > Len(order) /\ ~ Turn
  <2>1. capacitance' = capacitance
    BY <1>1, <1>3, ValueSteps DEF Turn
  <2>2. CapacitancesSettled
    BY <1>1, <1>3, CapacitancesComplete DEF CapacitanceInv
  <2> QED  BY <1>1, <2>1, <2>2, LoadsAre
<1> QED  BY <1>1, <1>2, <1>3, PastSteps

\* The slew pass leaves the worst slews.
LEMMA SlewsRightNext ==
  ASSUME WiresAndCells, Client = "shell", IInv, IInv', SettledInv,
         TablesWait, PortsKeepLoads, TablesRight, [Next]_vars
  PROVE  /\ phase' = "slew" /\ First' => PortsFromZero' /\ SlewsCome'
         /\ Past({"capacitance", "slew"})' => slew' = WorstSlew
<1>1. /\ TypeOK /\ OnlyUpdates /\ Client # "library" /\ DriversDriveLoads
      /\ CapacitanceInv /\ SlewInv
  BY DEF IInv, SettledInv, WiresAndCells
<1>2. ASSUME phase' = "slew", First'
      PROVE  PortsFromZero' /\ SlewsCome'
  <2>1. CASE phase = "slew" /\ propagate_slew
    BY <1>1, <1>2, <2>1, InPass, SlewTurnComes DEF TablesRight
  <2>2. CASE phase = "slew" /\ UNCHANGED <<order, values, arrivals>> /\ pos <= pos'
    <3>1. PortsFromZero /\ SlewsCome
      BY <1>1, <1>2, <2>2, InPass DEF TablesRight
    <3>2. UNCHANGED <<order, slew, capacitance>>
      BY <2>2 DEF values
    <3>3. \A i \in 1 .. Len(order) : i <= pos => i <= pos'
      <4>1. pos \in Int /\ pos' \in Int /\ \A i \in 1 .. Len(order) : i \in Int
        BY OrderType DEF IInv, TypeOK
      <4> QED  BY <2>2, <4>1
    <3> QED  BY <3>1, <3>2, <3>3 DEF PortsFromZero, SlewsCome
  <2>3. CASE phase = "capacitance" /\ UNCHANGED <<order, values, arrivals>>
    <3>1. slew' = [k \in PinKeys |-> IF IsPort(k[1]) THEN 0 ELSE None]
      BY <1>1, <1>2, <2>3, InPass DEF TablesWait, Before, values, IsPort
    <3>2. \A m \in Modes : ~ Replaces(m, 0, 0)
      BY ReplacesIrreflexive
    <3> QED  BY <3>1, <3>2, NoneAssumption DEF PortsFromZero, SlewsCome, PinKeys
  <2> QED  BY <1>1, <1>2, <2>1, <2>2, <2>3, InPass
<1>3. ASSUME Past({"capacitance", "slew"})' PROVE slew' = WorstSlew
  <2>1. CASE Past({"capacitance", "slew"})
    BY <2>1, TablesStay DEF TablesRight
  <2>2. CASE First /\ phase = "slew" /\ pos > Len(order) /\ ~ Turn
    <3>1. slew' = slew
      BY <1>1, <2>2, ValueSteps DEF Turn
    <3>2. SlewsSettled
      BY <1>1, <2>2, SlewsComplete DEF SlewInv
    <3>3. Past({"capacitance"})
      BY <2>2 DEF Past
    <3> QED  BY <1>1, <2>2, <3>1, <3>2, <3>3, SlewsSolve DEF TablesRight
  <2> QED  BY <1>1, <1>3, <2>1, <2>2, PastSteps
<1> QED  BY <1>2, <1>3

\* A turn of the delay pass: the value it writes is that of the arc's table.
LEMMA DelayTurnComes ==
  ASSUME TypeOK, DelaysCome, propagate_delay
  PROVE  DelaysCome'
<1>0. AtArcs /\ UNCHANGED <<order, slew, capacitance>>
  BY DEF propagate_delay
<1>1. PICK a \in Arcs, m \in Modes, f \in Edges, t \in Edges, p \in 1 .. Len(order) :
        /\ a = ThisArc /\ m = EL_FRF_TRF[combo][1]
        /\ f = EL_FRF_TRF[combo][2] /\ t = EL_FRF_TRF[combo][3]
        /\ p = pos /\ from_pin[a] = order[p] /\ a = fanout[order[p]][hop]
        /\ From(a, m, f) \in PinKeys /\ To(a, m, t) \in PinKeys /\ <<a, m, f, t>> \in ArcKeys
  BY <1>0, AtTurn
<1> DEFINE new == get_value(delay_lut[<<a, t>>], slew[From(a, m, f)], capacitance[To(a, m, t)])
           taken == /\ is_clock_edge_valid(a, f, t)
                    /\ slew[From(a, m, f)] # None
                    /\ delay_lut[<<a, t>>] # None
                    /\ Replaces(m, new, delay[<<a, m, f, t>>])
<1>2. /\ taken => new \in Int
      /\ taken => delay' = [delay EXCEPT ![<<a, m, f, t>>] = new]
      /\ ~ taken => delay' = delay
  BY <1>1, DelayTurn
<1> SUFFICES ASSUME NEW b \in Arcs, NEW n \in Modes, NEW g \in Edges, NEW u \in Edges,
                    delay'[<<b, n, g, u>>] # None
             PROVE  /\ \E i \in 1 .. Len(order) : from_pin[b] = order[i]
                    /\ is_clock_edge_valid(b, g, u)
                    /\ slew[From(b, n, g)] # None /\ delay_lut[<<b, u>>] # None
                    /\ delay'[<<b, n, g, u>>] =
                         get_value(delay_lut[<<b, u>>], slew[From(b, n, g)], capacitance[To(b, n, u)])
  BY <1>0 DEF DelaysCome
<1>3. <<b, n, g, u>> \in ArcKeys
  BY DEF ArcKeys
<1>4. CASE taken /\ <<b, n, g, u>> = <<a, m, f, t>>
  <2>1. b = a /\ n = m /\ g = f /\ u = t
    BY <1>4
  <2>2. delay'[<<b, n, g, u>>] = new
    BY <1>2, <1>3, <1>4 DEF TypeOK
  <2> QED  BY <1>1, <1>4, <2>1, <2>2
<1>5. CASE ~ (taken /\ <<b, n, g, u>> = <<a, m, f, t>>)
  <2>1. delay'[<<b, n, g, u>>] = delay[<<b, n, g, u>>]
    BY <1>2, <1>3, <1>5 DEF TypeOK
  <2> QED  BY <2>1 DEF DelaysCome
<1> QED  BY <1>4, <1>5

\* Delays that are settled and come from the tables are those of the arcs.
LEMMA DelaysSolve ==
  ASSUME TypeOK, capacitance = Load, slew = WorstSlew, DelaysCome, DelaysSettled
  PROVE  delay = ArcDelay
<1>1. ASSUME NEW a \in Arcs, NEW m \in Modes, NEW f \in Edges, NEW t \in Edges
      PROVE  delay[<<a, m, f, t>>] = ArcDelay[<<a, m, f, t>>]
  <2> DEFINE v == get_value(delay_lut[<<a, t>>], slew[From(a, m, f)], capacitance[To(a, m, t)])
             live == /\ from_pin[a] \in Reached /\ is_clock_edge_valid(a, f, t)
                     /\ delay_lut[<<a, t>>] # None /\ slew[From(a, m, f)] # None
  <2>1. <<a, m, f, t>> \in ArcKeys
    BY DEF ArcKeys
  <2>2. ArcDelay[<<a, m, f, t>>] = IF live THEN v ELSE None
    BY <2>1 DEF ArcDelay
  <2>3. CASE live
    <3>1. PICK i \in 1 .. Len(order) : order[i] = from_pin[a]
      BY <2>3, ReachedInOrder DEF TypeOK
    <3>2. ~ Replaces(m, v, delay[<<a, m, f, t>>])
      BY <2>3, <3>1 DEF DelaysSettled, DelayPropagated
    <3>3. delay[<<a, m, f, t>>] # None
      BY <3>2 DEF Replaces
    <3> QED  BY <2>2, <2>3, <3>3 DEF DelaysCome
  <2>4. CASE ~ live
    <3>1. delay[<<a, m, f, t>>] # None => live
      BY ReachedInOrder DEF DelaysCome, TypeOK
    <3> QED  BY <2>2, <2>4, <3>1
  <2> QED  BY <2>3, <2>4
<1>2. \A x \in ArcKeys : delay[x] = ArcDelay[x]
  BY <1>1 DEF ArcKeys
<1>3. delay = [x \in ArcKeys |-> delay[x]]
  BY DEF TypeOK
<1>4. ArcDelay = [x \in ArcKeys |-> ArcDelay[x]]
  BY Zenon DEF ArcDelay
<1> QED  BY <1>2, <1>3, <1>4

\* The delay pass leaves the delays of the arcs.
LEMMA DelaysRightNext ==
  ASSUME WiresAndCells, Client = "shell", IInv, IInv', SettledInv,
         TablesWait, TablesRight, [Next]_vars
  PROVE  /\ phase' = "delay" /\ First' => DelaysCome'
         /\ Past({"capacitance", "slew", "delay"})' => delay' = ArcDelay
<1>1. /\ TypeOK /\ OnlyUpdates /\ Client # "library" /\ DelayInv
  BY DEF IInv, SettledInv
<1>2. ASSUME phase' = "delay", First'
      PROVE  DelaysCome'
  <2>1. CASE phase = "delay" /\ propagate_delay
    BY <1>1, <1>2, <2>1, InPass, DelayTurnComes DEF TablesRight
  <2>2. CASE phase = "delay" /\ UNCHANGED <<order, values, arrivals>>
    <3>1. DelaysCome
      BY <1>1, <1>2, <2>2, InPass DEF TablesRight
    <3>2. UNCHANGED <<order, slew, capacitance, delay>>
      BY <2>2 DEF values
    <3> QED  BY <3>1, <3>2 DEF DelaysCome
  <2>3. CASE phase = "slew" /\ UNCHANGED <<order, values, arrivals>>
    <3>1. delay' = [k \in ArcKeys |-> None]
      BY <1>1, <1>2, <2>3, InPass DEF TablesWait, Before, values
    <3> QED  BY <3>1 DEF DelaysCome, ArcKeys
  <2> QED  BY <1>1, <1>2, <2>1, <2>2, <2>3, InPass
<1>3. ASSUME Past({"capacitance", "slew", "delay"})' PROVE delay' = ArcDelay
  <2>1. CASE Past({"capacitance", "slew", "delay"})
    BY <2>1, TablesStay DEF TablesRight
  <2>2. CASE First /\ phase = "delay" /\ pos > Len(order) /\ ~ Turn
    <3>1. delay' = delay
      BY <1>1, <2>2, ValueSteps DEF Turn
    <3>2. DelaysSettled
      BY <1>1, <2>2, DelaysComplete DEF DelayInv
    <3>3. Past({"capacitance"}) /\ Past({"capacitance", "slew"})
      BY <2>2 DEF Past
    <3> QED  BY <1>1, <2>2, <3>1, <3>2, <3>3, DelaysSolve DEF TablesRight
  <2> QED  BY <1>1, <1>3, <2>1, <2>2, PastSteps
<1> QED  BY <1>2, <1>3

\* A turn of the arrival pass: the time it writes comes along its arc.
LEMMA ArrivalTurnComes ==
  ASSUME TypeOK, ArrivalsCome, propagate_arrival_time
  PROVE  ArrivalsCome'
<1>0. AtArcs /\ UNCHANGED <<order, pos, delay>>
  BY DEF propagate_arrival_time, NextArc, values
<1>1. PICK a \in Arcs, m \in Modes, f \in Edges, t \in Edges, p \in 1 .. Len(order) :
        /\ a = ThisArc /\ m = EL_FRF_TRF[combo][1]
        /\ f = EL_FRF_TRF[combo][2] /\ t = EL_FRF_TRF[combo][3]
        /\ p = pos /\ from_pin[a] = order[p] /\ a = fanout[order[p]][hop]
        /\ From(a, m, f) \in PinKeys /\ To(a, m, t) \in PinKeys /\ <<a, m, f, t>> \in ArcKeys
  BY <1>0, AtTurn
<1> DEFINE new == arrival_time[From(a, m, f)] + delay[<<a, m, f, t>>]
           taken == /\ is_clock_edge_valid(a, f, t)
                    /\ arrival_time[From(a, m, f)] # None
                    /\ delay[<<a, m, f, t>>] # None
                    /\ Replaces(m, new, arrival_time[To(a, m, t)])
<1>2. /\ taken => new \in Int
      /\ taken => arrival_time' = [arrival_time EXCEPT ![To(a, m, t)] = new]
      /\ ~ taken => arrival_time' = arrival_time
  BY <1>1, ArrivalStep DEF Taken, NewArrival, ThisFrom, ThisTo, ThisDelay, El, Frf, Trf, arrivals
<1>3. ASSUME NEW i \in 1 .. Len(order), i <= pos, NEW b \in Arcs, NEW n \in Modes, NEW g \in Edges,
             from_pin[b] = order[i]
      PROVE  arrival_time'[From(b, n, g)] = arrival_time[From(b, n, g)]
  <2>1. From(b, n, g) # To(a, m, t)
    BY <1>0, <1>1, <1>3, LeadsOn DEF From, To
  <2>2. From(b, n, g) \in PinKeys
    BY CircuitAssumption DEF From, PinKeys
  <2> QED  BY <1>2, <2>1, <2>2 DEF TypeOK
<1>4. arrival_time'[From(a, m, f)] = arrival_time[From(a, m, f)] /\ p <= pos
  BY <1>1, <1>3, OrderType DEF TypeOK
<1> SUFFICES ASSUME NEW k \in PinKeys, arrival_time'[k] # None, ~ is_primary_input(k[1])
             PROVE  \E i \in 1 .. Len(order), b \in Arcs, g \in Edges :
                      /\ i <= pos /\ from_pin[b] = order[i] /\ to_pin[b] = k[1]
                      /\ arrival_time'[From(b, k[2], g)] # None /\ delay[<<b, k[2], g, k[3]>>] # None
                      /\ arrival_time'[k] = arrival_time'[From(b, k[2], g)] + delay[<<b, k[2], g, k[3]>>]
  BY <1>0 DEF ArrivalsCome
<1>5. CASE taken /\ k = To(a, m, t)
  <2>1. arrival_time'[k] = new
    BY <1>1, <1>2, <1>5 DEF TypeOK
  <2>2. arrival_time'[k] = arrival_time'[From(a, k[2], f)] + delay[<<a, k[2], f, k[3]>>]
    BY <1>4, <1>5, <2>1 DEF To
  <2>3. /\ from_pin[a] = order[p] /\ to_pin[a] = k[1]
        /\ arrival_time'[From(a, k[2], f)] # None /\ delay[<<a, k[2], f, k[3]>>] # None
    BY <1>1, <1>4, <1>5 DEF To
  <2> HIDE DEF taken, new
  <2> QED  BY <1>4, <2>2, <2>3
<1>6. CASE ~ (taken /\ k = To(a, m, t))
  <2>1. arrival_time'[k] = arrival_time[k] /\ k[2] \in Modes
    BY <1>2, <1>6 DEF TypeOK, PinKeys
  <2>2. PICK i \in 1 .. Len(order), b \in Arcs, g \in Edges :
          /\ i <= pos /\ from_pin[b] = order[i] /\ to_pin[b] = k[1]
          /\ arrival_time[From(b, k[2], g)] # None /\ delay[<<b, k[2], g, k[3]>>] # None
          /\ arrival_time[k] = arrival_time[From(b, k[2], g)] + delay[<<b, k[2], g, k[3]>>]
    BY <2>1 DEF ArrivalsCome
  <2>3. arrival_time'[From(b, k[2], g)] = arrival_time[From(b, k[2], g)]
    BY <1>3, <2>1, <2>2
  <2> QED  BY <2>1, <2>2, <2>3
<1> QED  BY <1>5, <1>6

\* Arrival times that are settled and come along the arcs are those of all
\* paths.
LEMMA ArrivalsSolve ==
  ASSUME TypeOK, InputsStartPaths, capacitance = Load, slew = WorstSlew, delay = ArcDelay,
         ArrivalsCome, ArrivalsSettled(arrival_time)
  PROVE  arrival_time = Arrival["ALL"]
<1>1. \A k \in PinKeys : is_primary_input(k[1]) => arrival_time[k] = 0
  BY DEF InputsStartPaths
<1>2. \A a \in Arcs : Leaves(from_pin[a], "ALL")
  BY CircuitAssumption DEF Leaves, Starts, PrimaryInputs
<1>3. ASSUME NEW a \in Arcs, NEW m \in Modes, NEW f \in Edges, NEW t \in Edges,
             arrival_time[From(a, m, f)] # None, ArcDelay[<<a, m, f, t>>] # None
      PROVE  ~ Replaces(m, arrival_time[From(a, m, f)] + ArcDelay[<<a, m, f, t>>],
                        arrival_time[To(a, m, t)])
  <2>1. from_pin[a] \in Reached /\ is_clock_edge_valid(a, f, t)
    BY <1>3, DelayFacts
  <2>2. PICK i \in 1 .. Len(order) : order[i] = from_pin[a]
    BY <2>1, ReachedInOrder DEF TypeOK
  <2> QED  BY <1>3, <2>1, <2>2 DEF ArrivalsSettled, ArrivalPropagated
<1>4. ASSUME NEW k \in PinKeys, arrival_time[k] # None, ~ is_primary_input(k[1])
      PROVE  \E a \in Arcs, f \in Edges :
               /\ to_pin[a] = k[1] /\ Leaves(from_pin[a], "ALL")
               /\ arrival_time[From(a, k[2], f)] # None /\ ArcDelay[<<a, k[2], f, k[3]>>] # None
               /\ arrival_time[k] = arrival_time[From(a, k[2], f)] + ArcDelay[<<a, k[2], f, k[3]>>]
  <2>1. PICK i \in 1 .. Len(order), a \in Arcs, f \in Edges :
          /\ i <= pos /\ from_pin[a] = order[i] /\ to_pin[a] = k[1]
          /\ arrival_time[From(a, k[2], f)] # None /\ delay[<<a, k[2], f, k[3]>>] # None
          /\ arrival_time[k] = arrival_time[From(a, k[2], f)] + delay[<<a, k[2], f, k[3]>>]
    BY <1>4 DEF ArrivalsCome
  <2> QED  BY <1>2, <2>1
<1>5. order \in Toposorts /\ arrival_time \in [PinKeys -> OptInt]
  BY DEF TypeOK
<1>6. "ALL" \in {"IN", "REG", "ALL"}
  OBVIOUS
<1> QED  BY <1>1, <1>3, <1>4, <1>5, <1>6, ArrivalIs

\* The arrival pass leaves the worst arrival times of all paths.
LEMMA ArrivalsRightNext ==
  ASSUME WiresAndCells, Client = "shell", IInv, IInv', SettledInv,
         TablesWait, TablesRight, [Next]_vars
  PROVE  /\ phase' = "arrival" /\ First' => ArrivalsCome'
         /\ phase' \in {"outputs", "request"} /\ First' => arrival_time' = Arrival["ALL"]
<1>1. /\ TypeOK /\ OnlyUpdates /\ Client # "library" /\ RequestInv /\ InputsStartPaths
  BY DEF IInv, SettledInv
<1>2. ASSUME phase' = "arrival", First'
      PROVE  ArrivalsCome'
  <2>1. CASE phase = "arrival" /\ propagate_arrival_time
    BY <1>1, <1>2, <2>1, InPass, ArrivalTurnComes DEF TablesRight
  <2>2. CASE phase = "arrival" /\ UNCHANGED <<order, values, arrivals>> /\ pos <= pos'
    <3>1. ArrivalsCome
      BY <1>1, <1>2, <2>2, InPass DEF TablesRight
    <3>2. UNCHANGED <<order, delay, arrival_time>>
      BY <2>2 DEF values, arrivals
    <3>3. \A i \in 1 .. Len(order) : i <= pos => i <= pos'
      <4>1. pos \in Int /\ pos' \in Int /\ \A i \in 1 .. Len(order) : i \in Int
        BY OrderType DEF IInv, TypeOK
      <4> QED  BY <2>2, <4>1
    <3> QED  BY <3>1, <3>2, <3>3 DEF ArrivalsCome
  <2>3. CASE phase = "delay" /\ UNCHANGED <<order, values, arrivals>>
    <3>1. arrival_time' = [k \in PinKeys |-> IF is_primary_input(k[1]) THEN 0 ELSE None]
      BY <1>1, <1>2, <2>3, InPass DEF TablesWait, Before, arrivals
    <3> QED  BY <3>1 DEF ArrivalsCome
  <2> QED  BY <1>1, <1>2, <2>1, <2>2, <2>3, InPass
<1>3. ASSUME phase' \in {"outputs", "request"}, First'
      PROVE  arrival_time' = Arrival["ALL"]
  <2>1. First
    BY <1>1, <1>3, PastSteps
  <2>2. /\ arrival_time' = arrival_time
        /\ phase \in {"outputs", "request"} \/ (phase = "arrival" /\ pos > Len(order))
    <3>1. CASE Turn
      <4>1. phase \in {"outputs", "request"}
        BY <1>3, <3>1, TurnStays
      <4>2. ~ propagate_arrival_time
        BY <4>1 DEF propagate_arrival_time
      <4> QED  BY <4>1, <4>2, ArrivalTimeSteps
    <3>2. CASE ~ Turn
      BY <1>1, <1>3, <3>2, OtherSteps DEF abort_no_constraint, arrivals, vars
    <3> QED  BY <3>1, <3>2
  <2>3. CASE phase \in {"outputs", "request"}
    BY <2>1, <2>2, <2>3 DEF TablesRight
  <2>4. CASE phase = "arrival" /\ pos > Len(order)
    <3>1. ArrivalsSettled(arrival_time)
      BY <1>1, <2>1, <2>4, ArrivalsComplete DEF RequestInv
    <3>2. /\ Past({"capacitance"}) /\ Past({"capacitance", "slew"})
          /\ Past({"capacitance", "slew", "delay"})
      BY <2>1, <2>4 DEF Past
    <3> QED  BY <1>1, <2>1, <2>2, <2>4, <3>1, <3>2, ArrivalsSolve DEF TablesRight
  <2> QED  BY <2>2, <2>3, <2>4
<1> QED  BY <1>2, <1>3

\* What a constraint arc adds, told from the worst slews.
LEMMA CheckTimeIs ==
  ASSUME TypeOK, slew = WorstSlew, NEW a \in Arcs, NEW f \in Edges, NEW t \in Edges,
         constraint_lut[<<a, t>>] # None
  PROVE  CheckTime(a, f, t) = Constraint(a, f, t) /\ Constraint(a, f, t) \in Int
<1> DEFINE v(mode) == get_value(constraint_lut[<<a, t>>], SlewOr0(To(a, mode, t)), SlewOr0(From(a, mode, f)))
           V == {v(mode) : mode \in Modes}
<1>1. CheckTime(a, f, t) = Worst("MAX", V)
  BY DEF CheckTime
<1>2. ASSUME NEW mode \in Modes PROVE v(mode) = ConstraintValue(a, mode, f, t) /\ v(mode) \in Int
  <2>1. constraint_lut[<<a, t>>] \in Lut
    BY CircuitAssumption
  <2>2. WorstSlew[To(a, mode, t)] \in OptInt /\ WorstSlew[From(a, mode, f)] \in OptInt
    BY CircuitAssumption DEF TypeOK, PinKeys, From, To
  <2>3. SlewOr0(To(a, mode, t)) \in Int /\ SlewOr0(From(a, mode, f)) \in Int
    BY <2>2 DEF SlewOr0, OptInt
  <2>4. v(mode) \in Int
    BY <2>1, <2>3, get_value_Type
  <2>5. v(mode) = ConstraintValue(a, mode, f, t)
    BY DEF ConstraintValue, SlewOr0, value_or_0
  <2> QED  BY <2>4, <2>5
<1>3. /\ Constraint(a, f, t) = IF v("MAX") < v("MIN") THEN v("MIN") ELSE v("MAX")
      /\ v("MAX") \in Int /\ v("MIN") \in Int
  BY <1>2 DEF Constraint, Modes
<1>4. V = {v("MAX"), v("MIN")}
  BY DEF Modes
<1> HIDE DEF v, V
<1>5. /\ Constraint(a, f, t) \in V /\ Constraint(a, f, t) \in Int /\ V \subseteq Int
      /\ \A w \in V : w <= Constraint(a, f, t)
  BY <1>3, <1>4
<1>6. \A w \in V : ~ Replaces("MAX", w, Constraint(a, f, t))
  BY <1>5, NoneAssumption DEF Replaces
<1>7. "MAX" \in Modes
  BY DEF Modes
<1> DEFINE c == Constraint(a, f, t)
<1> HIDE DEF c
<1>8. Worst("MAX", V) = c
  BY <1>5, <1>6, <1>7, WorstIs DEF c
<1> QED  BY <1>1, <1>5, <1>8 DEF c

\* A turn of the request pass: the time it writes comes along its constraint
\* arc.
LEMMA RequestTurnComes ==
  ASSUME TypeOK, RequestsCome, propagate_request_arrival_time
  PROVE  RequestsCome'
<1>0. UNCHANGED <<slew, arrival_time>>
  BY DEF propagate_request_arrival_time, arrivals
<1>1. PICK a \in Arcs, m \in Modes, f \in Edges, t \in Edges, p \in 1 .. Len(constraint_arcs) :
        /\ a = constraint_arcs[pos] /\ m = EL_FRF_TRF[combo][1]
        /\ f = EL_FRF_TRF[combo][2] /\ t = EL_FRF_TRF[combo][3] /\ p = pos
        /\ From(a, m, f) \in PinKeys /\ To(a, m, t) \in PinKeys
  BY AtRequestTurn
<1> DEFINE new == arrival_time[From(a, m, f)] + Constraint(a, f, t)
           taken == Constrains(a, m, f, t) /\ Replaces(m, new, request_arrival_time[To(a, m, t)])
<1>2. /\ Constrains(a, m, f, t) => /\ constraint_lut[<<a, t>>] # None
                                   /\ Constraint(a, f, t) \in Int
                                   /\ arrival_time[From(a, m, f)] \in Int
      /\ taken => request_arrival_time' = [request_arrival_time EXCEPT ![To(a, m, t)] = new]
      /\ ~ taken => request_arrival_time' = request_arrival_time
  BY <1>1, RequestTurn
<1>3. \A b, n, g, u : /\ Constrains(b, n, g, u)' <=> Constrains(b, n, g, u)
                      /\ Constraint(b, g, u)' = Constraint(b, g, u)
  BY <1>0 DEF Constrains, Constraint, ConstraintValue
<1> SUFFICES ASSUME NEW k \in PinKeys, request_arrival_time'[k] # None,
                    ~ (is_primary_output(k[1]) /\ request_arrival_time'[k] = ClockCycle + ClockRiseAt)
             PROVE  \E i \in 1 .. Len(constraint_arcs), g \in Edges :
                      LET b == constraint_arcs[i] IN
                      /\ to_pin[b] = k[1] /\ Constrains(b, k[2], g, k[3])
                      /\ request_arrival_time'[k] = arrival_time[From(b, k[2], g)] + Constraint(b, g, k[3])
  BY <1>0, <1>3 DEF RequestsCome
<1>4. CASE taken /\ k = To(a, m, t)
  <2>1. request_arrival_time'[k] = new
    BY <1>1, <1>2, <1>4 DEF TypeOK
  <2>2. request_arrival_time'[k] = arrival_time[From(a, k[2], f)] + Constraint(a, f, k[3])
    BY <1>4, <2>1 DEF To
  <2>3. a = constraint_arcs[p] /\ to_pin[a] = k[1] /\ Constrains(a, k[2], f, k[3])
    BY <1>1, <1>4 DEF To
  <2> HIDE DEF taken, new
  <2> QED  BY <2>2, <2>3
<1>5. CASE ~ (taken /\ k = To(a, m, t))
  <2>1. request_arrival_time'[k] = request_arrival_time[k]
    BY <1>2, <1>5 DEF TypeOK
  <2> QED  BY <2>1 DEF RequestsCome
<1> QED  BY <1>4, <1>5

\* Requests that are settled and come along the constraint arcs are the
\* required times.
LEMMA RequestsSolve ==
  ASSUME TypeOK, ConstraintsAtCells, slew = WorstSlew, arrival_time = Arrival["ALL"],
         RequestsCome, OutputsRequested, RequestsSettled(arrival_time)
  PROVE  request_arrival_time = Required
<1> DEFINE Asking(k) ==
             {x \in FanIn(k[1]) \X Edges :
                /\ \E i \in 1 .. Len(constraint_arcs) : constraint_arcs[i] = x[1]
                /\ is_clock_edge_valid(x[1], x[2], k[3])
                /\ timing_type[x[1]] \in {"SETUP_RISING", "SETUP_FALLING"} => k[2] = "MAX"
                /\ timing_type[x[1]] \in {"HOLD_RISING", "HOLD_FALLING"} => k[2] = "MIN"
                /\ arrival_time[From(x[1], k[2], x[2])] # None}
           Time(k, x) == arrival_time[From(x[1], k[2], x[2])] + CheckTime(x[1], x[2], k[3])
           Bound(k) == IF is_primary_output(k[1]) THEN {ClockCycle + ClockRiseAt} ELSE {}
           V(k) == Bound(k) \cup {Time(k, x) : x \in Asking(k)}
<1>1. Required = [k \in PinKeys |-> Worst(k[2], V(k))]
  BY DEF Required
<1>2. ASSUME NEW k \in PinKeys PROVE request_arrival_time[k] = Worst(k[2], V(k))
  <2> DEFINE r == request_arrival_time[k]
  <2>1. k[1] \in Pins /\ k[2] \in Modes /\ k[3] \in Edges /\ k = <<k[1], k[2], k[3]>>
    BY DEF PinKeys
  <2>2. ASSUME NEW x \in Asking(k)
        PROVE  Time(k, x) \in Int /\ ~ Replaces(k[2], Time(k, x), r) /\ ~ is_primary_output(k[1])
    <3>1. PICK i \in 1 .. Len(constraint_arcs), f \in Edges :
            LET a == constraint_arcs[i] IN
            /\ x = <<a, f>> /\ to_pin[a] = k[1] /\ is_clock_edge_valid(a, f, k[3])
            /\ IsSetup(a) => k[2] = "MAX"
            /\ IsHold(a) => k[2] = "MIN"
            /\ arrival_time[From(a, k[2], f)] # None
      BY DEF FanIn, IsSetup, IsHold
    <3> DEFINE a == constraint_arcs[i]
    <3>2. a \in Arcs
      BY CircuitAssumption
    <3>3. Requested(arrival_time, a, k[2], f, k[3])
      BY <2>1 DEF RequestsSettled
    <3>4. /\ constraint_lut[<<a, k[3]>>] # None
          /\ ~ Replaces(k[2], arrival_time[From(a, k[2], f)] + Constraint(a, f, k[3]),
                        request_arrival_time[To(a, k[2], k[3])])
      BY <3>1, <3>3 DEF Requested
    <3>5. CheckTime(a, f, k[3]) = Constraint(a, f, k[3]) /\ Constraint(a, f, k[3]) \in Int
      BY <2>1, <3>2, <3>4, CheckTimeIs
    <3>6. To(a, k[2], k[3]) = k
      BY <2>1, <3>1 DEF To
    <3>7. arrival_time[From(a, k[2], f)] \in Int
      BY <2>1, <3>1, <3>2, CircuitAssumption DEF TypeOK, OptInt, From, PinKeys
    <3>8. Time(k, x) = arrival_time[From(a, k[2], f)] + Constraint(a, f, k[3])
      BY <3>1, <3>5
    <3>9. ~ is_primary_output(k[1])
      BY <3>1 DEF ConstraintsAtCells
    <3> HIDE DEF Time, a
    <3> QED  BY <3>4, <3>5, <3>6, <3>7, <3>8, <3>9
  <2>3. ASSUME r # None, ~ is_primary_output(k[1])
        PROVE  \E x \in Asking(k) : r = Time(k, x)
    <3>1. PICK i \in 1 .. Len(constraint_arcs), f \in Edges :
            LET a == constraint_arcs[i] IN
            /\ to_pin[a] = k[1] /\ Constrains(a, k[2], f, k[3])
            /\ r = arrival_time[From(a, k[2], f)] + Constraint(a, f, k[3])
      BY <2>3 DEF RequestsCome
    <3> DEFINE a == constraint_arcs[i]
    <3>2. a \in Arcs
      BY CircuitAssumption
    <3>3. /\ is_clock_edge_valid(a, f, k[3]) /\ IsSetup(a) => k[2] = "MAX"
          /\ IsHold(a) => k[2] = "MIN"
          /\ arrival_time[From(a, k[2], f)] # None
      BY <3>1 DEF Constrains
    <3>4. Requested(arrival_time, a, k[2], f, k[3])
      BY <2>1 DEF RequestsSettled
    <3>5. constraint_lut[<<a, k[3]>>] # None
      BY <3>1, <3>4 DEF Requested, Constrains
    <3>6. CheckTime(a, f, k[3]) = Constraint(a, f, k[3])
      BY <2>1, <3>2, <3>5, CheckTimeIs
    <3>7. <<a, f>> \in Asking(k)
      BY <3>1, <3>2 DEF FanIn, Constrains, IsSetup, IsHold
    <3>8. r = Time(k, <<a, f>>)
      BY <3>1, <3>6
    <3> HIDE DEF Time, Asking, r, a
    <3> QED  BY <3>7, <3>8
  <2>4. CASE is_primary_output(k[1])
    <3>1. Asking(k) = {}
      BY <2>2, <2>4
    <3>2. V(k) = {ClockCycle + ClockRiseAt} /\ r = ClockCycle + ClockRiseAt
      <4> HIDE DEF Asking, Time
      <4> QED  BY <2>4, <3>1 DEF OutputsRequested
    <3>3. V(k) \subseteq Int /\ r \in V(k) /\ \A w \in V(k) : w = r
      <4> HIDE DEF V, r
      <4> QED  BY <3>2, ClockAssumption
    <3>4. \A w \in V(k) : ~ Replaces(k[2], w, r)
      <4> HIDE DEF V, r
      <4> QED  BY <2>1, <3>3, ReplacesIrreflexive
    <3> HIDE DEF V, r
    <3>5. Worst(k[2], V(k)) = r
      BY <2>1, <3>3, <3>4, WorstIs
    <3> QED  BY <3>5 DEF r
  <2>5. CASE ~ is_primary_output(k[1])
    <3>1. V(k) = {Time(k, x) : x \in Asking(k)}
      BY <2>5
    <3>2. CASE r = None
      <4>1. Asking(k) = {}
        BY <2>2, <3>2 DEF Replaces
      <4>2. V(k) = {}
        <5> HIDE DEF Asking, Time, V
        <5> QED  BY <3>1, <4>1
      <4> QED  BY <3>2, <4>2, WorstOfNone
    <3>3. CASE r # None
      <4>1. r \in V(k) /\ V(k) \subseteq Int /\ \A w \in V(k) : ~ Replaces(k[2], w, r)
        <5> HIDE DEF Asking, Time, V, r
        <5> QED  BY <2>2, <2>3, <2>5, <3>1, <3>3
      <4> HIDE DEF V, r
      <4>2. Worst(k[2], V(k)) = r
        BY <2>1, <4>1, WorstIs
      <4> QED  BY <4>2 DEF r
    <3> QED  BY <3>2, <3>3
  <2> QED  BY <2>4, <2>5
<1>3. request_arrival_time = [k \in PinKeys |-> request_arrival_time[k]]
  BY DEF TypeOK
<1> HIDE DEF V
<1> QED  BY <1>1, <1>2, <1>3

\* The request pass leaves the required times.
LEMMA RequestsRightNext ==
  ASSUME WiresAndCells, Client = "shell", IInv, IInv', SettledInv,
         TablesWait, TablesRight, [Next]_vars
  PROVE  /\ phase' = "request" /\ First' => RequestsCome'
         /\ Updated' => request_arrival_time' = Required
<1>1. /\ TypeOK /\ OnlyUpdates /\ Client # "library" /\ RequestInv /\ ConstraintsAtCells
  BY DEF IInv, SettledInv, WiresAndCells
<1>2. ASSUME phase' = "request", First'
      PROVE  RequestsCome'
  <2>1. First
    BY <1>1, <1>2, PastSteps
  <2>2. CASE propagate_request_arrival_time
    <3>1. RequestsCome
      BY <1>2, <2>1, <2>2 DEF TablesRight, propagate_request_arrival_time
    <3> QED  BY <1>1, <2>2, <3>1, RequestTurnComes
  <2>3. CASE set_output_requests
    <3>1. phase = "outputs"
      BY <2>3 DEF set_output_requests, EndPass
    <3>2. request_arrival_time = [k \in PinKeys |-> None]
      BY <2>1, <3>1 DEF TablesWait, Before
    <3>3. request_arrival_time' =
            [k \in PinKeys |-> IF is_primary_output(k[1]) THEN ClockCycle + ClockRiseAt ELSE None]
      BY <2>3, <3>2 DEF set_output_requests
    <3> QED  BY <3>3 DEF RequestsCome
  <2>4. CASE ~ propagate_request_arrival_time /\ ~ set_output_requests
    <3>1. UNCHANGED vars
      <4>1. CASE Turn
        <5>1. phase = "request"
          BY <1>2, <4>1, TurnStays
        <5> QED  BY <2>4, <4>1, <5>1
                 DEF Turn, skip_load_pin, add_capacitance, set_capacitance, propagate_slew,
                     propagate_delay, propagate_arrival_time, skip_start_pin, EndFanout
      <4>2. CASE ~ Turn
        BY <1>1, <1>2, <2>4, <4>2, OtherSteps DEF abort_no_constraint
      <4> QED  BY <4>1, <4>2
    <3>2. RequestsCome
      BY <1>2, <2>1, <3>1 DEF TablesRight, vars
    <3>3. UNCHANGED <<slew, arrival_time, request_arrival_time>>
      BY <3>1 DEF vars, values, arrivals
    <3> QED  BY <3>2, <3>3 DEF RequestsCome, Constrains, Constraint, ConstraintValue
  <2> QED  BY <2>2, <2>3, <2>4
<1>3. ASSUME Updated' PROVE request_arrival_time' = Required
  <2>1. CASE Updated
    BY <2>1, TablesStay DEF TablesRight
  <2>2. CASE First /\ phase = "request" /\ pos > Len(constraint_arcs) /\ ~ Turn
    <3>1. request_arrival_time' = request_arrival_time
      BY <1>1, <2>2, ValueSteps DEF Turn, set_output_requests, EndPass
    <3>2. RequestsSettled(arrival_time) /\ OutputsRequested
      BY <1>1, <2>2, RequestsComplete DEF RequestInv
    <3>3. Past({"capacitance", "slew"})
      BY <2>2 DEF Past
    <3> QED  BY <1>1, <2>2, <3>1, <3>2, <3>3, RequestsSolve DEF TablesRight
  <2> QED  BY <1>1, <1>3, <2>1, <2>2, PastSteps
<1> QED  BY <1>2, <1>3

-----------------------------------------------------------------------------
(***************************************************************************)
(* The reports.                                                            *)
(***************************************************************************)
\* Where a report, its groups and its walks come from.
LEMMA ReportingSteps ==
  ASSUME [Next]_vars, phase' \in {"report", "collect", "walk"}
  PROVE  \/ \E s \in StartTypes : report_timing(s)
         \/ phase \in {"report", "collect", "walk"} /\ clock_pin' = clock_pin
<1> USE DEF values, arrivals, loop, timer, report
<1>1. CASE skip_load_pin \/ add_capacitance \/ set_capacitance \/ propagate_slew \/ propagate_delay
  BY <1>1 DEF skip_load_pin, add_capacitance, set_capacitance, propagate_slew, propagate_delay
<1>2. CASE skip_start_pin \/ propagate_arrival_time \/ EndFanout
  BY <1>2 DEF skip_start_pin, propagate_arrival_time, EndFanout
<1>3. CASE EndPinPass \/ set_output_requests \/ EndRequestPass
  <2>1. PICK p \in Passes : EndPass(p)
    BY <1>3 DEF EndPinPass, set_output_requests, EndRequestPass, Passes
  <2>2. phase' \in Passes \cup {"idle"}
    BY <2>1 DEF EndPass, NextPass, Passes
  <2> QED  BY <2>2 DEF Passes
<1>4. CASE propagate_request_arrival_time \/ abort_no_constraint \/ abort_walk
  BY <1>4 DEF propagate_request_arrival_time, abort_no_constraint, AtConstraint, abort_walk
<1>5. CASE EndReportPass \/ skip_end_point \/ start_walk \/ walk_step \/ EndGroup
  BY <1>5 DEF EndReportPass, skip_end_point, start_walk, walk_step, EndGroup
<1>6. CASE update_timing \/ call_pass \/ reset_arrival_time \/ reset_request_arrival_time
  BY <1>6 DEF update_timing, call_pass, reset_arrival_time, reset_request_arrival_time, Called, Passes
<1>7. CASE UNCHANGED vars
  BY <1>7 DEF vars
<1> QED  BY <1>1, <1>2, <1>3, <1>4, <1>5, <1>6, <1>7 DEF Next, Pass, Collect, ClientCall

\* No other step touches the clock but a new Timer.
LEMMA ClockSteps ==
  ASSUME [Next]_vars
  PROVE  \/ clock_pin' = clock_pin
         \/ update_timing /\ clock_pin' = None
         \/ clock_pin = None /\ clock_pin' = DeducedClock
BY DEF Next, Pass, Collect, ClientCall, vars, timer,
       skip_load_pin, add_capacitance, set_capacitance, propagate_slew, propagate_delay,
       skip_start_pin, propagate_arrival_time, EndFanout, EndPinPass, set_output_requests,
       propagate_request_arrival_time, abort_no_constraint, EndRequestPass, EndReportPass,
       skip_end_point, start_walk, walk_step, abort_walk, EndGroup, update_timing, call_pass,
       reset_arrival_time, reset_request_arrival_time, report_timing

LEMMA ClockKnownNext == ASSUME ClockKnown, [Next]_vars PROVE ClockKnown'
<1>1. clock_pin' \in {None, DeducedClock}
  BY ClockSteps DEF ClockKnown
<1>2. ASSUME phase' \in {"report", "collect", "walk"} PROVE clock_pin' = DeducedClock
  <2>1. CASE \E s \in StartTypes : report_timing(s)
    BY <2>1 DEF ClockKnown, report_timing
  <2>2. CASE phase \in {"report", "collect", "walk"} /\ clock_pin' = clock_pin
    BY <2>2 DEF ClockKnown
  <2> QED  BY <1>2, <2>1, <2>2, ReportingSteps
<1> QED  BY <1>1, <1>2 DEF ClockKnown

\* The pins a report leaves out are the inputs its paths may not start from.
LEMMA SkippedAre ==
  ASSUME start_type \in StartTypes, clock_pin = DeducedClock, NEW p \in Pins
  PROVE  should_skip_start_pin(p) <=> ~ Leaves(p, start_type)
BY NoneAssumption, CircuitAssumption
   DEF should_skip_start_pin, Leaves, Starts, StartTypes, PrimaryInputs

\* When paths are collected every table is the one of StaTables.
LEMMA ReportTables ==
  ASSUME IInv, TablesWait, TablesRight, ClockKnown, phase \in {"collect", "walk"}
  PROVE  /\ slew = WorstSlew /\ delay = ArcDelay
         /\ arrival_time = Arrival[start_type] /\ request_arrival_time = Required
<1>1. calls > 0
  BY DEF TablesWait, IInv, TypeOK
<1>2. /\ Past({"capacitance"}) /\ Past({"capacitance", "slew"})
      /\ Past({"capacitance", "slew", "delay"}) /\ Updated
  BY <1>1 DEF Past, First, Updated, IInv, TypeOK
<1>3. /\ capacitance = Load /\ slew = WorstSlew /\ delay = ArcDelay
      /\ request_arrival_time = Required
  BY <1>2 DEF TablesRight
<1>4. TypeOK /\ InputsStartPaths /\ AllRelaxed /\ AllTight
  BY DEF IInv, ReportComplete
<1>5. start_type \in StartTypes /\ clock_pin = DeducedClock
  BY <1>4 DEF TypeOK, ClockKnown
<1>6. \A k \in PinKeys : is_primary_input(k[1]) => arrival_time[k] = 0
  BY <1>4 DEF InputsStartPaths
<1>7. ASSUME NEW a \in Arcs, NEW m \in Modes, NEW f \in Edges, NEW t \in Edges,
             Leaves(from_pin[a], start_type),
             arrival_time[From(a, m, f)] # None, ArcDelay[<<a, m, f, t>>] # None
      PROVE  ~ Replaces(m, arrival_time[From(a, m, f)] + ArcDelay[<<a, m, f, t>>],
                        arrival_time[To(a, m, t)])
  <2>1. from_pin[a] \in Reached /\ is_clock_edge_valid(a, f, t)
    BY <1>3, <1>4, <1>7, DelayFacts
  <2>2. PICK i \in 1 .. Len(order) : order[i] = from_pin[a]
    BY <1>4, <2>1, ReachedInOrder DEF TypeOK
  <2>3. ~ should_skip_start_pin(from_pin[a])
    BY <1>5, <1>7, SkippedAre, CircuitAssumption
  <2>4. Relaxed(a, m, f, t)
    BY <1>4, <2>2, <2>3 DEF AllRelaxed
  <2> QED  BY <1>3, <1>7, <2>1, <2>4 DEF Relaxed
<1>8. ASSUME NEW k \in PinKeys, arrival_time[k] # None, ~ is_primary_input(k[1])
      PROVE  \E a \in Arcs, f \in Edges :
               /\ to_pin[a] = k[1] /\ Leaves(from_pin[a], start_type)
               /\ arrival_time[From(a, k[2], f)] # None /\ ArcDelay[<<a, k[2], f, k[3]>>] # None
               /\ arrival_time[k] = arrival_time[From(a, k[2], f)] + ArcDelay[<<a, k[2], f, k[3]>>]
  <2>1. Tight(k)
    BY <1>4, <1>8 DEF AllTight
  <2>2. predecessor[k] \in Edges \X Arcs
    BY <1>4, <2>1 DEF Tight, TypeOK
  <2>3. PICK a \in Arcs, f \in Edges : a = predecessor[k][2] /\ f = predecessor[k][1]
    BY <2>2
  <2>4. /\ Explains(a, f, k) /\ ~ should_skip_start_pin(from_pin[a])
        /\ arrival_time[k] = arrival_time[From(a, k[2], f)] + delay[<<a, k[2], f, k[3]>>]
    BY <2>1, <2>3 DEF Tight
  <2>5. Leaves(from_pin[a], start_type)
    BY <1>5, <2>4, SkippedAre, CircuitAssumption
  <2> QED  BY <1>3, <2>4, <2>5 DEF Explains
<1>9. start_type \in {"IN", "REG", "ALL"} /\ order \in Toposorts /\ arrival_time \in [PinKeys -> OptInt]
  BY <1>4, <1>5 DEF TypeOK, StartTypes
<1>10. arrival_time = Arrival[start_type]
  BY <1>3, <1>4, <1>6, <1>7, <1>8, <1>9, ArrivalIs
<1> QED  BY <1>3, <1>10

-----------------------------------------------------------------------------
(***************************************************************************)
(* Tracing a path back.                                                    *)
(***************************************************************************)
\* No arc leaves an end point.
LEMMA EndsLeadNowhere ==
  ASSUME NEW p \in EndPoints PROVE p \in Pins /\ \A a \in Arcs : from_pin[a] # p
<1>1. p \in Pins /\ fanout[p] = << >>
  BY DEF EndPoints
<1> QED  BY <1>1, FanoutAssumption

\* The end points a report looks for are those it must have a path for.
LEMMA ReportedAre ==
  ASSUME arrival_time = Arrival[start_type], request_arrival_time = Required,
         NEW m \in Modes, NEW end \in EndTypes
  PROVE  STA!Reported(start_type, m, end) =
           {p \in EndPoints : is_matching_end_point(p, end) /\ Reportable(p, m)}
<1>1. ASSUME NEW p \in Pins
      PROVE  /\ STA!Matches(p, end) <=> is_matching_end_point(p, end)
             /\ (\A e \in Edges : /\ Arrival[start_type][<<p, m, e>>] # None
                                  /\ Required[<<p, m, e>>] # None) <=> Reportable(p, m)
             /\ (\A a \in Arcs : from_pin[a] # p) <=> p \in EndPoints
  <2>1. STA!Matches(p, end) <=> is_matching_end_point(p, end)
    BY DEF STA!Matches, is_matching_end_point, STA!is_primary_output, is_primary_output
  <2>2. (\A e \in Edges : /\ Arrival[start_type][<<p, m, e>>] # None
                          /\ Required[<<p, m, e>>] # None) <=> Reportable(p, m)
    BY DEF Reportable
  <2>3. ASSUME \A a \in Arcs : from_pin[a] # p PROVE fanout[p] = << >>
    <3>1. fanout[p] \in Seq(Arcs) /\ \A i \in 1 .. Len(fanout[p]) : from_pin[fanout[p][i]] = p
      BY FanoutAssumption
    <3>2. Len(fanout[p]) = 0
      BY <2>3, <3>1
    <3> QED  BY <3>1, <3>2
  <2> QED  BY <2>1, <2>2, <2>3, EndsLeadNowhere DEF EndPoints
<1>2. EndPoints \subseteq Pins
  BY DEF EndPoints
<1> QED  BY <1>1, <1>2 DEF STA!Reported, STA!Edges, Edges

\* A walk begins at the edge of an end point that has the lesser slack.
LEMMA WalkBegins ==
  ASSUME TypeOK, slew = WorstSlew, arrival_time = Arrival[start_type],
         request_arrival_time = Required,
         NEW m \in Modes, NEW end \in EndTypes, NEW p \in EndPoints,
         is_matching_end_point(p, end), Reportable(p, m),
         NEW e, e = WorstEdge(p, m), NEW r,
         r = [slack |-> Slack(p, m, e),
              hops |-> << [pin |-> p, edge |-> e, at |-> arrival_time[<<p, m, e>>],
                           slew |-> slew[<<p, m, e>>]] >>]
  PROVE  STA!LeadsToEnd(start_type, m, end, r) /\ STA!End(r).pin = p
<1>1. e \in Edges
  BY DEF WorstEdge, Edges
<1>2. p \in Pins
  BY EndsLeadNowhere
<1>3. /\ Len(r.hops) = 1 /\ STA!End(r) = r.hops[1] /\ r.hops[1].pin = p /\ r.hops[1].edge = e
      /\ r.hops[1].at = arrival_time[<<p, m, e>>] /\ r.hops[1].slew = slew[<<p, m, e>>]
      /\ r.slack = Slack(p, m, e)
  BY DEF STA!End
<1>4. \A x \in Edges : Slack(p, m, x) = STA!SlackOf(start_type, m, p, x)
  BY DEF Slack, STA!SlackOf
<1>5. \A x \in Edges : Slack(p, m, x) \in Int
  BY <1>2, SlackType
<1>6. \A x \in Edges : Slack(p, m, e) <= Slack(p, m, x)
  <2>1. "RISING" \in Edges /\ "FALLING" \in Edges /\ \A x \in Edges : x = "RISING" \/ x = "FALLING"
    BY DEF Edges
  <2> QED  BY <1>5, <2>1 DEF WorstEdge
<1>7. p \in STA!Reported(start_type, m, end)
  BY ReportedAre
<1>8. STA!IsHop(start_type, m, r.hops[1])
  BY <1>3 DEF STA!IsHop
<1> QED  BY <1>1, <1>3, <1>4, <1>6, <1>7, <1>8 DEF STA!LeadsToEnd, STA!Edges, Edges

\* A hop more at the start of a path leaves its end where it is.
LEMMA WalkGoesOn ==
  ASSUME NEW s, NEW m, NEW end, NEW r, r.hops \in Seq(PathHop), r.hops # << >>,
         STA!LeadsToEnd(s, m, end, r), NEW g \in PathHop,
         STA!IsHop(s, m, g), STA!IsLink(m, g, r.hops[1]),
         NEW q, q = [slack |-> r.slack, hops |-> << g >> \o r.hops]
  PROVE  STA!LeadsToEnd(s, m, end, q) /\ STA!End(q) = STA!End(r)
<1> DEFINE L == Len(r.hops)
<1>1. L \in Nat /\ L > 0
  OBVIOUS
<1>2. /\ Len(q.hops) = L + 1 /\ q.hops[1] = g /\ q.slack = r.slack
      /\ \A i \in 1 .. L : q.hops[i + 1] = r.hops[i]
  OBVIOUS
<1>3. STA!End(q) = STA!End(r)
  <2>1. q.hops[L + 1] = r.hops[L]
    BY <1>1, <1>2
  <2> QED  BY <1>2, <2>1 DEF STA!End
<1>4. ASSUME NEW i \in 1 .. Len(q.hops) PROVE STA!IsHop(s, m, q.hops[i])
  <2>1. CASE i = 1
    BY <1>2, <2>1
  <2>2. CASE i # 1
    <3>1. i - 1 \in 1 .. L /\ q.hops[i] = r.hops[i - 1]
      BY <1>1, <1>2, <2>2
    <3> QED  BY <3>1 DEF STA!LeadsToEnd
  <2> QED  BY <2>1, <2>2
<1>5. ASSUME NEW i \in 1 .. Len(q.hops) - 1 PROVE STA!IsLink(m, q.hops[i], q.hops[i + 1])
  <2>1. i \in 1 .. L /\ q.hops[i + 1] = r.hops[i]
    BY <1>1, <1>2
  <2>2. CASE i = 1
    BY <1>2, <2>1, <2>2
  <2>3. CASE i # 1
    <3>1. i - 1 \in 1 .. L - 1 /\ q.hops[i] = r.hops[i - 1] /\ r.hops[(i - 1) + 1] = r.hops[i]
      BY <1>1, <1>2, <2>1, <2>3
    <3>2. STA!IsLink(m, r.hops[i - 1], r.hops[(i - 1) + 1])
      BY <3>1 DEF STA!LeadsToEnd
    <3> QED  BY <2>1, <3>1, <3>2
  <2> QED  BY <2>2, <2>3
<1> HIDE DEF L
<1> QED  BY <1>2, <1>3, <1>4, <1>5 DEF STA!LeadsToEnd

\* What is done while the paths of a group are collected.
LEMMA GroupSteps ==
  ASSUME [Next]_vars
  PROVE  /\ phase = "collect" => skip_end_point \/ start_walk \/ EndGroup \/ UNCHANGED vars
         /\ phase = "walk" => walk_step \/ abort_walk \/ UNCHANGED vars
         /\ phase' \in {"collect", "walk"} => EndReportPass \/ phase \in {"collect", "walk"}
<1>1. phase' \in {"collect", "walk"} => EndReportPass \/ phase \in {"collect", "walk"}
  BY CollectSteps DEF start_walk, walk_step
<1>2. ASSUME phase \in {"collect", "walk"}
      PROVE  skip_end_point \/ start_walk \/ EndGroup \/ walk_step \/ abort_walk \/ UNCHANGED vars
  <2>1. ~ Pass
    BY <1>2
    DEF Pass, skip_load_pin, add_capacitance, set_capacitance, propagate_slew, propagate_delay,
        skip_start_pin, propagate_arrival_time, EndFanout, EndPinPass, EndPass, set_output_requests,
        propagate_request_arrival_time, AtConstraint, abort_no_constraint, EndRequestPass
  <2>2. ~ ClientCall
    BY <1>2 DEF ClientCall, update_timing, call_pass, reset_arrival_time,
                reset_request_arrival_time, Called, report_timing
  <2> QED  BY <1>2, <2>1, <2>2 DEF Next, Collect, EndReportPass
<1>3. phase = "collect" => ~ walk_step /\ ~ abort_walk
  BY DEF walk_step, abort_walk
<1>4. phase = "walk" => ~ skip_end_point /\ ~ start_walk /\ ~ EndGroup
  BY DEF skip_end_point, start_walk, EndGroup
<1> QED  BY <1>1, <1>2, <1>3, <1>4

\* The hop a walk has come to.
ThisHop == [pin |-> walk.pin, edge |-> walk.edge, at |-> WalkAt, slew |-> WalkSlew]

LEMMA TracedType ==
  ASSUME TypeOK, phase = "walk", WalkAt # None, WalkSlew # None
  PROVE  /\ WalkKey \in PinKeys /\ ThisHop \in PathHop
         /\ walk.hops \in Seq(PathHop) /\ walk.slack \in Int
         /\ Traced = [slack |-> walk.slack, hops |-> << ThisHop >> \o walk.hops]
         /\ Traced.hops \in Seq(PathHop) /\ Traced.hops # << >> /\ Traced.hops[1] = ThisHop
         /\ Traced \in ReportedPath
<1>1. walk \in WalkStates
  BY DEF TypeOK
<1>2. WalkKey \in PinKeys
  BY <1>1, Groups_Type DEF WalkKey, PinKeys, WalkStates, TypeOK
<1>3. WalkAt \in Int /\ WalkSlew \in Int
  BY <1>2 DEF WalkAt, WalkSlew, TypeOK, OptInt
<1>4. walk.pin \in Pins /\ walk.edge \in Edges /\ walk.hops \in Seq(PathHop) /\ walk.slack \in Int
  BY <1>1 DEF WalkStates
<1>5. ThisHop \in PathHop
  BY <1>3, <1>4 DEF ThisHop, PathHop
<1>6. Traced = [slack |-> walk.slack, hops |-> << ThisHop >> \o walk.hops]
  BY DEF Traced, ThisHop
<1>7. /\ << ThisHop >> \o walk.hops \in Seq(PathHop)
      /\ << ThisHop >> \o walk.hops # << >>
      /\ (<< ThisHop >> \o walk.hops)[1] = ThisHop
  BY <1>4, <1>5
<1>8. Traced.slack = walk.slack /\ Traced.hops = << ThisHop >> \o walk.hops
  BY <1>6
<1>9. Traced \in ReportedPath
  BY <1>4, <1>6, <1>7 DEF ReportedPath
<1> QED  BY <1>2, <1>4, <1>5, <1>6, <1>7, <1>8, <1>9

\* The predecessor is an arc whose delay is exactly what the hop adds.
LEMMA WalkLinks ==
  ASSUME TypeOK, InputsStartPaths, AllTight, DelayNeedsSlews,
         phase = "walk", WalkAt # None, WalkSlew # None, slew = WorstSlew,
         delay = ArcDelay, arrival_time = Arrival[start_type],
         WalkPredecessor # None, NEW m, m = Groups[group][1],
         NEW f, f = WalkPredecessor[1], NEW p, p = PredecessorPin,
         NEW g, g = [pin |-> p, edge |-> f, at |-> arrival_time[<<p, m, f>>],
                     slew |-> slew[<<p, m, f>>]]
  PROVE  /\ f \in Edges /\ p \in Pins /\ ~ should_skip_start_pin(p)
         /\ g \in PathHop /\ STA!IsHop(start_type, m, g) /\ STA!IsLink(m, g, ThisHop)
<1>1. WalkKey \in PinKeys /\ WalkKey = <<walk.pin, m, walk.edge>>
  BY TracedType DEF WalkKey
<1>2. predecessor[WalkKey] \in Edges \X Arcs
  BY <1>1 DEF TypeOK, WalkPredecessor
<1>3. PICK a \in Arcs : a = WalkPredecessor[2]
  BY <1>2 DEF WalkPredecessor
<1>4. f \in Edges /\ p = from_pin[a] /\ p \in Pins
  BY <1>2, <1>3, CircuitAssumption DEF WalkPredecessor, PredecessorPin
<1>5. ~ is_primary_input(walk.pin)
  BY <1>1 DEF InputsStartPaths, WalkPredecessor
<1>6. Tight(WalkKey)
  BY <1>1, <1>5 DEF AllTight, WalkAt
<1>7. /\ to_pin[a] = walk.pin /\ ~ should_skip_start_pin(p)
      /\ delay[<<a, m, f, walk.edge>>] # None
      /\ WalkAt = arrival_time[<<p, m, f>>] + delay[<<a, m, f, walk.edge>>]
  BY <1>1, <1>3, <1>4, <1>6 DEF Tight, Explains, From, WalkAt, WalkPredecessor
<1>8. g.pin = p /\ g.edge = f /\ g.at = arrival_time[<<p, m, f>>] /\ g.slew = slew[<<p, m, f>>]
  OBVIOUS
<1>9. STA!IsHop(start_type, m, g)
  BY <1>8 DEF STA!IsHop
<1>10. ThisHop.pin = walk.pin /\ ThisHop.edge = walk.edge /\ ThisHop.at = WalkAt
  BY DEF ThisHop
<1>11. STA!IsLink(m, g, ThisHop)
  BY <1>3, <1>4, <1>7, <1>8, <1>10 DEF STA!IsLink
<1>12. g \in PathHop
  <2>1. /\ m \in Modes /\ <<p, m, f>> \in PinKeys /\ walk.edge \in Edges
    BY <1>1, <1>4 DEF PinKeys
  <2>2. arrival_time[<<p, m, f>>] # None
    BY <1>1, <1>3, <1>4, <1>6 DEF Tight, Explains, From, WalkPredecessor
  <2>3. slew[<<p, m, f>>] # None
    BY <1>4, <1>7, <2>1 DEF DelayNeedsSlews, From
  <2>4. arrival_time[<<p, m, f>>] \in Int /\ slew[<<p, m, f>>] \in Int
    BY <2>1, <2>2, <2>3 DEF TypeOK, OptInt
  <2> QED  BY <1>4, <2>4 DEF PathHop
<1> QED  BY <1>4, <1>7, <1>9, <1>11, <1>12

\* A walk without a predecessor to go on to has come to an input it may start from.
LEMMA WalkArrives ==
  ASSUME TypeOK, InputsStartPaths, AllTight, ClockKnown, WalkRight, phase = "walk",
         WalkAt # None, WalkSlew # None, WalkPredecessor = None
  PROVE  STA!IsWorstPath(start_type, Groups[group][1], Groups[group][2], Traced)
<1>1. WalkKey \in PinKeys /\ WalkKey[1] = walk.pin /\ walk.hops \in Seq(PathHop)
  BY TracedType DEF WalkKey
<1>2. is_primary_input(walk.pin) /\ WalkAt = 0
  <2>1. is_primary_input(WalkKey[1])
    BY <1>1 DEF AllTight, Tight, WalkAt, WalkPredecessor
  <2> QED  BY <1>1, <2>1 DEF InputsStartPaths, WalkAt
<1>3. Traced.hops[1].pin = walk.pin /\ Traced.hops[1].at = WalkAt
  BY TracedType DEF ThisHop
<1>4. ASSUME Len(Traced.hops) > 1 PROVE walk.pin \in Starts[start_type]
  <2>1. walk.hops # << >>
    <3>1. Traced.hops = << ThisHop >> \o walk.hops
      BY TracedType
    <3> QED  BY <1>1, <1>4, <3>1
  <2>2. ~ should_skip_start_pin(walk.pin)
    BY <2>1 DEF WalkRight
  <2>3. walk.pin \in Pins
    BY <1>1 DEF PinKeys
  <2>4. Leaves(walk.pin, start_type)
    BY <2>2, <2>3, SkippedAre DEF ClockKnown, TypeOK
  <2> QED  BY <1>2, <2>4 DEF Leaves
<1> QED  BY <1>2, <1>3, <1>4 DEF STA!IsWorstPath, WalkRight, STA!is_primary_input, is_primary_input

\* A walk that begins traces a path of one hop to an end point to be reported.
LEMMA StartTraced ==
  ASSUME IInv, TablesWait, TablesRight, ClockKnown, start_walk
  PROVE  /\ UNCHANGED <<start_type, group, paths>> /\ walk'.hops = << >>
         /\ STA!LeadsToEnd(start_type, Groups[group][1], Groups[group][2], Traced')
         /\ \E p \in end_points : end_points' = end_points \ {p} /\ STA!End(Traced').pin = p
<1>1. phase = "collect"
  BY DEF start_walk
<1>2. /\ slew = WorstSlew /\ delay = ArcDelay
      /\ arrival_time = Arrival[start_type] /\ request_arrival_time = Required
  BY <1>1, ReportTables
<1>3. TypeOK /\ InputsStartPaths /\ AllTight
  BY <1>1 DEF IInv, ReportComplete
<1>4. PICK m \in Modes, end \in EndTypes : m = Groups[group][1] /\ end = Groups[group][2]
  BY <1>3, Groups_Type DEF TypeOK
<1>5. PICK p \in end_points :
        /\ is_matching_end_point(p, end) /\ Reportable(p, m)
        /\ end_points' = end_points \ {p}
        /\ walk' = [pin |-> p, edge |-> WorstEdge(p, m), slack |-> Slack(p, m, WorstEdge(p, m)),
                    hops |-> << >>]
  BY <1>4 DEF start_walk
<1>6. PICK e \in Edges : e = WorstEdge(p, m)
  BY DEF WorstEdge, Edges
<1>7. /\ UNCHANGED <<slew, arrival_time, group, start_type, paths>> /\ phase = "collect"
  BY DEF start_walk, values, arrivals
<1>8. p \in EndPoints
  BY <1>3 DEF TypeOK
<1>9. PICK h : h = [pin |-> p, edge |-> e, at |-> arrival_time[<<p, m, e>>], slew |-> slew[<<p, m, e>>]]
  OBVIOUS
<1>10. PICK r : r = [slack |-> Slack(p, m, e), hops |-> << h >>]
  OBVIOUS
<1>11. STA!LeadsToEnd(start_type, m, end, r) /\ STA!End(r).pin = p
  BY <1>2, <1>3, <1>5, <1>6, <1>8, <1>9, <1>10, WalkBegins
<1>12. walk'.pin = p /\ walk'.edge = e /\ walk'.slack = Slack(p, m, e) /\ walk'.hops = << >>
  BY <1>5, <1>6
<1>13. WalkAt' = arrival_time[<<p, m, e>>] /\ WalkSlew' = slew[<<p, m, e>>]
  BY <1>4, <1>7, <1>12 DEF WalkAt, WalkSlew, WalkKey
<1>14. << h >> \o << >> = << h >>
  OBVIOUS
<1>15. Traced' = r
  BY <1>9, <1>10, <1>12, <1>13, <1>14 DEF Traced
<1> QED  BY <1>4, <1>5, <1>7, <1>11, <1>12, <1>15

\* A walk that goes on traces a longer path to the same end point.
LEMMA StepTraced ==
  ASSUME IInv, SettledInv, TablesWait, TablesRight, ClockKnown, WalkRight,
         walk_step, phase' = "walk"
  PROVE  /\ phase = "walk" /\ UNCHANGED <<start_type, group, paths, end_points>>
         /\ ~ should_skip_start_pin(walk.pin)'
         /\ STA!LeadsToEnd(start_type, Groups[group][1], Groups[group][2], Traced')
         /\ STA!End(Traced') = STA!End(Traced)
<1>1. phase = "walk"
  BY DEF walk_step
<1>2. /\ slew = WorstSlew /\ delay = ArcDelay
      /\ arrival_time = Arrival[start_type] /\ request_arrival_time = Required
  BY <1>1, ReportTables
<1>3. TypeOK /\ InputsStartPaths /\ AllTight
  BY <1>1 DEF IInv, ReportComplete
<1>4. PICK m \in Modes, end \in EndTypes : m = Groups[group][1] /\ end = Groups[group][2]
  BY <1>3, Groups_Type DEF TypeOK
<1>5. /\ phase = "walk" /\ WalkAt # None /\ WalkSlew # None /\ WalkPredecessor # None
      /\ walk' = [walk EXCEPT !.edge = WalkPredecessor[1], !.pin = PredecessorPin,
                              !.hops = << ThisHop >> \o walk.hops]
      /\ UNCHANGED <<slew, arrival_time, group, start_type, paths, end_points, clock_pin>>
  BY DEF walk_step, values, arrivals, timer, ThisHop
<1>6. PICK f, p : f = WalkPredecessor[1] /\ p = PredecessorPin
  OBVIOUS
<1>7. PICK g : g = [pin |-> p, edge |-> f, at |-> arrival_time[<<p, m, f>>],
                    slew |-> slew[<<p, m, f>>]]
  OBVIOUS
<1>8. PICK r : r = Traced
  OBVIOUS
<1>9. /\ f \in Edges /\ p \in Pins /\ ~ should_skip_start_pin(p)
      /\ g \in PathHop /\ STA!IsHop(start_type, m, g) /\ STA!IsLink(m, g, ThisHop)
  BY <1>2, <1>3, <1>4, <1>5, <1>6, <1>7, WalkLinks DEF SettledInv, DelayInv
<1>10. /\ r.hops \in Seq(PathHop) /\ r.hops # << >> /\ r.hops[1] = ThisHop
      /\ r.hops = << ThisHop >> \o walk.hops /\ r.slack = walk.slack
  BY <1>3, <1>5, <1>8, TracedType
<1>11. walk \in WalkStates
  BY <1>3, <1>5 DEF TypeOK
<1>12. walk'.pin = p /\ walk'.edge = f /\ walk'.slack = walk.slack /\ walk'.hops = r.hops
  BY <1>5, <1>6, <1>10, <1>11 DEF WalkStates
<1>13. WalkAt' = arrival_time[<<p, m, f>>] /\ WalkSlew' = slew[<<p, m, f>>]
  BY <1>4, <1>5, <1>12 DEF WalkAt, WalkSlew, WalkKey
<1>14. Traced' = [slack |-> r.slack, hops |-> << g >> \o r.hops]
  BY <1>7, <1>10, <1>12, <1>13 DEF Traced
<1>15. STA!IsLink(m, g, r.hops[1])
  BY <1>9, <1>10
<1>16. STA!LeadsToEnd(start_type, m, end, r)
  BY <1>4, <1>5, <1>8 DEF WalkRight
<1>17. PICK q : q = [slack |-> r.slack, hops |-> << g >> \o r.hops]
  OBVIOUS
<1>18. STA!LeadsToEnd(start_type, m, end, q) /\ STA!End(q) = STA!End(r)
  <2>1. g \in PathHop /\ STA!IsHop(start_type, m, g)
    BY <1>9
  <2>2. r.hops \in Seq(PathHop) /\ r.hops # << >>
    BY <1>10
  <2>3. PICK s \in StartTypes : s = start_type
    BY <1>3 DEF TypeOK
  <2>4. STA!LeadsToEnd(s, m, end, r) /\ STA!IsHop(s, m, g)
    BY <1>16, <2>1, <2>3
  <2>5. STA!LeadsToEnd(s, m, end, q) /\ STA!End(q) = STA!End(r)
    BY <1>15, <1>17, <2>1, <2>2, <2>4, WalkGoesOn
  <2> QED  BY <2>3, <2>5
<1>19. should_skip_start_pin(walk.pin)' <=> should_skip_start_pin(p)
  BY <1>5, <1>12 DEF should_skip_start_pin
<1> QED  BY <1>4, <1>5, <1>8, <1>9, <1>14, <1>17, <1>18, <1>19

\* What is traced back stays a path to its end point.
LEMMA WalkRightNext ==
  ASSUME IInv, SettledInv, TablesWait, TablesRight, ClockKnown, WalkRight, PathsRight, [Next]_vars
  PROVE  WalkRight'
<1> SUFFICES ASSUME phase' = "walk" PROVE WalkRight'
  BY DEF WalkRight
<1>1. CASE start_walk
  <2>1. phase = "collect"
    BY <1>1 DEF start_walk
  <2>2. PICK p \in end_points : end_points' = end_points \ {p} /\ STA!End(Traced').pin = p
    BY <1>1, StartTraced
  <2>3. \A q \in paths : STA!End(q).pin # p
    BY <2>1, <2>2 DEF PathsRight
  <2>4. /\ UNCHANGED <<start_type, group, paths>> /\ walk'.hops = << >>
        /\ STA!LeadsToEnd(start_type, Groups[group][1], Groups[group][2], Traced')
    BY <1>1, StartTraced
  <2> QED  BY <2>2, <2>3, <2>4 DEF WalkRight
<1>2. CASE walk_step
  <2>1. /\ phase = "walk" /\ UNCHANGED <<start_type, group, paths, end_points>>
        /\ ~ should_skip_start_pin(walk.pin)'
        /\ STA!LeadsToEnd(start_type, Groups[group][1], Groups[group][2], Traced')
        /\ STA!End(Traced') = STA!End(Traced)
    BY <1>2, StepTraced
  <2>2. STA!End(Traced).pin \notin end_points /\ \A r \in paths : STA!End(r).pin # STA!End(Traced).pin
    BY <2>1 DEF WalkRight
  <2> QED  BY <2>1, <2>2 DEF WalkRight
<1>3. CASE UNCHANGED vars
  <2>1. UNCHANGED <<phase, walk, group, start_type, paths, end_points, clock_pin, slew, arrival_time>>
    BY <1>3 DEF vars, values, arrivals, report, timer
  <2> QED  BY <2>1 DEF WalkRight, Traced, WalkAt, WalkSlew, WalkKey, should_skip_start_pin
<1> QED  BY <1>1, <1>2, <1>3, GroupSteps DEF EndReportPass, skip_end_point, EndGroup, abort_walk

\* A group is begun with all end points, and every one to be reported is one.
LEMMA GroupBegins ==
  ASSUME phase' = "collect", paths' = {}, end_points' = EndPoints
  PROVE  PathsRight'
<1>1. \A s, m, end : STA!Reported(s, m, end) \subseteq EndPoints
  <2>1. ASSUME NEW p \in Pins, \A a \in Arcs : from_pin[a] # p PROVE fanout[p] = << >>
    <3>1. fanout[p] \in Seq(Arcs) /\ \A i \in 1 .. Len(fanout[p]) : from_pin[fanout[p][i]] = p
      BY FanoutAssumption
    <3>2. Len(fanout[p]) = 0
      BY <2>1, <3>1
    <3> QED  BY <3>1, <3>2
  <2> QED  BY <2>1 DEF STA!Reported, EndPoints
<1>2. \A s, m, end : STA!Reported(s, m, end) \ EndPoints = {}
  BY <1>1
<1> QED  BY <1>2 DEF PathsRight

\* Of the end points looked at exactly those to be reported have a path.
LEMMA PathsRightNext ==
  ASSUME IInv, SettledInv, TablesWait, TablesRight, ClockKnown, WalkRight, PathsRight, [Next]_vars
  PROVE  PathsRight'
<1> SUFFICES ASSUME phase' \in {"collect", "walk"} PROVE PathsRight'
  BY DEF PathsRight
<1>1. CASE EndReportPass
  BY <1>1, GroupBegins DEF EndReportPass
<1>2. CASE EndGroup
  BY <1>2, GroupBegins DEF EndGroup
<1>3. CASE skip_end_point
  <2>1. phase = "collect" /\ UNCHANGED <<phase, start_type, group, paths>>
    BY <1>3 DEF skip_end_point
  <2>2. PICK m \in Modes, end \in EndTypes : m = Groups[group][1] /\ end = Groups[group][2]
    BY Groups_Type DEF IInv, TypeOK
  <2>3. PICK p \in end_points :
          /\ ~ (is_matching_end_point(p, end) /\ Reportable(p, m))
          /\ end_points' = end_points \ {p}
    BY <1>3, <2>2 DEF skip_end_point
  <2>4. p \notin STA!Reported(start_type, m, end)
    <3>1. arrival_time = Arrival[start_type] /\ request_arrival_time = Required
      BY <2>1, ReportTables
    <3> QED  BY <2>3, <3>1, ReportedAre
  <2>5. /\ \A r \in paths : /\ STA!IsWorstPath(start_type, m, end, r)
                            /\ STA!End(r).pin \notin end_points
        /\ \A r, s \in paths : STA!End(r).pin = STA!End(s).pin => r = s
        /\ \A x \in STA!Reported(start_type, m, end) \ end_points : \E r \in paths : STA!End(r).pin = x
    BY <2>1, <2>2 DEF PathsRight
  <2>6. \A x \in STA!Reported(start_type, m, end) \ end_points' : \E r \in paths : STA!End(r).pin = x
    BY <2>3, <2>4, <2>5
  <2>7. \A r \in paths : /\ STA!IsWorstPath(start_type, m, end, r)
                         /\ STA!End(r).pin \notin end_points'
    BY <2>3, <2>5
  <2> QED  BY <2>1, <2>2, <2>5, <2>6, <2>7 DEF PathsRight
<1>4. CASE start_walk
  <2>1. /\ UNCHANGED <<start_type, group, paths>> /\ phase = "collect" /\ phase' = "walk"
    BY <1>4 DEF start_walk
  <2>2. PICK m, end : m = Groups[group][1] /\ end = Groups[group][2]
    OBVIOUS
  <2>3. PICK p \in end_points : end_points' = end_points \ {p} /\ STA!End(Traced').pin = p
    BY <1>4, StartTraced
  <2>4. /\ \A r \in paths : /\ STA!IsWorstPath(start_type, m, end, r)
                            /\ STA!End(r).pin \notin end_points
        /\ \A r, s \in paths : STA!End(r).pin = STA!End(s).pin => r = s
        /\ \A x \in STA!Reported(start_type, m, end) \ end_points : \E r \in paths : STA!End(r).pin = x
    BY <2>1, <2>2 DEF PathsRight
  <2>5. \A x \in STA!Reported(start_type, m, end) \ end_points' :
          (\E r \in paths : STA!End(r).pin = x) \/ STA!End(Traced').pin = x
    BY <2>3, <2>4
  <2>6. \A r \in paths : /\ STA!IsWorstPath(start_type, m, end, r)
                         /\ STA!End(r).pin \notin end_points'
    BY <2>3, <2>4
  <2> QED  BY <2>1, <2>2, <2>4, <2>5, <2>6 DEF PathsRight
<1>5. CASE walk_step /\ phase' = "walk"
  <2>1. /\ phase = "walk" /\ UNCHANGED <<phase, start_type, group, paths, end_points>>
        /\ STA!End(Traced') = STA!End(Traced)
    BY <1>5, StepTraced
  <2> QED  BY <2>1 DEF PathsRight
<1>6. CASE walk_step /\ phase' = "collect"
  <2>1. /\ phase = "walk" /\ WalkAt # None /\ WalkSlew # None /\ WalkPredecessor = None
        /\ UNCHANGED <<start_type, group, end_points>>
    BY <1>6 DEF walk_step
  <2>2. PICK t : t = Traced
    OBVIOUS
  <2>3. paths' = paths \cup {t}
    BY <1>6, <2>1, <2>2 DEF walk_step, Traced
  <2>4. PICK m, end : m = Groups[group][1] /\ end = Groups[group][2]
    OBVIOUS
  <2>5. STA!IsWorstPath(start_type, m, end, t)
    BY <2>1, <2>2, <2>4, WalkArrives DEF IInv, ReportComplete
  <2>6. STA!End(t).pin \notin end_points /\ \A r \in paths : STA!End(r).pin # STA!End(t).pin
    BY <2>1, <2>2 DEF WalkRight
  <2>7. /\ \A r \in paths : /\ STA!IsWorstPath(start_type, m, end, r)
                            /\ STA!End(r).pin \notin end_points
        /\ \A r, s \in paths : STA!End(r).pin = STA!End(s).pin => r = s
        /\ \A x \in STA!Reported(start_type, m, end) \ end_points :
             (\E r \in paths : STA!End(r).pin = x) \/ STA!End(t).pin = x
    BY <2>1, <2>2, <2>4 DEF PathsRight
  <2>8. \A r \in paths' : /\ STA!IsWorstPath(start_type, m, end, r)
                          /\ STA!End(r).pin \notin end_points
    BY <2>3, <2>5, <2>6, <2>7
  <2>9. \A r, s \in paths' : STA!End(r).pin = STA!End(s).pin => r = s
    BY <2>3, <2>6, <2>7
  <2>10. \A x \in STA!Reported(start_type, m, end) \ end_points : \E r \in paths' : STA!End(r).pin = x
    BY <2>3, <2>7
  <2> QED  BY <2>1, <2>4, <2>8, <2>9, <2>10 DEF PathsRight
<1>7. CASE UNCHANGED vars
  <2>1. UNCHANGED <<phase, walk, group, start_type, paths, end_points, slew, arrival_time>>
    BY <1>7 DEF vars, values, arrivals, report
  <2> QED  BY <2>1 DEF PathsRight, Traced, WalkAt, WalkSlew, WalkKey
<1>8. ~ abort_walk
  BY DEF abort_walk
<1> QED  BY <1>1, <1>2, <1>3, <1>4, <1>5, <1>6, <1>7, <1>8, GroupSteps

-----------------------------------------------------------------------------
(***************************************************************************)
(* The refinement.                                                         *)
(***************************************************************************)
LEMMA ExactInit == Init => ExactInv
<1> SUFFICES ASSUME Init PROVE ExactInv
  OBVIOUS
<1>1. phase = "idle" /\ calls = 0 /\ clock_pin = None
  BY DEF Init
<1>2. TablesWait
  BY DEF Init, TablesWait
<1>3. PortsKeepLoads
  BY DEF Init, PortsKeepLoads
<1>4. TablesRight
  BY <1>1 DEF TablesRight, Past, First, Updated
<1> QED  BY <1>1, <1>2, <1>3, <1>4 DEF ExactInv, ClockKnown, WalkRight, PathsRight

LEMMA ExactNext ==
  ASSUME WiresAndCells, Client = "shell", IInv, SettledInv, ExactInv, [Next]_vars
  PROVE  ExactInv'
<1>1. IInv' /\ TypeOK /\ OnlyUpdates /\ Client # "library"
  BY IInvNext DEF IInv, SettledInv
<1>2. /\ TablesWait /\ PortsKeepLoads /\ TablesRight /\ ClockKnown /\ WalkRight /\ PathsRight
  BY DEF ExactInv
<1>3. TablesWait' /\ PortsKeepLoads' /\ ClockKnown'
  BY <1>1, <1>2, TablesWaitNext, PortsKeepLoadsNext, ClockKnownNext
<1>4. TablesRight'
  <2>1. Past({"capacitance"})' => capacitance' = Load
    BY <1>1, <1>2, LoadsRightNext
  <2>2. /\ phase' = "slew" /\ First' => PortsFromZero' /\ SlewsCome'
        /\ Past({"capacitance", "slew"})' => slew' = WorstSlew
    BY <1>1, <1>2, SlewsRightNext
  <2>3. /\ phase' = "delay" /\ First' => DelaysCome'
        /\ Past({"capacitance", "slew", "delay"})' => delay' = ArcDelay
    BY <1>1, <1>2, DelaysRightNext
  <2>4. /\ phase' = "arrival" /\ First' => ArrivalsCome'
        /\ phase' \in {"outputs", "request"} /\ First' => arrival_time' = Arrival["ALL"]
    BY <1>1, <1>2, ArrivalsRightNext
  <2>5. /\ phase' = "request" /\ First' => RequestsCome'
        /\ Updated' => request_arrival_time' = Required
    BY <1>1, <1>2, RequestsRightNext
  <2> QED  BY <2>1, <2>2, <2>3, <2>4, <2>5 DEF TablesRight
<1>5. WalkRight' /\ PathsRight'
  BY <1>2, WalkRightNext, PathsRightNext
<1> QED  BY <1>3, <1>4, <1>5 DEF ExactInv

\* A group that is done is one report of Sta.
LEMMA EndGroupFixes ==
  ASSUME IInv, ExactInv, EndGroup
  PROVE  STA!FixReport(start_type, Groups[group][1], Groups[group][2])
<1>1. phase = "collect" /\ end_points = {} /\ TypeOK
  BY DEF EndGroup, IInv
<1>2. PICK m \in Modes, end \in EndTypes : m = Groups[group][1] /\ end = Groups[group][2]
  BY <1>1, Groups_Type DEF TypeOK
<1>3. PICK s \in StartTypes : s = start_type
  BY <1>1 DEF TypeOK
<1>4. <<s, m, end>> \notin DOMAIN report_cache
  <2>1. ~ IsCached(start_type, group)
    BY <1>1 DEF IInv, CacheFillsInOrder, IsBuilding, TypeOK
  <2> QED  BY <1>2, <1>3, <2>1 DEF IsCached
<1>5. report_cache' = [r \in DOMAIN report_cache \cup {<<s, m, end>>} |->
                         IF r = <<s, m, end>> THEN paths ELSE report_cache[r]]
  BY <1>2, <1>3 DEF EndGroup
<1>6. /\ DOMAIN report_cache' = DOMAIN report_cache \cup {<<s, m, end>>}
      /\ report_cache'[s, m, end] = paths
      /\ \A r \in DOMAIN report_cache : report_cache'[r] = report_cache[r]
  BY <1>4, <1>5
<1>7. STA!IsReport(s, m, end, paths)
  <2>1. /\ \A r \in paths : STA!IsWorstPath(s, m, end, r)
        /\ \A r, q \in paths : STA!End(r).pin = STA!End(q).pin => r = q
        /\ \A p \in STA!Reported(s, m, end) : \E r \in paths : STA!End(r).pin = p
    BY <1>1, <1>2, <1>3 DEF ExactInv, PathsRight
  <2>2. \A r \in paths : STA!End(r).pin \in STA!Reported(s, m, end)
    BY <2>1 DEF STA!IsWorstPath, STA!LeadsToEnd
  <2>3. {STA!End(r).pin : r \in paths} = STA!Reported(s, m, end)
    BY <2>1, <2>2
  <2> QED  BY <2>1, <2>3 DEF STA!IsReport
<1>8. STA!FixReport(s, m, end)
  BY <1>4, <1>6, <1>7 DEF STA!FixReport
<1> QED  BY <1>2, <1>3, <1>8

\* No step adds to the cache but the end of a group.
LEMMA StaStep ==
  ASSUME Client = "shell", IInv, ExactInv, [Next]_vars
  PROVE  STA!Next \/ UNCHANGED report_cache
<1>1. CASE EndGroup
  <2>1. STA!FixReport(start_type, Groups[group][1], Groups[group][2])
    BY <1>1, EndGroupFixes
  <2>2. /\ start_type \in STA!StartTypes
        /\ Groups[group][1] \in STA!Modes /\ Groups[group][2] \in STA!EndTypes
    BY Groups_Type DEF IInv, TypeOK, StartTypes, EndTypes, Modes,
                       STA!StartTypes, STA!EndTypes, STA!Modes
  <2> QED  BY <2>1, <2>2 DEF STA!Next
<1>2. CASE update_timing
  BY <1>2 DEF update_timing, EmptyCache, STA!Next, STA!Forget, STA!NoReports
<1>3. CASE EndReportPass \/ \E s \in StartTypes : report_timing(s)
  BY <1>3 DEF EndReportPass, report_timing, timer
<1> QED  BY <1>1, <1>2, <1>3, CacheSteps

\* Called by the shell, on a circuit of wires and cells, Timer implements Sta:
\* every report it caches is the report of the circuit, for every circuit, every
\* order its pins may be sorted in and every sequence of updates and reports.
THEOREM ShellImplementsSta ==
  ASSUME WiresAndCells, Client = "shell"
  PROVE  Spec => ImplementsSta
<1>1. Init => ExactInv /\ STA!Init
  BY ExactInit DEF Init, EmptyCache, STA!Init, STA!NoReports
<1>2. IInv /\ SettledInv /\ ExactInv /\ [Next]_vars => ExactInv' /\ [STA!Next]_report_cache
  BY ExactNext, StaStep
<1>3. Client # "library"
  OBVIOUS
<1>4. Spec => []IInv /\ []SettledInv
  BY <1>3, Inductive, ValuesSettle
<1> QED  BY <1>1, <1>2, <1>4, PTL DEF Spec, ImplementsSta, STA!Spec
=============================================================================
