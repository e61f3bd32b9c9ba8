----------------------------- MODULE MCTopoSort -----------------------------
(***************************************************************************)
(* Circuits of four pins: with two primary inputs and every way the pins   *)
(* can drive up to two others (one input up to one), or with one primary   *)
(* input and loops of up to three pins.  Two arcs between the same pins,   *)
(* arcs from a pin to itself and pins that nothing drives are among them.  *)
(***************************************************************************)
EXTENDS TopoSort

CONSTANTS a, b, x, y

P_Pins == {a, b, x, y}

Sinks(S, m) == UNION {[1 .. n -> S] : n \in 0 .. m}
TwoInputs ==
  {[inputs |-> {a, b}, fanout |-> f] :
     f \in {g \in [P_Pins -> Sinks({x, y}, 2)] : Len(g[b]) < 2}}
OneInput ==
  {[inputs |-> {a}, fanout |-> f] : f \in {g \in [P_Pins -> Sinks({b, x, y}, 2)] :
     /\ \A p \in P_Pins : Len(g[p]) = 2 => g[p][1] # g[p][2]
     /\ Len(g[x]) < 2 /\ Len(g[y]) < 2}}
P_Graphs == TwoInputs \cup OneInput
=============================================================================
