------------------------------ MODULE PinOrder ------------------------------
(***************************************************************************)
(* What get_toposorted_pins owes the passes of Timer.                      *)
(***************************************************************************)
EXTENDS Integers, Sequences

\* s lists the vertices of V that `inputs' reach along `links' (a set of
\* pairs) in an order a single visit is enough for: no vertex twice, every
\* input in it, every link leads from a vertex of s to a later one, and
\* nothing is in s but inputs and what an earlier vertex of s links to.
IsTopologicalOrder(s, V, inputs, links) ==
  /\ s \in Seq(V)
  /\ \A i, j \in 1 .. Len(s) : s[i] = s[j] => i = j
  /\ \A p \in inputs : \E i \in 1 .. Len(s) : s[i] = p
  /\ \A i \in 1 .. Len(s), v \in V :
       <<s[i], v>> \in links => \E j \in i + 1 .. Len(s) : s[j] = v
  /\ \A j \in 1 .. Len(s) :
       s[j] \in inputs \/ \E i \in 1 .. j - 1 : <<s[i], s[j]>> \in links
=============================================================================
