----------------------------- MODULE MCMiniroute -----------------------------
(* Miniroute on three hosts in a line, with two threads on the first.       *)
EXTENDS Miniroute

CONSTANTS h1, h2, h3, t1, t2
Line == {<<h1, h2>>, <<h2, h1>>, <<h2, h3>>, <<h3, h2>>}
BothOnFirst == [t \in Thread |-> h1]
Targets == [t \in Thread |-> IF t = t1 THEN {h2, h3} ELSE {h3}]
=============================================================================
