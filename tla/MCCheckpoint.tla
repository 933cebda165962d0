--------------------------- MODULE MCCheckpoint ---------------------------
(* Checkpoint with values for TLC. *)
EXTENDS Checkpoint, TLC

\* Two arrays, regrets and averages.  Two infosets share the place of their
\* hash; one is on the flop, the street of the other is not known.
TwoArrays == 1..2
TwoKeys == {"a", "b"}
SomeStreets == ("a" :> 1) @@ ("b" :> UnknownStreet)
SameHome == ("a" :> 1) @@ ("b" :> 3)
Slabs == 0..4
\* Odd slabs need rounding; even ones are exact.
RoundUp(v) == v + (v % 2)
OddSlabs == {1, 3}
BothPrecisions == {"F64", "compact"}
SomePressure == {0, 2}
AllShortages == {"infoset", "array", "span", "rehash"}
TwoConfigs == {"c1", "c2"}
OneLegacy == {<<[key |-> "a", values |-> (1 :> 3) @@ (2 :> 1)]>>}
===========================================================================
