--------------------------- MODULE MCGameEngine ---------------------------
(* GameEngine with values for TLC. *)
EXTENDS GameEngine, TLC

ThreeStacks == (0 :> 2) @@ (1 :> 1) @@ (2 :> 3)
SmallBlinds == [small |-> 1, big |-> 2, ante |-> 0]
Variant(limit, isBoard, low, cards, hnds) ==
    [limit |-> limit, board |-> isBoard, low |-> low, cards |-> cards, minBet |-> 1, minRaise |-> 1,
     maxRaises |-> 2, hands |-> hnds]
TwoVariants == (0 :> Variant(FALSE, TRUE, TRUE, 4, 1)) @@ (1 :> Variant(TRUE, FALSE, FALSE, 5, 2))
Rank(a, b, c) == (0 :> a) @@ (1 :> b) @@ (2 :> c)
SomeShowings == {[hi |-> Rank(2, 2, 1), lo |-> Rank(0, 1, 1)],
                 [hi |-> Rank(1, 2, 1), lo |-> Rank(0, 0, 0)],
                 [hi |-> Rank(1, 1, 1), lo |-> Rank(1, 1, 1)]}
===========================================================================
