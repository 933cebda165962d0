---------------------------- MODULE MCHoldemBetting ----------------------------
(* HoldemBetting with values for TLC. *)
EXTENDS HoldemBetting

Three(a, b, c) == [p \in 0..2 |-> <<a, b, c>>[p + 1]]
Rules(min, cap, limit) == [min_raise |-> min, raise_cap |-> cap, pot_limit |-> limit]

\* Blinds of 1 and 2 with an ante behind them, a short stack and two deep ones,
\* all four streets.
Blinds == [root_street |-> 0, stacks |-> Three(8, 5, 11), posts |-> Three(1, 2, 1),
           seated |-> FALSE, root_to_act |-> 2, dead |-> 0, pot |-> 0, ante |-> 1,
           rules |-> Rules(2, 2, FALSE), raises |-> <<2, 3>>, nonallin_call |-> TRUE,
           postflop |-> TRUE, tree |-> FALSE, tree_showdown |-> FALSE]
\* Posts by seat with a straddle, a seat all in from its post and dead money;
\* the showdown is sampled.
Straddle == [Blinds EXCEPT !.stacks = Three(2, 6, 9), !.posts = Three(2, 2, 4),
             !.seated = TRUE, !.root_to_act = 0, !.dead = 3, !.ante = 0,
             !.rules = Rules(1, 0, FALSE), !.postflop = FALSE]
\* The one seat with chips behind has matched the largest post.
Settled == [Straddle EXCEPT !.posts = Three(2, 6, 6), !.postflop = TRUE]
\* All in or fold.
PushFold == [Blinds EXCEPT !.nonallin_call = FALSE, !.raises = <<>>, !.postflop = FALSE]
\* A flop root guided by a tree, then dealt out.
FlopTree == [Blinds EXCEPT !.root_street = 1, !.stacks = Three(3, 5, 8),
             !.posts = Three(0, 0, 0), !.ante = 0, !.root_to_act = 1, !.pot = 2,
             !.rules = Rules(1, 0, FALSE), !.tree = TRUE, !.tree_showdown = TRUE,
             !.postflop = FALSE]
\* A preflop tree whose later streets are generated.
PreflopTree == [Blinds EXCEPT !.stacks = Three(4, 3, 6), !.posts = Three(1, 1, 1),
                !.seated = TRUE, !.root_to_act = 0, !.ante = 0,
                !.rules = Rules(1, 0, FALSE), !.raises = <<1>>, !.tree = TRUE]
\* The same with two stacks that do not reach the big blind, who may fold for
\* nothing and leave a layer, or the whole pot, to them.
ShortStacksTree == [PreflopTree EXCEPT !.stacks = Three(1, 5, 1), !.posts = Three(1, 2, 0),
                                       !.root_to_act = 2]
SomeGames == {Blinds, Straddle, Settled, PushFold, FlopTree, PreflopTree, ShortStacksTree}
TreeGames == {FlopTree}
SomeEdges == {Fold, Call, AllIn, Sized("raise", "minimum", 0), Sized("raise", "chips", 2),
              Sized("raise", "pot", 1)}
PotEdges == {Fold, Call, Sized("raise", "pot", 1)}
===============================================================================
