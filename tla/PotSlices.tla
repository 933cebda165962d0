------------------------------ MODULE PotSlices ------------------------------
(***************************************************************************)
(* How a pot is divided: pots.c, which the river solvers use, and the two  *)
(* payoff functions of the preflop game (preflop_allin_game.c), which cut  *)
(* the pot into layers once more on their own.                             *)
(*                                                                         *)
(* strength[p] orders the players' hands.  Payouts are counted in shares   *)
(* of a chip, so that equal parts are whole numbers.                       *)
(***************************************************************************)
EXTENDS BettingState, FiniteSetsExt, Sums

Share == 60   \* divisible by any number of winners

Levels(b)      == {b.invested[p] : p \in Player} \ {0}
Contributors(b, level) == {p \in Player : b.invested[p] >= level}
Below(b, level) == Max({0} \cup {l \in Levels(b) : l < level})
Invested(b)    == Chips(b.invested)
\* Chips that nobody invested: posts of nobody, or an earlier street's pot.
Carried(b)     == b.pot - Invested(b)

Layer(b, level) == (level - Below(b, level)) * Cardinality(Contributors(b, level))
Best(strength, S) == {p \in S : \A q \in S : strength[q] <= strength[p]}
Part(amount, winners, p) == IF p \in winners THEN (amount * Share) \div Cardinality(winners) ELSE 0

\* MUTANT of Slices: carried money is left out.
SlicesOfInvestments(b) ==
    [l \in Levels(b) |-> [amount |-> Layer(b, l), eligible |-> Contributors(b, l) \cap Active(b)]]

\* pe_pot_slices_build, a slice per level: carried money joins the lowest.
Slices(b) ==
    [l \in IF Levels(b) = {} THEN {0} ELSE Levels(b) |->
        IF Levels(b) = {} THEN [amount |-> b.pot, eligible |-> Active(b)]
        ELSE [amount |-> Layer(b, l) + (IF Below(b, l) = 0 THEN Carried(b) ELSE 0),
              eligible |-> Contributors(b, l) \cap Active(b)]]

\* pe_pot_distribute, with the best eligible hands as winners.
Awards(b, strength) ==
    LET slices == Slices(b)
    IN  [p \in Player |-> SumOf([l \in DOMAIN slices |->
            Part(slices[l].amount, Best(strength, slices[l].eligible), p)])]

\* MUTANT of LayerWinners: every active player takes part in every layer.
LayerOfAll(b, strength, level) == Best(strength, Active(b))

\* preflop_known_board_value: carried money is a pot of its own, for every
\* active player.  preflop_sampled_sidepot_value sums this over sampled boards.
LayerWinners(b, strength, level) == Best(strength, Contributors(b, level) \cap Active(b))
LayeredPayout(b, strength) ==
    [p \in Player |->
        SumOf([l \in Levels(b) |-> Part(Layer(b, l), LayerWinners(b, strength, l), p)])
        + Part(Carried(b), Best(strength, Active(b)), p)]

\* preflop_op_terminal_value of a hand that ended with a fold before the river.
FoldPayout(b) == [p \in Player |-> IF p = b.winner THEN b.pot * Share ELSE 0]
===============================================================================
