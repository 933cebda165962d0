------------------------------ MODULE GameEngine ------------------------------
(***************************************************************************)
(* Hands played on the table engine (src/src/engine/game_engine.c) under   *)
(* the rotation of a mixed game (src/src/games/mixed_game.c).  The engine  *)
(* does not lead a hand: its caller sets it up, deals, lets the seat on    *)
(* turn act, skips a seat that cannot, and completes it.                   *)
(***************************************************************************)
EXTENDS Integers, FiniteSetsExt, Functions, Sums

CONSTANTS
    NumPlayers,
    StartStacks,        \* seat -> chips
    Blinds,             \* [small, big, ante]
    Variants,           \* 0..n -> [limit, board, low, cards, minBet, minRaise, maxRaises, hands]
    Rotations,          \* of "sequential", "random" and "choice"
    Showings,           \* [hi, lo]: the ranks of the hands that may be shown down
    MaxHands            \* BOUND: hands

Seat == 0..(NumPlayers - 1)
Bankroll == SumOf(StartStacks)
NotQualified == 0       \* rank of a low hand that does not qualify

ASSUME TableAssumption ==
    /\ NumPlayers \in Nat \ {0, 1} /\ StartStacks \in [Seat -> Nat]
    /\ Blinds.small \in Nat /\ Blinds.big \in Nat /\ Blinds.ante \in Nat
    /\ IsFiniteSet(DOMAIN Variants) /\ 0 \in DOMAIN Variants
    /\ DOMAIN Variants = 0..(Cardinality(DOMAIN Variants) - 1)
    /\ \A v \in DOMAIN Variants : Variants[v].hands \in Nat \ {0}
    /\ Rotations \subseteq {"sequential", "random", "choice"}
    /\ \A s \in Showings : s.hi \in [Seat -> Nat \ {0}] /\ s.lo \in [Seat -> Nat]
    /\ MaxHands \in Nat

VARIABLES
    stack, bet, invested,    \* players[].stack_size, bet_amount, total_investment
    active, folded, allIn,   \* the seats with is_active, has_folded, is_all_in
    pot, actor, raises,      \* pot_size, action_on_player, raises_this_round
    hole, board,             \* the seats with hole cards; num_community_cards_dealt
    shown, done,             \* showdown_reached, hand_complete
    variant,                 \* state->rules, as the variant they came from
    rotation,                \* mixed->rotation
    current, inCurrent,      \* mixed->current_index, hands_played_in_current
    filed,                   \* mixed->stats[].hands_played
    hands,                   \* hand_number
    gone                     \* chips that are in no stack and no pot any more

chipVars == <<stack, bet, invested, pot>>
seatVars == <<active, folded, allIn>>
cardVars == <<hole, board>>
mixedVars == <<rotation, current, inCurrent, filed>>
vars == <<chipVars, seatVars, cardVars, actor, raises, shown, done, variant, mixedVars,
          hands, gone>>

Rules == Variants[variant]
InHand == active \ folded
Next_(p) == (p + 1) % NumPlayers

Init ==
    /\ stack = StartStacks
    /\ bet = [p \in Seat |-> 0] /\ invested = [p \in Seat |-> 0]
    /\ pot = 0 /\ active = Seat /\ folded = {} /\ allIn = {}
    /\ actor = 0 /\ raises = 0 /\ hole = {} /\ board = 0
    /\ shown = FALSE /\ done = FALSE
    /\ rotation \in Rotations /\ variant = 0 /\ current = 0 /\ inCurrent = 0
    /\ filed = [v \in DOMAIN Variants |-> 0]
    /\ hands = 0 /\ gone = 0

(***************************************************************************)
(* Setting up and dealing                                                  *)
(***************************************************************************)

\* game_engine_is_hand_complete
IsHandComplete == Cardinality(InHand) <= 1 \/ done
Playing == hands > 0 /\ ~IsHandComplete

\* Two and three players: the button posts the small blind.
SmallBlind(button) == IF NumPlayers <= 3 THEN button ELSE Next_(button)
BigBlind(button) == Next_(SmallBlind(button))
FirstToAct(button) == IF NumPlayers = 2 THEN button ELSE Next_(BigBlind(button))

\* A blind or an ante is paid in full or not at all.
Post(chips, p, amount) == IF chips[p] >= amount THEN amount ELSE 0

\* game_engine_setup_hand.  A pot that was never paid out is dropped.
SetupHand(button) ==
    LET blind == [p \in Seat |->
                    CASE p = SmallBlind(button) -> Post(stack, p, Blinds.small)
                      [] p = BigBlind(button) -> Post(stack, p, Blinds.big)
                      [] OTHER -> 0]
        left == [p \in Seat |-> stack[p] - blind[p]]
        ante == [p \in Seat |-> IF stack[p] > 0 THEN Post(left, p, Blinds.ante) ELSE 0]
    IN /\ ~Playing /\ hands < MaxHands
       /\ variant' = current
       /\ active' = {p \in Seat : stack[p] > 0} /\ folded' = {} /\ allIn' = {}
       /\ bet' = blind
       /\ invested' = [p \in Seat |-> blind[p] + ante[p]]
       /\ stack' = [p \in Seat |-> left[p] - ante[p]]
       /\ pot' = SumOf(invested') /\ gone' = gone + pot
       /\ actor' = FirstToAct(button) /\ raises' = 0
       /\ hole' = {} /\ board' = 0 /\ shown' = FALSE /\ done' = FALSE
       /\ hands' = hands + 1
       /\ UNCHANGED mixedVars

DealHole ==
    /\ Playing /\ hole = {}
    /\ hole' = active
    /\ UNCHANGED <<chipVars, seatVars, board, actor, raises, shown, done, variant,
                   mixedVars, hands, gone>>

\* game_engine_deal_flop, _turn and _river
DealBoard ==
    /\ Playing /\ Rules.board /\ hole # {} /\ board < 5
    /\ board' = IF board = 0 THEN 3 ELSE board + 1
    /\ UNCHANGED <<chipVars, seatVars, hole, actor, raises, shown, done, variant,
                   mixedVars, hands, gone>>

(***************************************************************************)
(* Acting                                                                  *)
(***************************************************************************)

ToCall(p) == Max(Range(bet)) - bet[p]

LastRaise ==
    LET highest == Max(Range(bet))
    IN IF raises = 0 THEN 0 ELSE highest - Max({0} \cup {b \in Range(bet) : b < highest})

MinRaise(p) ==
    ToCall(p) + IF Rules.limit \/ LastRaise = 0 THEN Rules.minRaise ELSE LastRaise

CanAct(p) == p \in active /\ p \notin folded /\ p \notin allIn

\* Chips of the seat on turn go in; the seat may be all in after it.
PayUninvested(amount) ==   \* mutant: total_investment is left behind
    /\ bet' = [bet EXCEPT ![actor] = @ + amount]
    /\ stack' = [stack EXCEPT ![actor] = @ - amount]
    /\ pot' = pot + amount
    /\ allIn' = IF amount = stack[actor] THEN allIn \cup {actor} ELSE allIn
    /\ UNCHANGED <<invested, active, folded>>
Pay(amount) ==
    /\ bet' = [bet EXCEPT ![actor] = @ + amount]
    /\ stack' = [stack EXCEPT ![actor] = @ - amount]
    /\ invested' = [invested EXCEPT ![actor] = @ + amount]
    /\ pot' = pot + amount
    /\ allIn' = IF amount = stack[actor] THEN allIn \cup {actor} ELSE allIn
    /\ UNCHANGED <<active, folded>>

\* game_engine_advance_action: the next seat that is in the hand, all in or not
Advance ==
    LET stays == active' \ folded'
        Seated(i) == (actor + i) % NumPlayers
    IN IF stays = {} THEN done' = TRUE /\ UNCHANGED actor
       ELSE /\ actor' = Seated(Min({i \in 1..NumPlayers : Seated(i) \in stays}))
            /\ UNCHANGED done

Fold ==
    /\ folded' = folded \cup {actor} /\ active' = active \ {actor}
    /\ UNCHANGED <<chipVars, allIn, raises>>

\* A seat that has put nothing in may check, whatever the others have bet.
Check ==
    /\ bet[actor] = 0 \/ ToCall(actor) = 0
    /\ UNCHANGED <<chipVars, seatVars, raises>>

Call ==
    /\ ToCall(actor) > 0
    /\ Pay(Min({ToCall(actor), stack[actor]}))
    /\ UNCHANGED raises

BetChips(amount) ==
    /\ bet[actor] = 0 /\ amount >= Rules.minBet
    /\ Pay(amount)
    /\ UNCHANGED raises

Raise(amount) ==
    /\ ToCall(actor) > 0 /\ amount >= MinRaise(actor) /\ raises < Rules.maxRaises
    /\ Pay(amount)
    /\ raises' = raises + 1

\* An all-in is no raise, whatever it raises to.
AllIn == stack[actor] > 0 /\ Pay(stack[actor]) /\ UNCHANGED raises

\* game_engine_execute_action of a legal action, once the hole cards are dealt
Act ==
    /\ Playing /\ hole # {} /\ CanAct(actor)
    /\ \/ Fold \/ Check \/ Call \/ AllIn
       \/ \E amount \in 1..stack[actor] : BetChips(amount) \/ Raise(amount)
    /\ Advance
    /\ UNCHANGED <<cardVars, shown, variant, mixedVars, hands, gone>>

\* The caller moves on from a seat that cannot act (game_engine_advance_action).
Skip ==
    /\ Playing /\ ~CanAct(actor)
    /\ UNCHANGED seatVars
    /\ Advance
    /\ UNCHANGED <<chipVars, cardVars, raises, shown, variant, mixedVars, hands, gone>>

(***************************************************************************)
(* Completing                                                              *)
(***************************************************************************)

\* Five cards to evaluate, or a flop
Shows(p) == p \in InHand \cap hole /\ IF Rules.board THEN board >= 3 ELSE Rules.cards >= 5
High(showing, p) == IF Shows(p) THEN showing.hi[p] ELSE 0
Low(showing, p) == IF Shows(p) /\ Rules.low THEN showing.lo[p] ELSE NotQualified

Levels == Range(invested) \ {0}
Contributors(level) == {p \in Seat : invested[p] >= level}
Layer(level) == (level - Max({0} \cup {l \in Levels : l < level}))
                    * Cardinality(Contributors(level))
EveryContributor(level) == Contributors(level)   \* mutant: folded seats take part
Eligible(level) == Contributors(level) \cap InHand

HighWinners(showing, S) ==
    {p \in S : \A q \in S : High(showing, q) <= High(showing, p)}
LowWinners(showing, S) ==
    LET low == {p \in S : Low(showing, p) # NotQualified}
    IN {p \in low : \A q \in low : Low(showing, p) <= Low(showing, q)}

\* The exchange sort of the seats by what they have invested, after k of its
\* comparisons: position i with each position j.  It is not a stable sort.
Investors == {p \in Seat : invested[p] > 0}
InSeatOrder ==
    [i \in 0..(Cardinality(Investors) - 1) |->
        CHOOSE p \in Investors : Cardinality({q \in Investors : q < p}) = i]
Exchanged(s, i, j) ==
    IF i < j /\ invested[s[i]] > invested[s[j]]
    THEN [s EXCEPT ![i] = s[j], ![j] = s[i]] ELSE s
SortedSeats ==
    LET n == Cardinality(Investors)
        sorted[k \in Nat] ==
            IF k = 0 THEN InSeatOrder
            ELSE Exchanged(sorted[k - 1], (k - 1) \div n, (k - 1) % n)
    IN sorted[n * n]

\* Equal shares; the odd chips go to the first winners in the order of the sort.
Place(seats, p) == CHOOSE i \in DOMAIN seats : seats[i] = p
Share(amount, winners, seats, p) ==
    IF p \notin winners THEN 0
    ELSE LET n == Cardinality(winners)
             ahead == {q \in winners : Place(seats, q) < Place(seats, p)}
         IN amount \div n + (IF Cardinality(ahead) < amount % n THEN 1 ELSE 0)

\* One level of the pot: the low hand takes half and the odd chip of it.
Take(showing, seats, level, p) ==
    LET S == Eligible(level)
        low == LowWinners(showing, S)
        half == Layer(level) \div 2
    IN IF low = {} THEN Share(Layer(level), HighWinners(showing, S), seats, p)
       ELSE Share(half, HighWinners(showing, S), seats, p)
              + Share(Layer(level) - half, low, seats, p)

\* mixed_game_record_result and mixed_game_advance
FileThenAdvance ==
    LET played == inCurrent + 1
        n == Cardinality(DOMAIN Variants)
    IN /\ filed' = [filed EXCEPT ![current] = @ + 1]
       /\ UNCHANGED rotation
       /\ CASE rotation = "sequential" ->
                 IF played >= Variants[current].hands
                 THEN current' = (current + 1) % n /\ inCurrent' = 0
                 ELSE inCurrent' = played /\ UNCHANGED current
            [] rotation = "random" -> current' \in DOMAIN Variants /\ inCurrent' = 0
            [] OTHER -> inCurrent' = played /\ UNCHANGED current

\* game_engine_distribute_pot; with nothing invested the rotation stands still
Distribute(showing) ==
    /\ done' = TRUE
    /\ IF Levels = {} THEN UNCHANGED <<stack, pot, gone, mixedVars>>
       ELSE LET seats == SortedSeats
                won == [p \in Seat |-> SumOf([l \in Levels |-> Take(showing, seats, l, p)])]
            IN   /\ stack' = [p \in Seat |-> stack[p] + won[p]]
                 /\ pot' = 0 /\ gone' = gone + pot - SumOf(won)
                 /\ FileThenAdvance

\* game_engine_complete_hand.  A showdown without a hand to show fails, and
\* counts as reached: the next call pays the pot.
CompleteHand ==
    /\ hands > 0 /\ ~done
    /\ Cardinality(InHand) <= 1 \/ board = 5 \/ ~Rules.board
    /\ shown' = TRUE
    /\ \/ /\ ~shown /\ \A p \in Seat : ~Shows(p)
          /\ UNCHANGED <<stack, pot, done, gone, mixedVars>>
       \/ /\ shown \/ \E p \in Seat : Shows(p)
          /\ \E showing \in Showings : Distribute(showing)
    /\ UNCHANGED <<bet, invested, seatVars, cardVars, actor, raises, variant, hands>>

\* game_engine_choose_mixed_variant, between two hands
ChooseVariant ==
    /\ rotation = "choice" /\ (hands = 0 \/ done) /\ hands < MaxHands
    /\ current' \in DOMAIN Variants \ {current}
    /\ inCurrent' = 0
    /\ UNCHANGED <<chipVars, seatVars, cardVars, actor, raises, shown, done, variant,
                   rotation, filed, hands, gone>>

Next ==
    \/ \E button \in Seat : SetupHand(button)
    \/ DealHole \/ DealBoard \/ Act \/ Skip \/ CompleteHand \/ ChooseVariant

Spec == Init /\ [][Next]_vars

(***************************************************************************)
(* Properties                                                              *)
(***************************************************************************)

\* Types.
GTypeOK ==
    /\ stack \in [Seat -> Nat] /\ bet \in [Seat -> Nat] /\ invested \in [Seat -> Nat]
    /\ active \subseteq Seat /\ folded \subseteq Seat /\ allIn \subseteq active
    /\ pot \in Nat /\ gone \in Nat /\ actor \in Seat
    /\ board \in {0, 3, 4, 5} /\ hole \subseteq Seat /\ {shown, done} \subseteq BOOLEAN
    /\ {current, variant} \subseteq DOMAIN Variants /\ rotation \in Rotations
    /\ filed \in [DOMAIN Variants -> Nat] /\ {raises, inCurrent, hands} \subseteq Nat

\* The accounts of the table: what the seats have put in is what is in the pot
\* until the hand is done, whatever sequence of posts, short calls and all-ins
\* led there, and no chip is made out of nothing.
Accounts ==
    /\ pot = IF done THEN 0 ELSE SumOf(invested)
    /\ SumOf(stack) + pot + gone = Bankroll

\* A hand is played by the rules of the variant on turn, and a sequential
\* rotation does not play a variant longer than it should.
RotationOK ==
    /\ hands > 0 /\ ~done => variant = current
    /\ rotation = "sequential" => inCurrent < Variants[current].hands

\* The three together are inductive.
GInductive == GTypeOK /\ Accounts /\ RotationOK

\* When a hand is paid, over all levels and both halves: nobody who has folded
\* wins, nobody wins more than his investment covers, every chip is paid that
\* is not above what the deepest seat left in the hand has put in, and the
\* result is filed once, under the variant whose rules the hand was played by.
Covered(p) == SumOf([q \in Seat |-> Min({invested[p], invested[q]})])
Uncontested ==
    LET deepest == Max({0} \cup {invested[p] : p \in InHand})
    IN SumOf([q \in Seat |-> Max({0, invested[q] - deepest})])
AwardIsExact ==
    [][(~done /\ done' /\ pot > 0) =>
        /\ \A p \in Seat : /\ stack'[p] >= stack[p]
                           /\ stack'[p] > stack[p] => p \in InHand
                           /\ stack'[p] - stack[p] <= Covered(p)
        /\ SumOf(stack') = SumOf(stack) + pot - Uncontested
        /\ filed' = [filed EXCEPT ![variant] = @ + 1]]_vars
==============================================================================
