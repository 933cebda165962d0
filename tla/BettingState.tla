----------------------------- MODULE BettingState -----------------------------
(***************************************************************************)
(* The solver's one-street betting engine (betting_state.c), the amounts   *)
(* its actions commit (actions.c) and the passage from one street to the   *)
(* next (holdem_round.c), as functions from a betting state to the next.   *)
(*                                                                         *)
(* Chips are integers: the code's doubles only meet sums and differences   *)
(* here, compared with a tolerance that whole chips do not need.  -1 is    *)
(* the code's "nobody".                                                    *)
(***************************************************************************)
EXTENDS Integers, FiniteSets

CONSTANT PlayerCount

ASSUME PlayerCountAssumption == PlayerCount \in 2..6

Player == 0..(PlayerCount - 1)
Nobody == -1

\* pe_action_t: a kind and, for bets and raises, how their size is given.
Fold  == [kind |-> "fold"]
Check == [kind |-> "check"]
Call  == [kind |-> "call"]
AllIn == [kind |-> "allin"]
Sized(kind, by, amount) == [kind |-> kind, by |-> by, amount |-> amount]
Sizes == {"chips", "pot", "minimum", "maximum"}
IsAction(a) ==
    \/ a \in {Fold, Check, Call, AllIn}
    \/ /\ a.kind \in {"bet", "raise"} /\ a.by \in Sizes /\ a.amount \in Nat
       /\ a = Sized(a.kind, a.by, a.amount)

\* pe_betting_rules_t and pe_betting_state_t.
Rulebooks == [min_raise : Nat \ {0}, raise_cap : Nat, pot_limit : BOOLEAN]
Bettings ==
    [to_act : Player \cup {Nobody}, active : [Player -> BOOLEAN],
     all_in : [Player -> BOOLEAN], acted : [Player -> BOOLEAN],
     stack : [Player -> Nat], round_contrib : [Player -> Nat],
     invested : [Player -> Nat], pot : Nat, to_call : Nat, current_bet : Nat,
     min_raise : Nat, raises_made : Nat, round_complete : BOOLEAN,
     terminal : BOOLEAN, winner : Player \cup {Nobody}]

\* The chips of all seats.  A table has at most six, so the sum is an
\* expression without recursion, which the provers can reason about.
Chips(amount) ==
    LET at(p) == IF p \in Player THEN amount[p] ELSE 0
    IN  at(0) + at(1) + at(2) + at(3) + at(4) + at(5)

------------------------------------------------------------------------------
\* Who may still act in the hand, and who owes an action in this round.
Active(b) == {p \in Player : b.active[p]}
Live(b)   == {p \in Active(b) : ~b.all_in[p]}
\* MUTANT of Owes: a matched bet is enough, acted or not.
OwesOnlyChips(b) == {p \in Live(b) : b.round_contrib[p] < b.to_call}

Owes(b)   == {p \in Live(b) : ~b.acted[p] \/ b.round_contrib[p] < b.to_call}

\* MUTANT of NextActor: a seat that is all in is not skipped.
NextActive(b, from) ==
    LET seat(k) == (from + k) % PlayerCount
        steps   == {k \in 1..PlayerCount : seat(k) \in Active(b)}
    IN  IF steps = {} THEN Nobody
        ELSE seat(CHOOSE k \in steps : \A j \in steps : k <= j)

\* The next live seat after `from`, which comes last itself.
NextActor(b, from) ==
    LET seat(k) == (from + k) % PlayerCount
        steps   == {k \in 1..PlayerCount : seat(k) \in Live(b)}
    IN  IF steps = {} THEN Nobody
        ELSE seat(CHOOSE k \in steps : \A j \in steps : k <= j)

\* finish_if_ready: one player left ends the hand, nobody owing the round.
FinishIfReady(b) ==
    IF Cardinality(Active(b)) <= 1
    THEN [b EXCEPT !.terminal = TRUE, !.round_complete = TRUE, !.to_act = Nobody,
                   !.winner = IF Active(b) = {} THEN Nobody ELSE CHOOSE p \in Active(b) : TRUE]
    ELSE IF Owes(b) = {} THEN [b EXCEPT !.round_complete = TRUE, !.to_act = Nobody]
    ELSE b

\* pe_betting_state_validate, less the checks of types.
Validate(b) ==
    /\ b.to_call <= b.current_bet
    /\ \A p \in Player : /\ b.stack[p] >= 0
                         /\ b.all_in[p] => b.stack[p] = 0
                         /\ b.round_contrib[p] <= b.invested[p]
    /\ b.terminal \/ b.round_complete \/ b.to_act # Nobody

------------------------------------------------------------------------------
\* What the actor must add to stay in.
Outstanding(b) ==
    IF b.to_call > b.round_contrib[b.to_act] THEN b.to_call - b.round_contrib[b.to_act] ELSE 0

\* pe_action_commitment: what a sized action adds above the call ...
Increment(b, a) ==
    CASE a.by = "chips"   -> a.amount
      [] a.by = "pot"     -> a.amount * b.pot
      [] a.by = "minimum" -> b.min_raise
      [] a.by = "maximum" -> b.stack[b.to_act] - Outstanding(b)

\* MUTANT of SizeAllowed: the stack is not looked at.
SizeBeyondStack(rules, b, a) ==
    /\ Increment(b, a) >= b.min_raise
    /\ rules.pot_limit => Increment(b, a) <= b.pot + Outstanding(b)

\* ... which must be a full raise within the stack and a pot limit.
SizeAllowed(rules, b, a) ==
    /\ Increment(b, a) >= b.min_raise
    /\ rules.pot_limit => Increment(b, a) <= b.pot + Outstanding(b)
    /\ Outstanding(b) + Increment(b, a) <= b.stack[b.to_act]

\* The chips an action moves.
Commitment(b, a) ==
    CASE a.kind \in {"fold", "check"} -> 0
      [] a.kind = "call"              -> Outstanding(b)
      [] a.kind = "allin"             -> b.stack[b.to_act]
      [] a.kind \in {"bet", "raise"}  -> Outstanding(b) + Increment(b, a)

\* MUTANT of MayReopen: the acted flag is not enforced.
AlwaysReopens(b) == TRUE

\* An actor who has acted since the last full raise may not raise again: a
\* short all-in leaves the acted flags standing.
MayReopen(b) == ~b.acted[b.to_act]

\* pe_betting_action_is_legal.
IsLegal(rules, b, a) ==
    /\ Validate(b) /\ ~b.terminal /\ ~b.round_complete
    /\ b.to_act \in Live(b)
    /\ \/ a.kind = "fold"
       \/ a.kind = "check" /\ Outstanding(b) = 0
       \/ a.kind = "call" /\ Outstanding(b) <= b.stack[b.to_act]
       \/ a.kind = "allin" /\ (b.stack[b.to_act] > Outstanding(b) => MayReopen(b))
       \/ /\ \/ a.kind = "bet" /\ b.to_call = 0
             \/ a.kind = "raise" /\ b.to_call > 0
          /\ rules.raise_cap > 0 => b.raises_made < rules.raise_cap
          /\ MayReopen(b)
          /\ SizeAllowed(rules, b, a)

------------------------------------------------------------------------------
\* MUTANT of Pay: the actor is not marked as having acted.
PayUnmarked(b, c) ==
    LET p == b.to_act
    IN  [b EXCEPT !.stack[p] = @ - c, !.round_contrib[p] = @ + c, !.invested[p] = @ + c,
                  !.pot = @ + c, !.all_in[p] = (b.stack[p] = c)]

\* The actor puts c chips in.
Pay(b, c) ==
    LET p == b.to_act
    IN  [b EXCEPT !.stack[p] = @ - c, !.round_contrib[p] = @ + c, !.invested[p] = @ + c,
                  !.pot = @ + c, !.all_in[p] = (b.stack[p] = c), !.acted[p] = TRUE]

\* A raise by less than min_raise is not a full one.
IsFullRaise(b, increment) == increment >= b.min_raise

\* A wager above the bet to call becomes that bet; a full raise also sets the
\* size of the next one and gives every other live player a new decision.
Raised(b, paid) ==
    LET p     == b.to_act
        level == paid.round_contrib[p]
        bet   == [paid EXCEPT !.to_call = level, !.current_bet = level]
    IN  IF level <= b.to_call THEN paid
        ELSE IF ~IsFullRaise(b, level - b.to_call) THEN bet
        ELSE [bet EXCEPT !.min_raise = level - b.to_call, !.raises_made = @ + 1,
                         !.acted = [q \in Player |-> @[q] /\ q \notin Live(bet) \ {p}]]

\* pe_betting_apply_action, for a legal action: what it does to the actor's
\* chips and to the bet, and then whose turn it is.
Moved(b, a) ==
    LET p == b.to_act
    IN  CASE a.kind = "fold" -> [b EXCEPT !.active[p] = FALSE, !.acted[p] = TRUE]
          [] a.kind \in {"check", "call"} -> Pay(b, Commitment(b, a))
          [] OTHER -> Raised(b, Pay(b, Commitment(b, a)))
ApplyAction(b, a) ==
    LET child == Moved(b, a)
    IN  FinishIfReady([child EXCEPT !.to_act = NextActor(child, b.to_act)])

------------------------------------------------------------------------------
\* pe_holdem_round_advance: a new street with nothing to call; nobody acts in
\* it when everybody left is all in.
Advance(rules, b, first) ==
    [b EXCEPT !.to_call = 0, !.current_bet = 0, !.min_raise = rules.min_raise,
              !.raises_made = 0, !.terminal = FALSE, !.winner = Nobody,
              !.round_complete = (Live(b) = {}),
              !.to_act = IF Live(b) = {} THEN Nobody ELSE first,
              !.acted = [p \in Player |-> FALSE],
              !.round_contrib = [p \in Player |-> 0]]

\* pe_betting_state_init: everybody has chips and owes a decision.
NewState(rules, stacks, first, pot, toCall) ==
    [to_act |-> first, active |-> [p \in Player |-> TRUE],
     all_in |-> [p \in Player |-> FALSE], acted |-> [p \in Player |-> FALSE],
     stack |-> stacks, round_contrib |-> [p \in Player |-> 0],
     invested |-> [p \in Player |-> 0], pot |-> pot, to_call |-> toCall,
     current_bet |-> toCall, min_raise |-> rules.min_raise, raises_made |-> 0,
     round_complete |-> FALSE, terminal |-> FALSE, winner |-> Nobody]

------------------------------------------------------------------------------
\* What every state has that the operations lead to: all in is to have nothing
\* left, nobody has put in more than the bet to call, and no raise is for nothing.
Sound(b) ==
    /\ b.current_bet = b.to_call /\ b.min_raise > 0
    /\ \A p \in Player : /\ b.all_in[p] <=> b.stack[p] = 0
                         /\ b.round_contrib[p] <= b.invested[p]
                         /\ b.round_contrib[p] <= b.to_call

\* Seats from a on, in the order in which they act.
Turns(a, p) == IF p >= a THEN p - a ELSE p - a + PlayerCount
===============================================================================
