----------------------------- MODULE HoldemBetting -----------------------------
(***************************************************************************)
(* The preflop game the sampled solver traverses (preflop_allin_game.c     *)
(* over preflop_betting.c): forced bets, the private deal, the actions     *)
(* offered at a decision, the streets that follow a finished round, and    *)
(* what the hand pays.                                                     *)
(*                                                                         *)
(* Cards appear only where they decide something: holes are dealt or not,  *)
(* a board is its street, and hands are compared by an arbitrary order.    *)
(* A tree that guides the game is the set of edges its nodes may carry and *)
(* the free choice where an edge leads: off the tree, or to a node that    *)
(* may belong to the player to act, to another seat or to another street.  *)
(***************************************************************************)
EXTENDS PotSlices, Sequences

CONSTANTS
    Games,      \* the rules a game may be created with
    Edges       \* what a tree's nodes may offer

ASSUME GamesAssumption ==
    \A g \in Games :
        /\ g.root_street \in 0..3
        /\ g.stacks \in [Player -> Nat \ {0}] /\ g.posts \in [Player -> Nat]
        /\ \A p \in Player : g.posts[p] <= g.stacks[p]
        /\ g.seated \in BOOLEAN /\ (g.seated => g.root_street = 0)
        /\ g.seated \/ \A p \in Player : g.posts[p] < g.stacks[p]
        /\ g.root_to_act \in Player
        /\ g.dead \in Nat /\ g.pot \in Nat /\ g.ante \in Nat
        /\ IF g.root_street = 0 THEN \E p \in Player : g.posts[p] > 0
           ELSE g.pot > 0 /\ \A p \in Player : g.posts[p] = 0
        /\ g.rules \in Rulebooks /\ g.raises \in Seq(Nat)
        /\ {g.nonallin_call, g.postflop, g.tree, g.tree_showdown} \subseteq BOOLEAN

ASSUME EdgesAssumption ==
    \A e \in Edges : IsAction(e) /\ e.kind \in {"fold", "call", "allin", "raise"}

VARIABLES
    game,       \* the rules in force
    betting,    \* state->betting
    street,     \* 0 preflop, 1 flop, 2 turn, 3 river
    is_chance,  \* cards come next
    dealt,      \* the holes are not empty
    on_tree,    \* tree_node_index names a node
    fit,        \* whose node that is: the player's to act, another's, a street's
    spoke,      \* who has acted since the bet to call last rose (ghost)
    capped,     \* who has acted since the last full raise (ghost)
    cut,        \* the tree ended the round, not the players (ghost)
    freely      \* somebody took a tree's fold where he owed nothing (ghost)

gameVars == <<betting, street, is_chance, dealt, on_tree, fit>>
vars == <<game, gameVars, spoke, capped, cut, freely>>

\* A node of the player who is to act on this street (or, while cards come,
\* of a player on the next one), another node of the street, one of another
\* street.  Off the tree the last stands for none.
Fits == {"node", "seat", "street"}
Landing(tree) == IF tree THEN Fits ELSE {"street"}

------------------------------------------------------------------------------
\* The root: the posts are invested, the largest is the bet to call.
RootBet(g) == IF g.root_street # 0 THEN 0 ELSE Max({g.posts[p] : p \in Player})

\* Seats whose post took everything are seated with a placeholder and put all
\* in afterwards.
CoveredByPost(g) == {p \in Player : g.posts[p] = g.stacks[p]}
\* MUTANT of StacksAfter: the placeholder stays in the stack.
StacksWithPlaceholder(g) ==
    [p \in Player |-> IF p \in CoveredByPost(g) THEN 1 ELSE g.stacks[p] - g.posts[p]]

StacksAfter(g) == [p \in Player |-> IF p \in CoveredByPost(g) THEN 0 ELSE g.stacks[p] - g.posts[p]]

\* Posts by seat: the first seat that is not all in opens, the minimum raise
\* is the live bet, and a lone player who has matched it decides nothing.
Seated(g, b) ==
    LET open    == {k \in 0..(PlayerCount - 1) : ~b.all_in[(g.root_to_act + k) % PlayerCount]}
        opener  == IF open = {} THEN g.root_to_act ELSE (g.root_to_act + Min(open)) % PlayerCount
        settled == \/ open = {}
                   \/ Cardinality(open) = 1 /\ g.posts[opener] >= b.to_call
    IN  [b EXCEPT !.to_act = IF settled THEN Nobody ELSE opener,
                  !.round_complete = settled,
                  !.min_raise = Max({@, b.to_call - g.ante})]

Root(g) ==
    LET posted == Chips(g.posts)
        new    == NewState(g.rules, StacksAfter(g), g.root_to_act, posted + g.dead + g.pot, RootBet(g))
        forced == [new EXCEPT !.round_contrib = g.posts, !.invested = g.posts,
                              !.all_in = [p \in Player |-> p \in CoveredByPost(g)]]
    IN  IF g.seated THEN Seated(g, forced) ELSE forced

Init ==
    /\ game \in Games
    /\ betting = Root(game)
    /\ street = game.root_street
    /\ is_chance = TRUE /\ dealt = FALSE
    /\ on_tree = game.tree
    /\ fit \in Landing(game.tree)
    /\ spoke = {} /\ capped = {} /\ cut = FALSE /\ freely = FALSE

------------------------------------------------------------------------------
\* Do finished rounds go on to the board, or straight to a sampled showdown?
HasBoard(g) == g.postflop \/ g.tree_showdown

\* preflop_is_terminal, with the wrapper that puts chance first.
IsTerminal ==
    ~is_chance /\ (betting.terminal \/ (betting.round_complete /\ ~HasBoard(game)))
Deciding == ~is_chance /\ ~IsTerminal

\* preflop_enumerate without a tree: fold or check, call, the raise sizes, all
\* in.  A plain call may be left out of the game, one that takes the whole
\* stack may not.
CallIsAllIn(b) == b.stack[b.to_act] <= Outstanding(b)
\* MUTANT of FoldsTo: a fold is offered where a check is free.
AlwaysFold(b) == Fold

FoldsTo(b) == IF Outstanding(b) > 0 THEN Fold ELSE Check
Candidates(g, b) ==
    <<FoldsTo(b)>>
    \o (IF Outstanding(b) > 0 /\ (g.nonallin_call \/ CallIsAllIn(b)) THEN <<Call>> ELSE <<>>)
    \o [i \in DOMAIN g.raises |-> Sized("raise", "chips", g.raises[i])]
    \o <<AllIn>>

\* Of two actions that commit the same chips the first one stays.
Generated(g, b) ==
    LET all   == Candidates(g, b)
        legal == {i \in DOMAIN all : IsLegal(g.rules, b, all[i])}
    IN  {all[i] : i \in {j \in legal :
            \A k \in legal : k < j => Commitment(b, all[k]) # Commitment(b, all[j])}}

\* tree_action_to_semantic_in_state: a call becomes a check when nothing is
\* owed and an all-in when it is more than the stack; a raise where nobody has
\* bet becomes a bet of as many chips as the size's number.  A fold stays a
\* fold, even where a check is free.
Opened(a) == Sized("bet", "chips", a.amount)
TreeAction(b, a) ==
    CASE a.kind = "call" /\ Outstanding(b) = 0                   -> Check
      [] a.kind = "call" /\ Outstanding(b) > b.stack[b.to_act] -> AllIn
      [] a.kind = "raise" /\ b.to_call = 0                       -> Opened(a)
      [] OTHER                                                   -> a
Guided(g, b) ==
    {a \in {TreeAction(b, e) : e \in Edges} : IsLegal(g.rules, b, a)}

\* A tree that does not fit leaves nothing to do before the flop, and the
\* generated actions after it.
Astray == on_tree /\ fit # "node" /\ street = 0
Offered ==
    IF on_tree /\ fit = "node" THEN Guided(game, betting)
    ELSE IF Astray THEN {} ELSE Generated(game, betting)

------------------------------------------------------------------------------
\* preflop_after_action on a tree that ends here: the round is over, whoever
\* still owes an action, and on the river so is the hand.
CutShort(b) ==
    IF b.terminal THEN b
    ELSE [b EXCEPT !.round_complete = TRUE, !.to_act = Nobody, !.terminal = (street = 3)]

\* ... and otherwise: a finished round on the river ends the hand.
RoundEnd(b) ==
    IF HasBoard(game) /\ b.round_complete /\ street = 3
    THEN [b EXCEPT !.terminal = TRUE, !.to_act = Nobody] ELSE b

\* MUTANT of CardsFollow: a finished hand is dealt on.
CardsFollowAlways(b) == HasBoard(game) /\ b.round_complete

CardsFollow(b) == HasBoard(game) /\ b.round_complete /\ ~b.terminal

Ghosts(a, child) ==
    LET p == betting.to_act
    IN  /\ spoke' = IF child.to_call > betting.to_call THEN {p} ELSE spoke \cup {p}
        /\ capped' = IF child.to_call - betting.to_call >= betting.min_raise
                     THEN {p} ELSE capped \cup {p}
        /\ freely' = (freely \/ (on_tree /\ fit = "node" /\ a = Fold /\ Outstanding(betting) = 0))

\* apply_action and after_action: a node of this street leads to another node
\* or ends; one of another street is left without a word.
Act(a) ==
    \E more \in (IF on_tree /\ fit # "street" THEN BOOLEAN ELSE {FALSE}) :
        LET child == ApplyAction(betting, a)
            ends  == on_tree /\ fit # "street" /\ ~more /\ game.tree_showdown
            after == IF ends THEN CutShort(child) ELSE RoundEnd(child)
        IN  /\ Validate(child)
            /\ on_tree' = more /\ fit' \in Landing(more)
            /\ betting' = after
            /\ is_chance' = CardsFollow(after)
            /\ cut' = (ends /\ ~child.round_complete)
            /\ Ghosts(a, child)
            /\ UNCHANGED <<game, street, dealt>>
Decide == Deciding /\ \E a \in Offered : Act(a)

\* preflop_chance_child, the private deal: a root without a decision goes on to
\* the board, or is over on the river.
Deal ==
    /\ is_chance /\ ~dealt
    /\ dealt' = TRUE
    /\ betting' = RoundEnd(betting)
    /\ is_chance' = CardsFollow(betting')
    /\ on_tree' = (on_tree /\ ~(HasBoard(game) /\ betting.round_complete))
    /\ fit' = IF on_tree' THEN fit ELSE "street"
    /\ UNCHANGED <<game, street, spoke, capped, cut, freely>>

\* The next street when the tree does not go there and showdown follows it:
\* the board is dealt out, without betting, until a node of the next street.
Ahead == on_tree /\ fit = "node"
RollOut ==
    /\ is_chance /\ dealt /\ game.tree_showdown /\ ~Ahead
    /\ street' = street + 1
    /\ is_chance' = (street + 1 # 3)
    /\ betting' = [betting EXCEPT !.to_act = Nobody, !.round_complete = TRUE,
                                  !.terminal = (street + 1 = 3)]
    /\ fit' \in Landing(on_tree)
    /\ UNCHANGED <<game, dealt, on_tree, spoke, capped, cut, freely>>

\* The next street with its own betting round: the lowest live seat opens, or
\* the one the tree names; a round without actors is complete at once.
FirstActors == IF Live(betting) = {} THEN {0}
               ELSE IF Ahead THEN Live(betting) ELSE {Min(Live(betting))}
NextStreet ==
    /\ is_chance /\ dealt /\ (game.tree_showdown => Ahead)
    /\ street' = street + 1
    /\ \E first \in FirstActors :
            betting' = [Advance(game.rules, betting, first) EXCEPT
                            !.terminal = (Live(betting) = {} /\ street + 1 = 3)]
    /\ is_chance' = (Live(betting) = {} /\ street + 1 # 3)
    /\ on_tree' = (on_tree /\ Live(betting) # {})
    /\ fit' \in IF on_tree' /\ Ahead THEN {"node"} ELSE Landing(on_tree') \ {"node"}
    /\ spoke' = {} /\ capped' = {} /\ cut' = FALSE
    /\ UNCHANGED <<game, dealt, freely>>

Next == Deal \/ Decide \/ RollOut \/ NextStreet
Spec == Init /\ [][Next]_vars

------------------------------------------------------------------------------
\* preflop_op_terminal_value: what the hand pays, before investments are taken
\* off; on the river even a hand that ended with a fold is paid by layers.
FoldedOut == betting.terminal /\ ~(HasBoard(game) /\ street = 3)
Payout(strength) == IF FoldedOut THEN FoldPayout(betting) ELSE LayeredPayout(betting, strength)
\* Every order of the hands, ties included: a hand's strength is how many it beats.
Strengths == {s \in [Player -> Player] : \A p \in Player : s[p] = Cardinality({q \in Player : s[q] < s[p]})}

BTypeOK ==
    /\ game \in Games /\ street \in 0..3
    /\ {is_chance, dealt, on_tree, cut, freely} \subseteq BOOLEAN
    /\ fit \in Landing(on_tree)
    /\ spoke \subseteq Player /\ capped \subseteq Player
    /\ betting \in Bettings

\* Chips not yet put in.
Behind(b) == Chips(b.stack)

\* No chip appears or disappears between the stacks and the pot, through forced
\* bets, all-ins from a post, every action and every street.
ChipsAreConserved ==
    betting.pot + Behind(betting)
        = game.dead + game.pot + Chips(game.stacks)

\* The player asked to act can act, and has not yet answered the bet that
\* stands: nobody is skipped into, and nobody is asked twice.
ActorOwesADecision ==
    Deciding => betting.to_act \in Live(betting) \ spoke

\* A round the players finished left nobody behind: every live player has acted
\* since the bet last rose and has matched it, so the big blind had its option
\* and a short all-in was called.
RoundIsSettled ==
    betting.round_complete /\ ~cut /\ spoke # {} /\ Cardinality(Active(betting)) > 1 =>
        \A p \in Live(betting) : p \in spoke /\ betting.round_contrib[p] = betting.to_call

\* Every decision offers something, except where a tree has gone astray before
\* the flop, and whatever it offers is carried out to a valid state: a traversal
\* never loses a child.
OfferedActionsApply ==
    Deciding => /\ Astray \/ Offered # {}
                /\ \A a \in Offered : Validate(ApplyAction(betting, a))

\* What folded players have put in beyond the deepest active stake: the layers
\* of the pot that nobody can win.
DeepestStake(b) == Max({b.invested[p] : p \in Active(b)})
Unclaimed(b) ==
    Chips([p \in Player |-> b.invested[p] - Min({b.invested[p], DeepestStake(b)})])

\* A finished hand pays out the pot, whatever the cards: a player left alone
\* before the river takes all of it, a showdown and the river all but what
\* nobody can win, and that is nothing unless a tree let a player fold for free.
PotIsPaidOut ==
    IsTerminal =>
        LET lost == IF FoldedOut THEN 0 ELSE Unclaimed(betting)
        IN  /\ freely \/ Unclaimed(betting) = 0
            /\ \A s \in Strengths :
                   LET payout == Payout(s)
                   IN  Chips(payout) = (betting.pot - lost) * Share

\* A player wins from each opponent at most what he put in himself, and a
\* player who folded wins nothing.  Only a free fold before the river, which
\* leaves the whole pot to a shorter stack, may give him more.
CoveredBy(p) ==
    IF ~betting.active[p] THEN 0
    ELSE Carried(betting)
         + Chips([q \in Player |-> Min({betting.invested[p], betting.invested[q]})])
NobodyWinsMoreThanCovered ==
    IsTerminal /\ (FoldedOut => ~freely) =>
        LET covered == [p \in Player |-> Share * CoveredBy(p)]
        IN  \A s \in Strengths :
                LET payout == Payout(s) IN \A p \in Player : payout[p] <= covered[p]

\* At a showdown the slices of pots.c and the layers of the preflop game pay
\* every player the same.  (Not so where a tree ended the round early: carried
\* money is then due to those who invested, or to everybody.)
SlicesPayTheSame ==
    IsTerminal /\ ~cut /\ Cardinality(Active(betting)) > 1 =>
        \A s \in Strengths : Awards(betting, s) = LayeredPayout(betting, s)

\* Who has acted since the last full raise does not raise again: a short all-in
\* reopens nothing (comment at betting_state.c:209).
ShortAllInReopensNothing ==
    [][Deciding /\ betting'.to_call > betting.to_call => betting.to_act \notin capped]_vars

\* Every hand ends: a step moves to a later street or, within one, puts chips
\* in, folds a player or answers for one, and none of this is undone.
Nearer(b, c) ==
    \/ Behind(c) < Behind(b)
    \/ /\ Behind(c) = Behind(b)
       /\ \/ Active(c) \subseteq Active(b) /\ Active(c) # Active(b)
          \/ Active(c) = Active(b) /\ Owes(c) \subseteq Owes(b) /\ Owes(c) # Owes(b)
EveryStepNearsTheEnd ==
    [][\/ street' > street
       \/ street' = street /\ ((~dealt /\ dealt') \/ Nearer(betting, betting'))]_vars

\* A tree edge means the same thing on any street (comment at
\* preflop_allin_game.c:222): where nobody has bet, the wager it becomes adds
\* what the size says.
TreeSizesKeepTheirMeaning ==
    Deciding /\ on_tree /\ fit = "node" =>
        \A e \in Edges : e.kind = "raise" =>
            Increment(betting, TreeAction(betting, e)) = Increment(betting, e)

\* The inductive invariant, in parts: the chips,
ChipInv == Sound(betting)

\* the acted flags and the contributions, which tell who has spoken since the bet rose.
AnswerInv ==
    /\ \A p \in Live(betting) : p \in spoke <=> p \notin Owes(betting)
    /\ \A p \in Live(betting) \cap capped : betting.acted[p]

\* Decisions, cards and the end exclude one another.
StageInv ==
    /\ ~dealt => is_chance /\ ~betting.terminal /\ spoke = {} /\ capped = {} /\ ~cut
    /\ dealt /\ is_chance =>
          street < 3 /\ betting.round_complete /\ ~betting.terminal /\ HasBoard(game)
    /\ ~is_chance /\ betting.round_complete /\ HasBoard(game) => betting.terminal
    /\ betting.terminal => betting.round_complete

\* In a round, whoever still has to speak comes before everybody who has spoken.
TurnInv ==
    ~betting.round_complete =>
        /\ betting.to_act \in Live(betting) \ spoke
        /\ \A p \in Live(betting) \cap spoke, q \in Live(betting) \ spoke :
               Turns(betting.to_act, q) < Turns(betting.to_act, p)

\* After one, unless a tree has ended it, nobody has to.
SettledInv ==
    betting.round_complete /\ ~cut /\ spoke # {} /\ Cardinality(Active(betting)) > 1 =>
        Owes(betting) = {}

\* Stacks only move into the pot.  Whoever may still act has put in at least as
\* much on the earlier streets as anybody, and an active player, all in or not,
\* has also matched the bet, so that nobody has put in more than he, unless a
\* tree let the last such player fold for free.
Before(b, p) == b.invested[p] - b.round_contrib[p]
Leads(b, p)  == \A q \in Player : Before(b, q) <= Before(b, p)
StakeInv ==
    /\ \A p \in Player : betting.invested[p] + betting.stack[p] = game.stacks[p]
    /\ \A p \in Live(betting) : Leads(betting, p)
    /\ \E p \in Active(betting) :
           freely \/ (Leads(betting, p) /\ betting.round_contrib[p] = betting.to_call)
    /\ betting.round_complete /\ ~cut /\ Cardinality(Active(betting)) > 1 =>
           \A p \in Live(betting) : betting.round_contrib[p] = betting.to_call
    /\ betting.terminal \/ Cardinality(Active(betting)) > 1
    /\ cut => ~on_tree /\ game.tree_showdown
    /\ FoldedOut => Active(betting) = {betting.winner}

BInductive ==
    BTypeOK /\ ChipInv /\ AnswerInv /\ StageInv /\ TurnInv /\ SettledInv /\ StakeInv
===============================================================================
