-------------------------- MODULE HoldemBettingProofs --------------------------
(***************************************************************************)
(* The preflop game keeps its chips, asks the right player, closes its     *)
(* rounds when it should and ends, for every game it can be created with   *)
(* and every tree that guides it.                                          *)
(*                                                                         *)
(* The invariant BInductive is shown for the root and then for every step: *)
(* one lemma per action.  What an action of a player does to the betting   *)
(* state comes from BettingStateProofs.                                    *)
(***************************************************************************)
EXTENDS HoldemBetting, BettingStateProofs, SumsProofs, SequenceTheorems

\* A set of seats has a first one.
LEMMA FirstSeat ==
  ASSUME NEW T, T \subseteq Player, T # {}
  PROVE  Min(T) \in T
<1>1. T \subseteq 0..5
  BY PlayerCountAssumption DEF Player
<1>2. \E k \in T : \A j \in T : k <= j
  <2>1. CASE 0 \in T
    BY <1>1, <2>1
  <2>2. CASE 1 \in T /\ 0 \notin T
    BY <1>1, <2>2
  <2>3. CASE 2 \in T /\ 0 \notin T /\ 1 \notin T
    BY <1>1, <2>3
  <2>4. CASE 3 \in T /\ 0 \notin T /\ 1 \notin T /\ 2 \notin T
    BY <1>1, <2>4
  <2>5. CASE 4 \in T /\ 0 \notin T /\ 1 \notin T /\ 2 \notin T /\ 3 \notin T
    BY <1>1, <2>5
  <2>6. CASE 5 \in T /\ 0 \notin T /\ 1 \notin T /\ 2 \notin T /\ 3 \notin T /\ 4 \notin T
    BY <1>1, <2>6
  <2>7. 0 \in T \/ 1 \in T \/ 2 \in T \/ 3 \in T \/ 4 \in T \/ 5 \in T
    <3>1. PICK k \in 0..5 : k \in T
      BY <1>1
    <3>2. k = 0 \/ k = 1 \/ k = 2 \/ k = 3 \/ k = 4 \/ k = 5
      OBVIOUS
    <3> QED
      BY <3>1, <3>2
  <2> QED
    BY <2>1, <2>2, <2>3, <2>4, <2>5, <2>6, <2>7
<1> QED
  BY <1>2 DEF Min

\* The posts have a largest one.
LEMMA LargestPost ==
  ASSUME NEW f \in [Player -> Nat]
  PROVE  /\ Max({f[p] : p \in Player}) \in Nat
         /\ \A p \in Player : f[p] <= Max({f[q] : q \in Player})
         /\ \E p \in Player : f[p] = Max({f[q] : q \in Player})
<1> DEFINE T == {f[p] : p \in Player}
           upTo(k) == \E p \in Player : \A q \in Player : q <= k => f[q] <= f[p]
<1>1. Player = 0..(PlayerCount - 1) /\ PlayerCount \in 2..6 /\ 0 \in Player /\ 1 \in Player
  BY PlayerCountAssumption DEF Player
<1>2. \A p \in Player : f[p] \in Nat
  OBVIOUS
<1>3. upTo(0)
  BY <1>1, <1>2
<1>4. \A k \in 0..4 : upTo(k) => upTo(k + 1)
  <2> SUFFICES ASSUME NEW k \in 0..4, upTo(k) PROVE upTo(k + 1)
    OBVIOUS
  <2>1. PICK p \in Player : \A q \in Player : q <= k => f[q] <= f[p]
    OBVIOUS
  <2>2. \A q \in Player : q <= k + 1 => q <= k \/ q = k + 1
    BY <1>1
  <2>3. CASE k + 1 \in Player /\ f[k + 1] > f[p]
    BY <1>2, <2>1, <2>2, <2>3
  <2>4. CASE ~(k + 1 \in Player /\ f[k + 1] > f[p])
    BY <1>2, <2>1, <2>2, <2>4
  <2> QED
    BY <2>3, <2>4
<1> HIDE DEF upTo
<1>5. upTo(5)
  <2>1. upTo(0 + 1) /\ 0 + 1 = 1
    BY <1>3, <1>4
  <2>2. upTo(1 + 1) /\ 1 + 1 = 2
    BY <1>4, <2>1
  <2>3. upTo(2 + 1) /\ 2 + 1 = 3
    BY <1>4, <2>2
  <2>4. upTo(3 + 1) /\ 3 + 1 = 4
    BY <1>4, <2>3
  <2>5. upTo(4 + 1) /\ 4 + 1 = 5
    BY <1>4, <2>4
  <2> QED
    BY <2>5
<1>6. \E x \in T : \A y \in T : x >= y
  <2>1. PICK p \in Player : \A q \in Player : q <= 5 => f[q] <= f[p]
    BY <1>5 DEF upTo
  <2>2. \A q \in Player : q <= 5
    BY <1>1
  <2>3. \A q \in Player : f[q] <= f[p] /\ f[q] \in Nat
    BY <1>2, <2>1, <2>2
  <2> QED
    BY <2>3
<1>7. Max(T) \in T /\ \A y \in T : Max(T) >= y
  BY <1>6 DEF Max
<1> QED
  BY <1>2, <1>7

\* The larger of two numbers.
LEMMA MaxOfTwo ==
  ASSUME NEW x \in Int, NEW y \in Int
  PROVE  Max({x, y}) \in {x, y} /\ Max({x, y}) >= x /\ Max({x, y}) >= y
<1>1. \E z \in {x, y} : \A w \in {x, y} : z >= w
  OBVIOUS
<1> QED
  BY <1>1 DEF Max

\* How many players are left is a number.
LEMMA ActiveCount ==
  ASSUME NEW b
  PROVE  Cardinality(Active(b)) \in Nat /\ IsFiniteSet(Active(b))
<1>1. Player \subseteq 0..5 /\ Active(b) \subseteq 0..5
  BY PlayerCountAssumption DEF Player, Active
<1>2. IsFiniteSet(0..5)
  <2>1. 0 \in Int /\ 5 \in Int
    OBVIOUS
  <2> QED
    BY <2>1, FS_Interval, Zenon
<1>3. IsFiniteSet(Active(b))
  BY <1>1, <1>2, FS_Subset
<1> QED
  BY <1>3, FS_CardinalityType

------------------------------------------------------------------------------
\* Every game starts with a sound betting state, all chips in stacks or pot,
\* and unless its round is over with an opener who has chips.
LEMMA RootFacts ==
  ASSUME NEW g \in Games, NEW r, r = Root(g)
  PROVE  /\ r \in Bettings /\ Sound(r) /\ ~r.terminal
         /\ \A p \in Player : ~r.acted[p]
         /\ r.round_complete \/ r.to_act \in Live(r)
         /\ r.pot + Chips(r.stack) = g.dead + g.pot + Chips(g.stacks)
         /\ r.round_contrib = g.posts /\ r.invested = g.posts /\ g.posts \in [Player -> Nat]
         /\ \A p \in Player : r.active[p] /\ g.posts[p] + r.stack[p] = g.stacks[p]
         /\ \E p \in Player : g.posts[p] = r.to_call
         /\ r.round_complete => \A p \in Live(r) : r.round_contrib[p] = r.to_call
<1> DEFINE posted == Chips(g.posts)
           new    == NewState(g.rules, StacksAfter(g), g.root_to_act, posted + g.dead + g.pot, RootBet(g))
           forced == [new EXCEPT !.round_contrib = g.posts, !.invested = g.posts,
                                 !.all_in = [p \in Player |-> p \in CoveredByPost(g)]]
<1>1. /\ g.stacks \in [Player -> Nat \ {0}] /\ g.posts \in [Player -> Nat]
      /\ \A p \in Player : g.posts[p] <= g.stacks[p]
      /\ g.seated \in BOOLEAN /\ (g.seated => g.root_street = 0)
      /\ g.seated \/ \A p \in Player : g.posts[p] < g.stacks[p]
      /\ g.root_to_act \in Player
      /\ g.dead \in Nat /\ g.pot \in Nat /\ g.ante \in Nat
      /\ g.root_street # 0 => \A p \in Player : g.posts[p] = 0
      /\ g.rules \in Rulebooks
  BY GamesAssumption
<1>2. /\ RootBet(g) \in Nat /\ \A p \in Player : g.posts[p] <= RootBet(g)
      /\ \E p \in Player : g.posts[p] = RootBet(g)
  BY <1>1, LargestPost DEF RootBet
<1>3. posted \in Nat
  BY <1>1, ChipsType
<1>4. /\ StacksAfter(g) \in [Player -> Nat]
      /\ \A p \in Player : /\ StacksAfter(g)[p] = g.stacks[p] - g.posts[p]
                           /\ p \in CoveredByPost(g) <=> StacksAfter(g)[p] = 0
  BY <1>1 DEF StacksAfter, CoveredByPost
<1>5. Chips(StacksAfter(g)) = Chips(g.stacks) - posted
  BY <1>1, <1>4, ChipsSubtract
<1>6. Chips(g.stacks) \in Int
  <2>1. g.stacks \in [Player -> Nat]
    BY <1>1
  <2> QED
    BY <2>1, ChipsType
<1>7. g.rules.min_raise \in Nat /\ g.rules.min_raise > 0
  BY <1>1 DEF Rulebooks
<1> HIDE DEF posted
<1>8. /\ forced.to_act = g.root_to_act /\ forced.active = [p \in Player |-> TRUE]
      /\ forced.all_in = [p \in Player |-> p \in CoveredByPost(g)]
      /\ forced.acted = [p \in Player |-> FALSE] /\ forced.stack = StacksAfter(g)
      /\ forced.round_contrib = g.posts /\ forced.invested = g.posts
      /\ forced.pot = posted + g.dead + g.pot /\ forced.to_call = RootBet(g)
      /\ forced.current_bet = RootBet(g) /\ forced.min_raise = g.rules.min_raise
      /\ forced.raises_made = 0 /\ forced.round_complete = FALSE
      /\ forced.terminal = FALSE /\ forced.winner = Nobody
  BY DEF NewState
<1>9. forced \in Bettings
  <2>1. [p \in Player |-> p \in CoveredByPost(g)] \in [Player -> BOOLEAN]
    <3>1. \A p \in Player : (p \in CoveredByPost(g)) \in BOOLEAN
      OBVIOUS
    <3> QED
      BY <3>1, Zenon
  <2>2. new \in Bettings
    BY <1>1, <1>2, <1>3, <1>4, <1>7 DEF NewState, Bettings
  <2>3. \A e \in Bettings, f \in [Player -> Nat], h \in [Player -> BOOLEAN] :
           [e EXCEPT !.round_contrib = f, !.invested = f, !.all_in = h] \in Bettings
    BY DEF Bettings
  <2> HIDE DEF new
  <2> QED
    BY <1>1, <2>1, <2>2, <2>3
<1> HIDE DEF forced
<1>10. Sound(forced)
  <2>1. ASSUME NEW p \in Player
        PROVE  forced.all_in[p] <=> forced.stack[p] = 0
    <3>1. forced.all_in[p] = (p \in CoveredByPost(g)) /\ forced.stack[p] = StacksAfter(g)[p]
      BY <1>8
    <3> QED
      BY <1>4, <3>1
  <2>2. \A p \in Player : /\ forced.round_contrib[p] <= forced.invested[p]
                          /\ forced.round_contrib[p] <= forced.to_call
    BY <1>1, <1>2, <1>8
  <2> QED
    BY <1>7, <1>8, <2>1, <2>2 DEF Sound
<1>11. forced.pot + Chips(forced.stack) = g.dead + g.pot + Chips(g.stacks)
  BY <1>1, <1>3, <1>5, <1>6, <1>8
<1>12. \A p \in Player : p \in Live(forced) <=> ~forced.all_in[p]
  BY <1>8 DEF Live, Active
<1>15. \A p \in Player : forced.active[p] /\ g.posts[p] + forced.stack[p] = g.stacks[p]
  BY <1>1, <1>4, <1>8
<1>13. CASE ~g.seated
  <2>1. r = forced
    BY <1>13, <1>8 DEF Root, forced, posted
  <2>2. g.root_to_act \in Live(forced)
    BY <1>1, <1>8, <1>12, <1>13 DEF CoveredByPost
  <2> QED
    BY <1>1, <1>2, <1>8, <1>9, <1>10, <1>11, <1>15, <2>1, <2>2
<1>14. CASE g.seated
  <2> DEFINE open    == {k \in 0..(PlayerCount - 1) : ~forced.all_in[(g.root_to_act + k) % PlayerCount]}
             opener  == IF open = {} THEN g.root_to_act ELSE (g.root_to_act + Min(open)) % PlayerCount
             settled == \/ open = {}
                        \/ Cardinality(open) = 1 /\ g.posts[opener] >= forced.to_call
             raise   == Max({forced.min_raise, forced.to_call - g.ante})
  <2>1. r = [forced EXCEPT !.to_act = IF settled THEN Nobody ELSE opener,
                           !.round_complete = settled, !.min_raise = raise]
    BY <1>14 DEF Root, Seated, forced, posted
  <2>2. settled \in BOOLEAN
    OBVIOUS
  <2>3. raise \in Nat /\ raise > 0
    <3>1. /\ forced.min_raise \in Int /\ forced.min_raise > 0
          /\ forced.to_call - g.ante \in Int
      BY <1>1, <1>2, <1>7, <1>8
    <3>2. raise \in Int /\ raise >= forced.min_raise
      BY <3>1, MaxOfTwo
    <3> QED
      BY <3>1, <3>2
  <2>4. \A k \in 0..(PlayerCount - 1) : (g.root_to_act + k) % PlayerCount \in Player
    <3>1. g.root_to_act \in Player
      BY <1>1
    <3> QED
      BY <3>1, PlayerCountAssumption DEF Player
  <2>5. open # {} => Min(open) \in open
    BY FirstSeat DEF Player
  <2>6. opener \in Player /\ (~settled => opener \in Live(forced))
    BY <1>1, <1>12, <2>4, <2>5
  <2>10. ASSUME settled, NEW p \in Live(forced) PROVE g.posts[p] = RootBet(g)
    <3>1. p \in Player /\ ~forced.all_in[p] /\ g.root_to_act \in Player
      BY <1>1, <1>12 DEF Live, Active
    <3>2. PICK k \in 0..(PlayerCount - 1) : (g.root_to_act + k) % PlayerCount = p
      <4>1. /\ Turns(g.root_to_act, p) \in 0..(PlayerCount - 1)
            /\ (g.root_to_act + Turns(g.root_to_act, p)) % PlayerCount = p
        BY <3>1, PlayerCountAssumption DEF Player, Turns
      <4> QED
        BY <4>1
    <3>3. k \in open
      BY <3>1, <3>2
    <3>4. Cardinality(open) = 1 /\ g.posts[opener] >= forced.to_call
      BY <2>10, <3>3
    <3>5. IsFiniteSet(open)
      <4>1. 0 \in Int /\ PlayerCount - 1 \in Int
        BY PlayerCountAssumption
      <4>2. IsFiniteSet(0..(PlayerCount - 1))
        BY <4>1, FS_Interval
      <4> QED
        BY <4>2, FS_Subset
    <3>6. PICK x : open = {x}
      <4> HIDE DEF open
      <4> QED
        BY <3>4, <3>5, FS_Singleton
    <3>7. Min(open) = k /\ opener = p
      <4> HIDE DEF open
      <4> QED
        BY <2>5, <3>2, <3>3, <3>6
    <3> QED
      BY <1>1, <1>2, <1>8, <3>1, <3>4, <3>7
  <2> HIDE DEF open, opener, settled, raise
  <2>7. /\ r \in Bettings
        /\ r.min_raise = raise /\ r.round_complete = settled
        /\ r.to_act = (IF settled THEN Nobody ELSE opener)
        /\ r.terminal = forced.terminal /\ r.acted = forced.acted /\ r.pot = forced.pot
        /\ r.stack = forced.stack /\ r.all_in = forced.all_in /\ r.active = forced.active
        /\ r.round_contrib = forced.round_contrib /\ r.invested = forced.invested
        /\ r.to_call = forced.to_call /\ r.current_bet = forced.current_bet
    BY <1>9, <2>1, <2>2, <2>3, <2>6 DEF Bettings, SameHand
  <2>8. Sound(r)
    BY <1>10, <2>3, <2>7 DEF Sound
  <2>9. Live(r) = Live(forced)
    BY <2>7 DEF Live, Active
  <2> QED
    BY <1>1, <1>2, <1>8, <1>11, <1>15, <2>2, <2>6, <2>7, <2>8, <2>9, <2>10
<1> QED
  BY <1>13, <1>14

\* The invariant holds at the root.
LEMMA RootInductive ==
  ASSUME Init
  PROVE  BInductive /\ ChipsAreConserved
<1>1. /\ game \in Games /\ betting = Root(game) /\ street = game.root_street
      /\ is_chance = TRUE /\ dealt = FALSE /\ on_tree = game.tree
      /\ fit \in Landing(on_tree)
      /\ spoke = {} /\ capped = {} /\ cut = FALSE /\ freely = FALSE
  BY DEF Init
<1>2. /\ betting \in Bettings /\ Sound(betting) /\ ~betting.terminal
      /\ \A p \in Player : ~betting.acted[p]
      /\ betting.round_complete \/ betting.to_act \in Live(betting)
      /\ betting.pot + Chips(betting.stack) = game.dead + game.pot + Chips(game.stacks)
      /\ betting.round_contrib = game.posts /\ betting.invested = game.posts
      /\ game.posts \in [Player -> Nat]
      /\ \A p \in Player : betting.active[p] /\ game.posts[p] + betting.stack[p] = game.stacks[p]
      /\ \E p \in Player : game.posts[p] = betting.to_call
      /\ betting.round_complete => \A p \in Live(betting) : betting.round_contrib[p] = betting.to_call
  BY <1>1, RootFacts
<1>3. BTypeOK
  BY <1>1, <1>2, GamesAssumption DEF BTypeOK
<1>4. AnswerInv
  BY <1>1, <1>2 DEF AnswerInv, Owes, Live, Active
<1>5. StageInv
  BY <1>1, <1>2 DEF StageInv
<1>6. TurnInv
  BY <1>1, <1>2 DEF TurnInv
<1>7. SettledInv
  BY <1>1 DEF SettledInv
<1>8. StakeInv
  <2>1. \A p \in Player : Before(betting, p) = 0
    BY <1>2 DEF Before
  <2>2. \A p \in Player : p \in Active(betting) /\ Leads(betting, p)
    BY <1>2, <2>1 DEF Leads, Active
  <2>3. Live(betting) \subseteq Player
    BY DEF Live, Active
  <2>4. Cardinality(Active(betting)) > 1
    <3>1. Active(betting) = 0..(PlayerCount - 1)
      BY <1>2 DEF Active, Player
    <3>2. 0 \in Int /\ PlayerCount - 1 \in Int /\ PlayerCount \in 2..6
      BY PlayerCountAssumption
    <3>3. Cardinality(0..(PlayerCount - 1)) = PlayerCount
      BY <3>2, FS_Interval
    <3> QED
      BY <3>1, <3>2, <3>3
  <2>5. ~FoldedOut
    BY <1>2 DEF FoldedOut
  <2> QED
    BY <1>1, <1>2, <2>2, <2>3, <2>4, <2>5 DEF StakeInv
<1> QED
  BY <1>2, <1>3, <1>4, <1>5, <1>6, <1>7, <1>8 DEF BInductive, ChipInv, ChipsAreConserved, Behind

------------------------------------------------------------------------------
\* What a finished round adds, at the end of an action or of the deal: the same
\* hand, over on the river.
LEMMA RoundEndFacts ==
  ASSUME NEW b \in Bettings, NEW f, f = RoundEnd(b)
  PROVE  /\ f \in Bettings /\ SameHand(b, f) /\ f.round_complete = b.round_complete
         /\ f = b \/ f.round_complete
         /\ f.terminal <=> b.terminal \/ (HasBoard(game) /\ b.round_complete /\ street = 3)
         /\ f.winner = b.winner
<1>1. CASE HasBoard(game) /\ b.round_complete /\ street = 3
  BY <1>1 DEF RoundEnd, Bettings, SameHand
<1>2. CASE ~(HasBoard(game) /\ b.round_complete /\ street = 3)
  BY <1>2 DEF RoundEnd, SameHand
<1> QED
  BY <1>1, <1>2

LEMMA CutShortFacts ==
  ASSUME NEW b \in Bettings, NEW f, f = CutShort(b), b.terminal => b.round_complete
  PROVE  /\ f \in Bettings /\ SameHand(b, f) /\ f.round_complete
         /\ f.terminal <=> b.terminal \/ street = 3
         /\ f.winner = b.winner
<1>1. CASE b.terminal
  BY <1>1 DEF CutShort, SameHand
<1>2. CASE ~b.terminal
  <2>1. (street = 3) \in BOOLEAN
    BY Zenon
  <2>2. f = [b EXCEPT !.round_complete = TRUE, !.to_act = Nobody, !.terminal = (street = 3)]
    BY <1>2 DEF CutShort
  <2> QED
    BY <1>2, <2>1, <2>2 DEF Bettings, SameHand
<1> QED
  BY <1>1, <1>2

\* The stakes only depend on the hand and on whether the round is over.
LEMMA StakesStay ==
  ASSUME BInductive, NEW b, SameHand(betting, b), NEW p \in Player
  PROVE  /\ Leads(betting, p) => Leads(b, p)
         /\ b.invested[p] + b.stack[p] = game.stacks[p]
BY DEF SameHand, Leads, Before, BInductive, StakeInv

\* The deal: a root whose round is over goes on to the board or, on the river,
\* ends.
LEMMA DealStep ==
  ASSUME BInductive, ChipsAreConserved, Deal
  PROVE  BInductive' /\ ChipsAreConserved'
<1>1. /\ is_chance /\ ~dealt /\ dealt' = TRUE /\ betting' = RoundEnd(betting)
      /\ is_chance' = (HasBoard(game) /\ betting'.round_complete /\ ~betting'.terminal)
      /\ on_tree' = (on_tree /\ ~(HasBoard(game) /\ betting.round_complete))
      /\ fit' = IF on_tree' THEN fit ELSE "street"
      /\ game' = game /\ street' = street /\ spoke' = spoke /\ capped' = capped /\ cut' = cut
      /\ freely' = freely
  BY DEF Deal, CardsFollow
<1>2. /\ game \in Games /\ street \in 0..3
      /\ {is_chance, dealt, on_tree, cut, freely} \subseteq BOOLEAN /\ fit \in Landing(on_tree)
      /\ betting \in Bettings /\ Sound(betting) /\ ~betting.terminal
      /\ spoke = {} /\ capped = {} /\ ~cut /\ AnswerInv /\ TurnInv
  BY <1>1 DEF BInductive, BTypeOK, ChipInv, StageInv
<1>3. /\ betting' \in Bettings /\ SameHand(betting, betting')
      /\ betting'.round_complete = betting.round_complete
      /\ betting' = betting \/ betting'.round_complete
      /\ betting'.terminal <=> (HasBoard(game) /\ betting.round_complete /\ street = 3)
  BY <1>1, <1>2, RoundEndFacts
<1>4. /\ Active(betting') = Active(betting) /\ Live(betting') = Live(betting)
      /\ Owes(betting') = Owes(betting) /\ Sound(betting')
  BY <1>2, <1>3, SameHandFacts
<1>5. is_chance' \in BOOLEAN /\ on_tree' \in BOOLEAN
  BY <1>1, Zenon
<1>13. fit' \in Landing(on_tree')
  BY <1>1, <1>2 DEF Landing, Fits
<1>6. BTypeOK'
  BY <1>1, <1>2, <1>3, <1>5, <1>13 DEF BTypeOK
<1>7. AnswerInv'
  BY <1>1, <1>2, <1>4 DEF AnswerInv
<1>8. StageInv'
  <2>1. HasBoard(game)' <=> HasBoard(game)
    BY <1>1 DEF HasBoard
  <2>2. is_chance' <=> HasBoard(game) /\ betting'.round_complete /\ ~betting'.terminal
    BY <1>1
  <2>3. HasBoard(game)' <=> HasBoard(game)
    BY <1>1 DEF HasBoard
  <2>4. betting'.terminal => betting'.round_complete /\ HasBoard(game) /\ street = 3
    BY <1>3
  <2>5. street = 3 => ~is_chance'
    BY <1>3, <2>2
  <2> QED
    BY <1>1, <1>2, <2>2, <2>3, <2>4, <2>5 DEF StageInv
<1>9. TurnInv'
  BY <1>1, <1>2, <1>3, <1>4 DEF TurnInv
<1>10. SettledInv'
  BY <1>1, <1>2 DEF SettledInv
<1>11. ChipsAreConserved'
  BY <1>1, <1>3 DEF ChipsAreConserved, SameHand, Behind
<1>12. StakeInv'
  <2>1. /\ StakeInv /\ betting'.round_contrib = betting.round_contrib
        /\ betting'.to_call = betting.to_call
    BY <1>3 DEF BInductive, SameHand
  <2>2. HasBoard(game)' <=> HasBoard(game)
    BY <1>1 DEF HasBoard
  <2>3. Live(betting) \subseteq Player /\ Active(betting) \subseteq Player
    BY DEF Live, Active
  <2>4. \A p \in Player : /\ Leads(betting, p) => Leads(betting', p)
                          /\ betting'.invested[p] + betting'.stack[p] = game.stacks[p]
    BY <1>3, StakesStay
  <2>5. betting'.terminal => HasBoard(game) /\ street = 3
    BY <1>3
  <2>6. ~FoldedOut'
    BY <1>1, <2>2, <2>5 DEF FoldedOut
  <2> QED
    BY <1>1, <1>2, <1>3, <1>4, <2>1, <2>3, <2>4, <2>5, <2>6 DEF StakeInv
<1> QED
  BY <1>4, <1>6, <1>7, <1>8, <1>9, <1>10, <1>11, <1>12 DEF BInductive, ChipInv

\* A street without betting: only the board moves, and the river ends the hand.
LEMMA RollOutStep ==
  ASSUME BInductive, ChipsAreConserved, RollOut
  PROVE  BInductive' /\ ChipsAreConserved' /\ street' > street
<1>1. /\ is_chance /\ dealt /\ street' = street + 1
      /\ is_chance' = (street + 1 # 3)
      /\ betting' = [betting EXCEPT !.to_act = Nobody, !.round_complete = TRUE,
                                    !.terminal = (street + 1 = 3)]
      /\ game' = game /\ dealt' = dealt /\ on_tree' = on_tree /\ fit' \in Landing(on_tree')
      /\ spoke' = spoke /\ capped' = capped /\ cut' = cut /\ freely' = freely
  BY DEF RollOut
<1>2. /\ game \in Games /\ street \in 0..2
      /\ {is_chance, dealt, on_tree, cut, freely} \subseteq BOOLEAN
      /\ spoke \subseteq Player /\ capped \subseteq Player
      /\ betting \in Bettings /\ Sound(betting) /\ AnswerInv /\ SettledInv
      /\ betting.round_complete /\ ~betting.terminal /\ HasBoard(game)
  BY <1>1 DEF BInductive, BTypeOK, ChipInv, StageInv
<1>3. (street + 1 # 3) \in BOOLEAN /\ (street + 1 = 3) \in BOOLEAN
  BY Zenon
<1>4. /\ betting' \in Bettings /\ SameHand(betting, betting') /\ betting'.round_complete
      /\ betting'.terminal <=> street + 1 = 3
  BY <1>1, <1>2, <1>3 DEF Bettings, SameHand
<1>5. /\ Active(betting') = Active(betting) /\ Live(betting') = Live(betting)
      /\ Owes(betting') = Owes(betting) /\ Sound(betting')
  BY <1>2, <1>4, SameHandFacts
<1>6. BTypeOK'
  BY <1>1, <1>2, <1>3, <1>4 DEF BTypeOK
<1>7. AnswerInv'
  BY <1>1, <1>2, <1>5 DEF AnswerInv
<1>8. StageInv'
  <2>1. HasBoard(game)' <=> HasBoard(game)
    BY <1>1 DEF HasBoard
  <2>2. is_chance' <=> street' # 3
    BY <1>1
  <2> QED
    BY <1>1, <1>2, <1>4, <2>1, <2>2 DEF StageInv
<1>9. TurnInv'
  BY <1>4 DEF TurnInv
<1>10. SettledInv'
  BY <1>1, <1>2, <1>4, <1>5 DEF SettledInv
<1>11. ChipsAreConserved'
  BY <1>1, <1>4 DEF ChipsAreConserved, SameHand, Behind
<1>12. StakeInv'
  <2>1. /\ StakeInv /\ betting'.round_contrib = betting.round_contrib
        /\ betting'.to_call = betting.to_call
    BY <1>4 DEF BInductive, SameHand
  <2>2. HasBoard(game)' <=> HasBoard(game)
    BY <1>1 DEF HasBoard
  <2>3. Live(betting) \subseteq Player /\ Active(betting) \subseteq Player
    BY DEF Live, Active
  <2>4. \A p \in Player : /\ Leads(betting, p) => Leads(betting', p)
                          /\ betting'.invested[p] + betting'.stack[p] = game.stacks[p]
    BY <1>4, StakesStay
  <2>5. betting'.terminal => HasBoard(game) /\ street' = 3
    BY <1>1, <1>2, <1>4
  <2>6. ~FoldedOut'
    BY <1>1, <2>2, <2>5 DEF FoldedOut
  <2> QED
    BY <1>1, <1>2, <1>4, <1>5, <2>1, <2>3, <2>4, <2>5, <2>6 DEF StakeInv
<1> QED
  BY <1>1, <1>2, <1>5, <1>6, <1>7, <1>8, <1>9, <1>10, <1>11, <1>12 DEF BInductive, ChipInv

\* A street with betting: nobody has answered anything, and the opener is live
\* unless nobody is.
LEMMA NextStreetStep ==
  ASSUME BInductive, ChipsAreConserved, NextStreet
  PROVE  BInductive' /\ ChipsAreConserved' /\ street' > street
<1>1. PICK first \in FirstActors :
        /\ is_chance /\ dealt /\ street' = street + 1
        /\ betting' = [Advance(game.rules, betting, first) EXCEPT
                            !.terminal = (Live(betting) = {} /\ street + 1 = 3)]
        /\ is_chance' = (Live(betting) = {} /\ street + 1 # 3)
        /\ on_tree' = (on_tree /\ Live(betting) # {})
        /\ fit' \in IF on_tree' /\ Ahead THEN {"node"} ELSE Landing(on_tree') \ {"node"}
        /\ spoke' = {} /\ capped' = {} /\ cut' = FALSE
        /\ game' = game /\ dealt' = dealt /\ freely' = freely
  BY DEF NextStreet
<1>2. /\ game \in Games /\ street \in 0..2
      /\ {is_chance, dealt, on_tree, cut, freely} \subseteq BOOLEAN
      /\ betting \in Bettings /\ Sound(betting) /\ HasBoard(game)
  BY <1>1 DEF BInductive, BTypeOK, ChipInv, StageInv
<1>3. game.rules.min_raise \in Nat /\ game.rules.min_raise > 0
  BY <1>2, GamesAssumption DEF Rulebooks
<1>4. Live(betting) # {} => first \in Live(betting)
  <2>1. Live(betting) \subseteq Player
    BY DEF Live, Active
  <2> QED
    BY <1>1, <2>1, FirstSeat DEF FirstActors
<1> DEFINE none == Live(betting) = {}
<1>5. /\ none \in BOOLEAN /\ (none /\ street + 1 = 3) \in BOOLEAN
      /\ is_chance' \in BOOLEAN /\ on_tree' \in BOOLEAN
  BY <1>1, Zenon
<1>6. (IF none THEN Nobody ELSE first) \in Player \cup {Nobody}
  BY <1>4 DEF Live, Active
<1>7. /\ [p \in Player |-> FALSE] \in [Player -> BOOLEAN]
      /\ [p \in Player |-> 0] \in [Player -> Nat]
  OBVIOUS
<1>8. betting' = [betting EXCEPT !.to_call = 0, !.current_bet = 0,
              !.min_raise = game.rules.min_raise, !.raises_made = 0,
              !.terminal = (none /\ street + 1 = 3), !.winner = Nobody,
              !.round_complete = none, !.to_act = IF none THEN Nobody ELSE first,
              !.acted = [p \in Player |-> FALSE], !.round_contrib = [p \in Player |-> 0]]
  BY <1>1, <1>2 DEF Advance, Bettings
<1> HIDE DEF none
<1>9. /\ betting' \in Bettings
      /\ betting'.to_call = 0 /\ betting'.current_bet = 0
      /\ betting'.min_raise = game.rules.min_raise
      /\ betting'.terminal = (none /\ street + 1 = 3) /\ betting'.round_complete = none
      /\ betting'.to_act = IF none THEN Nobody ELSE first
      /\ betting'.acted = [p \in Player |-> FALSE]
      /\ betting'.round_contrib = [p \in Player |-> 0]
      /\ betting'.active = betting.active /\ betting'.all_in = betting.all_in
      /\ betting'.stack = betting.stack /\ betting'.invested = betting.invested
      /\ betting'.pot = betting.pot
  <2>1. betting' = [to_act |-> IF none THEN Nobody ELSE first, active |-> betting.active,
                    all_in |-> betting.all_in, acted |-> [p \in Player |-> FALSE],
                    stack |-> betting.stack, round_contrib |-> [p \in Player |-> 0],
                    invested |-> betting.invested, pot |-> betting.pot, to_call |-> 0,
                    current_bet |-> 0, min_raise |-> game.rules.min_raise,
                    raises_made |-> 0, round_complete |-> none,
                    terminal |-> (none /\ street + 1 = 3), winner |-> Nobody]
    BY <1>2, <1>8 DEF Bettings
  <2>2. betting' \in Bettings
    BY <1>2, <1>3, <1>5, <1>6, <1>7, <2>1 DEF Bettings
  <2>3. /\ betting'.to_call = 0 /\ betting'.current_bet = 0
        /\ betting'.min_raise = game.rules.min_raise
        /\ betting'.terminal = (none /\ street + 1 = 3) /\ betting'.round_complete = none
        /\ betting'.to_act = IF none THEN Nobody ELSE first
    BY <1>2, <1>8 DEF Bettings
  <2>4. /\ betting'.acted = [p \in Player |-> FALSE]
        /\ betting'.round_contrib = [p \in Player |-> 0]
        /\ betting'.active = betting.active /\ betting'.all_in = betting.all_in
        /\ betting'.stack = betting.stack /\ betting'.invested = betting.invested
        /\ betting'.pot = betting.pot
    BY <1>2, <1>8 DEF Bettings
  <2> QED
    BY <2>2, <2>3, <2>4
<1>10. Active(betting') = Active(betting) /\ Live(betting') = Live(betting)
  BY <1>9 DEF Active, Live
<1>11. Sound(betting')
  <2>1. \A p \in Player : betting.invested[p] >= 0
    BY <1>2 DEF Bettings
  <2> QED
    BY <1>2, <1>3, <1>9, <2>1 DEF Sound
<1>12. BTypeOK'
  <2>1. street' \in 0..3 /\ spoke' \subseteq Player /\ capped' \subseteq Player
    BY <1>1, <1>2
  <2>2. {is_chance', dealt', on_tree', cut', freely'} \subseteq BOOLEAN
    BY <1>1, <1>2, <1>5
  <2>3. game' \in Games
    BY <1>1, <1>2
  <2>4. fit' \in Landing(on_tree')
    BY <1>1 DEF Landing, Fits
  <2> QED
    BY <1>9, <2>1, <2>2, <2>3, <2>4 DEF BTypeOK
<1>13. AnswerInv'
  BY <1>1, <1>9, <1>10 DEF AnswerInv, Owes, Live, Active
<1>14. StageInv'
  <2>1. HasBoard(game)' <=> HasBoard(game)
    BY <1>1 DEF HasBoard
  <2>2. /\ is_chance' <=> none /\ street + 1 # 3
        /\ betting'.terminal <=> none /\ street + 1 = 3
        /\ betting'.round_complete <=> none
    BY <1>1, <1>9 DEF none
  <2> QED
    BY <1>1, <1>2, <2>1, <2>2 DEF StageInv
<1>15. TurnInv'
  BY <1>1, <1>4, <1>9, <1>10 DEF TurnInv, none
<1>16. SettledInv'
  BY <1>1 DEF SettledInv
<1>17. ChipsAreConserved'
  BY <1>1, <1>9 DEF ChipsAreConserved, Behind
<1>18. StakeInv'
  <2>1. /\ StakeInv /\ betting.round_complete /\ ~betting.terminal
    BY <1>1 DEF BInductive, StageInv, BTypeOK
  <2>2. ~cut /\ Cardinality(Active(betting)) > 1
    <3>1. ~cut
      BY <1>1, <2>1 DEF StakeInv, NextStreet, Ahead
    <3> QED
      BY <2>1, <3>1 DEF StakeInv
  <2>3. \A p \in Live(betting) : betting.round_contrib[p] = betting.to_call
    BY <2>1, <2>2 DEF StakeInv
  <2>4. Live(betting) \subseteq Player /\ Active(betting) \subseteq Player
    BY DEF Live, Active
  <2>5. \A p \in Player : /\ betting.invested[p] \in Nat /\ betting.round_contrib[p] \in Nat
                          /\ betting.round_contrib[p] <= betting.to_call
                          /\ betting.to_call \in Nat
    BY <1>2 DEF Bettings, Sound
  <2>6. \A p \in Player : Before(betting', p) = betting.invested[p]
    BY <1>9, <2>5 DEF Before
  <2>7. ASSUME NEW p \in Player, Leads(betting, p), betting.round_contrib[p] = betting.to_call
        PROVE  Leads(betting', p)
    <3>1. ASSUME NEW q \in Player PROVE betting.invested[q] <= betting.invested[p]
      <4>1. betting.invested[q] - betting.round_contrib[q] <= betting.invested[p] - betting.round_contrib[p]
        BY <2>7 DEF Leads, Before
      <4> QED
        BY <2>5, <2>7, <4>1
    <3> QED
      BY <2>6, <3>1 DEF Leads
  <2>8. \A p \in Live(betting) : Leads(betting', p)
    BY <2>1, <2>3, <2>4, <2>7 DEF StakeInv
  <2>9. \E p \in Active(betting) : freely \/ Leads(betting', p)
    BY <2>1, <2>4, <2>7 DEF StakeInv
  <2>10. \A p \in Player : betting'.round_contrib[p] = betting'.to_call
    BY <1>9
  <2>11. \A p \in Player : betting'.invested[p] + betting'.stack[p] = game.stacks[p]
    BY <1>9, <2>1 DEF StakeInv
  <2>12. betting'.terminal => street' = 3
    BY <1>1, <1>9
  <2>13. HasBoard(game)' <=> HasBoard(game)
    BY <1>1 DEF HasBoard
  <2>14. ~FoldedOut'
    BY <1>2, <2>12, <2>13 DEF FoldedOut
  <2> QED
    BY <1>1, <1>2, <1>10, <2>2, <2>4, <2>8, <2>9, <2>10, <2>11, <2>12, <2>14 DEF StakeInv
<1> QED
  BY <1>1, <1>2, <1>11, <1>12, <1>13, <1>14, <1>15, <1>16, <1>17, <1>18 DEF BInductive, ChipInv

------------------------------------------------------------------------------
\* What a tree offers is an action.
LEMMA TreeActionType ==
  ASSUME NEW b \in Bettings, NEW e \in Edges
  PROVE  IsAction(TreeAction(b, e))
<1>1. IsAction(e) /\ e.kind \in {"fold", "call", "allin", "raise"}
  BY EdgesAssumption
<1>2. CASE e.kind = "raise" /\ b.to_call = 0
  <2>1. PICK by \in Sizes, n \in Nat : e = Sized("raise", by, n)
    BY <1>1, <1>2 DEF IsAction, Fold, Check, Call, AllIn
  <2>2. Opened(e) = Sized("bet", "chips", n)
    BY <2>1 DEF Opened, Sized
  <2>3. TreeAction(b, e) = Opened(e)
    BY <1>2 DEF TreeAction
  <2> QED
    BY <2>1, <2>2, <2>3 DEF IsAction, Sized, Sizes
<1>3. CASE ~(e.kind = "raise" /\ b.to_call = 0)
  BY <1>1, <1>3 DEF TreeAction, IsAction
<1> QED
  BY <1>2, <1>3

\* So are the candidates without a tree, of which the first gives up or checks.
LEMMA CandidateTypes ==
  ASSUME NEW g \in Games, NEW b \in Bettings
  PROVE  /\ \A i \in DOMAIN Candidates(g, b) : IsAction(Candidates(g, b)[i])
         /\ DOMAIN Candidates(g, b) \subseteq Nat \ {0}
         /\ 1 \in DOMAIN Candidates(g, b) /\ Candidates(g, b)[1] = FoldsTo(b)
         /\ \A i \in DOMAIN Candidates(g, b) :
               Candidates(g, b)[i].kind = "fold" => Outstanding(b) > 0
<1> DEFINE X == {FoldsTo(b), Check, Call, AllIn} \cup {Sized("raise", "chips", n) : n \in Nat}
           A == <<FoldsTo(b)>>
           B == IF Outstanding(b) > 0 /\ (g.nonallin_call \/ CallIsAllIn(b)) THEN <<Call>> ELSE <<>>
           C == [i \in DOMAIN g.raises |-> Sized("raise", "chips", g.raises[i])]
           D == <<AllIn>>
<1>1. \A x \in X : IsAction(x)
  BY DEF FoldsTo, IsAction, Sized, Sizes
<1>0. \A x \in X : x.kind = "fold" => Outstanding(b) > 0
  BY DEF FoldsTo, Check, Call, AllIn, Sized
<1>2. A \in Seq(X) /\ Len(A) = 1 /\ A[1] = FoldsTo(b)
  BY DEF FoldsTo
<1>3. B \in Seq(X)
  <2>1. <<Call>> \in Seq(X) /\ <<>> \in Seq(X)
    OBVIOUS
  <2> QED
    BY <2>1
<1>4. C \in Seq(X)
  <2>1. g.raises \in Seq(Nat)
    BY GamesAssumption
  <2>2. PICK n \in Nat : g.raises \in [1..n -> Nat]
    BY <2>1, SeqDef
  <2>3. C \in [1..n -> X]
    BY <2>2
  <2> QED
    BY <2>2, <2>3, SeqDef
<1>5. D \in Seq(X)
  OBVIOUS
<1>6. Candidates(g, b) = A \o B \o C \o D
  BY DEF Candidates
<1> HIDE DEF X, A, B, C, D
<1>7. /\ A \o B \in Seq(X) /\ Len(A \o B) = Len(A) + Len(B)
      /\ \A i \in 1..(Len(A) + Len(B)) : i <= Len(A) => (A \o B)[i] = A[i]
  BY <1>2, <1>3, ConcatProperties
<1>8. /\ A \o B \o C \in Seq(X) /\ Len(A \o B \o C) = Len(A \o B) + Len(C)
      /\ \A i \in 1..(Len(A \o B) + Len(C)) : i <= Len(A \o B) => (A \o B \o C)[i] = (A \o B)[i]
  BY <1>4, <1>7, ConcatProperties
<1>9. /\ A \o B \o C \o D \in Seq(X) /\ Len(A \o B \o C \o D) = Len(A \o B \o C) + Len(D)
      /\ \A i \in 1..(Len(A \o B \o C) + Len(D)) :
            i <= Len(A \o B \o C) => (A \o B \o C \o D)[i] = (A \o B \o C)[i]
  BY <1>5, <1>8, ConcatProperties
<1>10. /\ Len(B) \in Nat /\ Len(C) \in Nat /\ Len(D) \in Nat
       /\ DOMAIN Candidates(g, b) = 1..Len(Candidates(g, b))
  BY <1>3, <1>4, <1>5, <1>6, <1>9, LenProperties
<1>11. \A i \in DOMAIN Candidates(g, b) : Candidates(g, b)[i] \in X
  BY <1>6, <1>9, <1>10, ElementOfSeq
<1>12. 1 \in DOMAIN Candidates(g, b) /\ Candidates(g, b)[1] = FoldsTo(b)
  BY <1>2, <1>6, <1>7, <1>8, <1>9, <1>10
<1> QED
  BY <1>0, <1>1, <1>10, <1>11, <1>12

\* Only a tree offers a fold to who owes nothing.
LEMMA OnlyDebtsAreFolded ==
  ASSUME BTypeOK, NEW a \in Offered, a.kind = "fold"
  PROVE  Outstanding(betting) > 0 \/ (on_tree /\ fit = "node" /\ a = Fold)
<1>1. game \in Games /\ betting \in Bettings
  BY DEF BTypeOK
<1>2. CASE on_tree /\ fit = "node"
  <2>1. PICK e \in Edges : a = TreeAction(betting, e)
    BY <1>2 DEF Offered, Guided
  <2>2. Check.kind = "check" /\ AllIn.kind = "allin" /\ Opened(e).kind = "bet"
    BY DEF Check, AllIn, Opened, Sized
  <2>3. a = e
    BY <2>1, <2>2 DEF TreeAction
  <2>4. IsAction(e)
    BY EdgesAssumption
  <2>5. e = Fold
    BY <2>3, <2>4 DEF IsAction, Fold, Check, Call, AllIn
  <2> QED
    BY <1>2, <2>3, <2>5
<1>3. CASE ~(on_tree /\ fit = "node")
  <2>1. a \in Generated(game, betting)
    BY <1>3 DEF Offered
  <2>2. PICK i \in DOMAIN Candidates(game, betting) : a = Candidates(game, betting)[i]
    BY <2>1 DEF Generated
  <2> QED
    BY <1>1, <2>2, CandidateTypes
<1> QED
  BY <1>2, <1>3

\* Whatever is offered is a legal action.
LEMMA OfferedIsLegal ==
  ASSUME BTypeOK, NEW a \in Offered
  PROVE  IsAction(a) /\ IsLegal(game.rules, betting, a) /\ game.rules \in Rulebooks
<1>1. game \in Games /\ betting \in Bettings
  BY DEF BTypeOK
<1>2. game.rules \in Rulebooks
  BY <1>1, GamesAssumption
<1>3. CASE on_tree /\ fit = "node"
  BY <1>1, <1>2, <1>3, TreeActionType DEF Offered, Guided
<1>4. CASE ~(on_tree /\ fit = "node")
  <2>1. a \in Generated(game, betting)
    BY <1>4 DEF Offered
  <2>2. PICK i \in DOMAIN Candidates(game, betting) :
          a = Candidates(game, betting)[i] /\ IsLegal(game.rules, betting, a)
    BY <2>1 DEF Generated
  <2> QED
    BY <1>1, <1>2, <2>2, CandidateTypes
<1> QED
  BY <1>3, <1>4

\* A decision is made in an open round, by the player who owes one.
LEMMA DecidingFacts ==
  ASSUME BInductive, Deciding
  PROVE  /\ dealt /\ ~betting.terminal /\ ~betting.round_complete
         /\ betting.to_act \in Live(betting) \ spoke
         /\ \A x \in Live(betting) \cap spoke, q \in Live(betting) \ spoke :
                Turns(betting.to_act, q) < Turns(betting.to_act, x)
<1>1. ~is_chance /\ ~betting.terminal /\ ~(betting.round_complete /\ ~HasBoard(game))
  BY DEF Deciding, IsTerminal
<1>2. dealt /\ ~betting.round_complete
  BY <1>1 DEF BInductive, StageInv, BTypeOK
<1> QED
  BY <1>1, <1>2 DEF BInductive, TurnInv

\* An action of a player.
LEMMA ActStep ==
  ASSUME BInductive, ChipsAreConserved, Deciding, NEW a \in Offered, Act(a)
  PROVE  /\ BInductive' /\ ChipsAreConserved'
         /\ street' = street /\ Nearer(betting, betting')
         /\ betting'.to_call > betting.to_call => betting.to_act \notin capped
<1> DEFINE p     == betting.to_act
           m     == Moved(betting, a)
           child == ApplyAction(betting, a)
           after == betting'
<1>1. PICK more \in (IF on_tree /\ fit # "street" THEN BOOLEAN ELSE {FALSE}) :
        LET ends == on_tree /\ fit # "street" /\ ~more /\ game.tree_showdown
        IN  /\ on_tree' = more /\ fit' \in Landing(more)
            /\ betting' = (IF ends THEN CutShort(child) ELSE RoundEnd(child))
            /\ is_chance' = CardsFollow(betting')
            /\ cut' = (ends /\ ~child.round_complete)
            /\ Ghosts(a, child)
            /\ UNCHANGED <<game, street, dealt>>
  BY DEF Act
<1> DEFINE ends == on_tree /\ fit # "street" /\ ~more /\ game.tree_showdown
<1>2. /\ more \in BOOLEAN /\ on_tree' = more /\ fit' \in Landing(more)
      /\ freely' = (freely \/ (on_tree /\ fit = "node" /\ a = Fold /\ Outstanding(betting) = 0))
      /\ after = IF ends THEN CutShort(child) ELSE RoundEnd(child)
      /\ is_chance' = (HasBoard(game) /\ after.round_complete /\ ~after.terminal)
      /\ cut' = (ends /\ ~child.round_complete)
      /\ spoke' = IF child.to_call > betting.to_call THEN {p} ELSE spoke \cup {p}
      /\ capped' = IF child.to_call - betting.to_call >= betting.min_raise
                   THEN {p} ELSE capped \cup {p}
      /\ game' = game /\ street' = street /\ dealt' = dealt
  BY <1>1 DEF CardsFollow, Ghosts
<1>3. /\ game \in Games /\ street \in 0..3
      /\ {is_chance, dealt, on_tree, cut, freely} \subseteq BOOLEAN
      /\ spoke \subseteq Player /\ capped \subseteq Player
      /\ betting \in Bettings /\ Sound(betting) /\ AnswerInv /\ BTypeOK
  BY DEF BInductive, BTypeOK, ChipInv
<1>4. /\ dealt /\ ~betting.terminal /\ ~betting.round_complete
      /\ p \in Live(betting) \ spoke
      /\ \A x \in Live(betting) \cap spoke, q \in Live(betting) \ spoke : Turns(p, q) < Turns(p, x)
  BY DecidingFacts
<1>5. IsAction(a) /\ IsLegal(game.rules, betting, a) /\ game.rules \in Rulebooks
  BY <1>3, OfferedIsLegal
<1>6. /\ p \in Live(betting) /\ Answered(betting, m, p) /\ Costs(betting, m, p)
      /\ m.pot + Chips(m.stack) = betting.pot + Chips(betting.stack)
      /\ Stakes(betting, m, p) /\ (~m.active[p] => a.kind = "fold")
  BY <1>3, <1>5, MovedAnswers
<1>24. ~m.active[p] => freely' \/ betting.round_contrib[p] < betting.to_call
  <2>1. ASSUME a.kind = "fold" PROVE freely' \/ betting.round_contrib[p] < betting.to_call
    <3>1. betting.round_contrib[p] \in Nat /\ betting.to_call \in Nat
      BY <1>3, <1>6 DEF Bettings, Live, Active
    <3>2. Outstanding(betting) \in Nat
      BY <3>1 DEF Outstanding
    <3>3. Outstanding(betting) > 0 \/ freely'
      BY <1>2, <1>3, <2>1, <3>2, OnlyDebtsAreFolded
    <3> QED
      BY <3>1, <3>3 DEF Outstanding
  <2> QED
    BY <1>6, <2>1
<1>7. /\ child \in Bettings /\ Sound(child) /\ SameHand(m, child)
      /\ \/ /\ child.round_complete /\ child.to_act = Nobody
            /\ Owes(m) = {} \/ Cardinality(Active(m)) <= 1
            /\ child.terminal <=> Cardinality(Active(m)) <= 1
         \/ /\ ~child.round_complete /\ ~child.terminal /\ Owes(m) # {}
            /\ ~(Cardinality(Active(m)) <= 1)
            /\ child.to_act = NextActor(m, p)
      /\ Active(m) # {} /\ child.terminal => child.winner \in Active(m)
  BY <1>3, <1>5, ActionApplies
<1> HIDE DEF p, m, child, ends
<1>8. /\ after \in Bettings /\ SameHand(child, after)
      /\ child.round_complete => after.round_complete
      /\ ~after.round_complete => after = child
      /\ after.round_complete => child.round_complete \/ ends
      /\ child.terminal => after.terminal
      /\ after.terminal => after.round_complete
      /\ HasBoard(game) /\ after.round_complete /\ street = 3 => after.terminal
      /\ after.winner = child.winner
      /\ after.terminal => child.terminal \/ (HasBoard(game) /\ street = 3)
  <2>1. CASE ends
    <3>1. after = CutShort(child)
      BY <1>2, <2>1
    <3>2. HasBoard(game)
      BY <2>1 DEF HasBoard, ends
    <3> QED
      BY <1>7, <2>1, <3>1, <3>2, CutShortFacts
  <2>2. CASE ~ends
    <3>1. after = RoundEnd(child)
      BY <1>2, <2>2
    <3> QED
      BY <1>7, <2>2, <3>1, RoundEndFacts
  <2> QED
    BY <2>1, <2>2
<1>9. /\ SameHand(m, after) /\ Sound(after)
      /\ Active(after) = Active(m) /\ Live(after) = Live(m) /\ Owes(after) = Owes(m)
  <2>1. SameHand(m, after)
    BY <1>7, <1>8 DEF SameHand
  <2> QED
    BY <1>6, <2>1, SameHandFacts DEF Answered
<1>10. /\ m \in Bettings /\ Sound(m) /\ p \in Player
       /\ m.acted[p] /\ p \notin Owes(m)
       /\ m.to_call >= betting.to_call /\ (m.to_call > betting.to_call => ~betting.acted[p])
       /\ betting.to_call \in Nat /\ m.to_call \in Nat
       /\ betting.min_raise \in Nat /\ betting.min_raise > 0
       /\ child.to_call = m.to_call /\ after.to_call = m.to_call
  BY <1>3, <1>6, <1>7, <1>9 DEF Answered, Bettings, Sound, SameHand, Live, Active
<1>11. \A q \in Player \ {p} :
         /\ q \in Live(m) <=> q \in Live(betting)
         /\ q \in Active(m) <=> q \in Active(betting)
         /\ m.round_contrib[q] = betting.round_contrib[q]
         /\ m.acted[q] <=> betting.acted[q]
                           /\ ~(m.to_call - betting.to_call >= betting.min_raise /\ q \in Live(betting))
  <2> SUFFICES ASSUME NEW q \in Player \ {p}
               PROVE  /\ q \in Live(m) <=> q \in Live(betting)
                      /\ q \in Active(m) <=> q \in Active(betting)
                      /\ m.round_contrib[q] = betting.round_contrib[q]
                      /\ m.acted[q] <=> betting.acted[q]
                            /\ ~(m.to_call - betting.to_call >= betting.min_raise /\ q \in Live(betting))
    OBVIOUS
  <2>1. /\ m.active[q] = betting.active[q]
        /\ m.all_in[q] <=> betting.all_in[q]
        /\ m.round_contrib[q] = betting.round_contrib[q]
        /\ m.acted[q] <=> betting.acted[q]
              /\ ~(m.to_call - betting.to_call >= betting.min_raise /\ q \in Live(betting))
    BY <1>6 DEF Answered
  <2>2. q \in Active(m) <=> q \in Active(betting)
    BY <2>1 DEF Active
  <2>3. q \in Live(m) <=> q \in Live(betting)
    BY <2>1, <2>2 DEF Live
  <2> QED
    BY <2>1, <2>2, <2>3
<1>12. \A q \in Player \ {p} : m.to_call = betting.to_call => (q \in Owes(m) <=> q \in Owes(betting))
  BY <1>10, <1>11 DEF Owes
<1>13. spoke' \subseteq Player /\ capped' \subseteq Player
  BY <1>2, <1>3, <1>10
<1>14. BTypeOK'
  <2>1. is_chance' \in BOOLEAN /\ cut' \in BOOLEAN /\ freely' \in BOOLEAN
    BY <1>2, Zenon
  <2>2. {is_chance', dealt', on_tree', cut', freely'} \subseteq BOOLEAN /\ fit' \in Landing(on_tree')
    BY <1>2, <1>3, <2>1
  <2>3. game' \in Games /\ street' \in 0..3
    BY <1>2, <1>3
  <2> QED
    BY <1>8, <1>13, <2>2, <2>3 DEF BTypeOK
<1>15. \A q \in Live(m) : q \in spoke' <=> q \notin Owes(m)
  <2> SUFFICES ASSUME NEW q \in Live(m) PROVE q \in spoke' <=> q \notin Owes(m)
    OBVIOUS
  <2>1. q \in Player
    BY DEF Live, Active
  <2>2. CASE q = p
    BY <1>2, <1>10, <2>2
  <2>3. CASE q # p /\ m.to_call > betting.to_call
    <3>1. m.round_contrib[q] < m.to_call
      <4>1. betting.round_contrib[q] \in Nat /\ betting.round_contrib[q] <= betting.to_call
        BY <1>3, <2>1 DEF Bettings, Sound
      <4> QED
        BY <1>10, <1>11, <2>1, <2>3, <4>1
    <3>2. q \notin spoke'
      BY <1>2, <1>10, <2>3
    <3> QED
      BY <3>1, <3>2 DEF Owes
  <2>4. CASE q # p /\ ~(m.to_call > betting.to_call)
    <3>1. m.to_call = betting.to_call /\ spoke' = spoke \cup {p}
      BY <1>2, <1>10, <2>4
    <3>2. q \in Live(betting)
      BY <1>11, <2>1, <2>4
    <3> QED
      BY <1>3, <1>12, <2>1, <2>4, <3>1, <3>2 DEF AnswerInv
  <2> QED
    BY <2>2, <2>3, <2>4
<1>16. AnswerInv'
  <2>1. \A q \in Live(m) \cap capped' : m.acted[q]
    <3> SUFFICES ASSUME NEW q \in Live(m) \cap capped' PROVE m.acted[q]
      OBVIOUS
    <3>1. q \in Player
      BY DEF Live, Active
    <3>2. CASE q = p
      BY <1>10, <3>2
    <3>3. CASE q # p
      <4>1. ~(m.to_call - betting.to_call >= betting.min_raise) /\ q \in capped
        BY <1>2, <1>10, <3>3
      <4>2. q \in Live(betting)
        BY <1>11, <3>1, <3>3
      <4> QED
        BY <1>3, <1>11, <3>1, <3>3, <4>1, <4>2 DEF AnswerInv
    <3> QED
      BY <3>2, <3>3
  <2>2. after.acted = m.acted
    BY <1>9 DEF SameHand
  <2> QED
    BY <1>9, <1>15, <2>1, <2>2 DEF AnswerInv
<1>17. StageInv'
  <2>1. HasBoard(game)' <=> HasBoard(game)
    BY <1>2 DEF HasBoard
  <2>2. is_chance' <=> HasBoard(game) /\ after.round_complete /\ ~after.terminal
    BY <1>2
  <2> QED
    BY <1>2, <1>3, <1>4, <1>8, <2>1, <2>2 DEF StageInv
<1>18. TurnInv'
  <2> SUFFICES ASSUME ~after.round_complete
               PROVE  /\ after.to_act \in Live(after) \ spoke'
                      /\ \A x \in Live(after) \cap spoke', q \in Live(after) \ spoke' :
                            Turns(after.to_act, q) < Turns(after.to_act, x)
    BY DEF TurnInv
  <2> DEFINE S == Live(m) \ spoke'
             n == NextActor(m, p)
  <2>1. after = child /\ child.to_act = n /\ Owes(m) # {}
    BY <1>7, <1>8
  <2>2. S # {} /\ S \subseteq Live(m) \ {p}
    BY <1>2, <1>15, <2>1 DEF Owes
  <2>3. \A x \in Live(m) \ (S \cup {p}), q \in S : Turns(p, q) < Turns(p, x)
    <3> SUFFICES ASSUME NEW x \in Live(m) \ (S \cup {p}), NEW q \in S
                 PROVE  Turns(p, q) < Turns(p, x)
      OBVIOUS
    <3>1. x \in Player /\ q \in Player /\ x # p /\ q # p /\ x \in spoke' /\ q \notin spoke'
      BY <2>2 DEF Live, Active
    <3>2. x \in spoke /\ q \notin spoke
      BY <1>2, <3>1
    <3>3. x \in Live(betting) /\ q \in Live(betting)
      BY <1>11, <3>1
    <3> QED
      BY <1>4, <3>2, <3>3
  <2> HIDE DEF S, n
  <2>4. n \in S /\ \A x \in Live(m) \ S, q \in S : Turns(n, q) < Turns(n, x)
    BY <1>10, <2>2, <2>3, TurnPasses DEF n
  <2> QED
    BY <1>9, <2>1, <2>4 DEF S
<1>19. SettledInv'
  <2> SUFFICES ASSUME after.round_complete, ~cut', Cardinality(Active(after)) > 1
               PROVE  Owes(after) = {}
    BY DEF SettledInv
  <2>1. child.round_complete
    BY <1>2, <1>8
  <2>2. Cardinality(Active(m)) \in Nat
    BY ActiveCount
  <2> QED
    BY <1>7, <1>9, <2>1, <2>2
<1>23. StakeInv'
  <2>1. /\ StakeInv /\ Stakes(betting, m, p)
        /\ ~m.active[p] => freely' \/ betting.round_contrib[p] < betting.to_call
        /\ Cardinality(Active(betting)) > 1
    BY <1>4, <1>6, <1>24 DEF BInductive, StakeInv
  <2>2. /\ after.invested = m.invested /\ after.stack = m.stack
        /\ after.round_contrib = m.round_contrib /\ after.to_call = m.to_call
    BY <1>9 DEF SameHand
  <2>3. \A q \in Player : after.invested[q] + after.stack[q] = game.stacks[q]
    BY <2>1, <2>2 DEF StakeInv, Stakes
  <2>4. \A q \in Player : Leads(betting, q) => Leads(after, q)
    BY <2>1, <2>2 DEF Leads, Before, Stakes
  <2>5. Live(m) \subseteq Live(betting) /\ Live(betting) \subseteq Player
    <3>1. ASSUME NEW q \in Live(m) PROVE q \in Live(betting)
      BY <1>6, <1>11, <3>1 DEF Live, Active
    <3> QED
      BY <3>1 DEF Live, Active
  <2>6. \A q \in Live(m) : Leads(after, q)
    BY <2>1, <2>4, <2>5 DEF StakeInv
  <2>14. Active(m) # {}
    <3>1. SUFFICES ASSUME Active(m) = {} PROVE FALSE
      OBVIOUS
    <3>2. Active(betting) = {p}
      BY <1>6, <1>11, <3>1 DEF Active, Live
    <3>3. Cardinality({p}) = 1
      BY FS_Singleton
    <3> QED
      BY <2>1, <3>2, <3>3
  <2>7. \E q \in Active(m) : freely' \/ (Leads(after, q) /\ m.round_contrib[q] = m.to_call)
    <3> SUFFICES ASSUME ~freely'
                 PROVE  \E q \in Active(m) : Leads(after, q) /\ m.round_contrib[q] = m.to_call
      BY <2>14
    <3>3. ~freely
      BY <1>2
    <3>1. CASE m.to_call > betting.to_call
      <4>1. m.active[p] /\ m.round_contrib[p] = m.to_call
        BY <2>1, <3>1 DEF Stakes
      <4>2. p \in Active(m) /\ Leads(after, p)
        BY <1>6, <1>10, <2>1, <2>4, <4>1 DEF Active, StakeInv
      <4> QED
        BY <4>1, <4>2
    <3>2. CASE m.to_call = betting.to_call
      <4>1. PICK q \in Active(betting) :
              Leads(betting, q) /\ betting.round_contrib[q] = betting.to_call
        BY <2>1, <3>3 DEF StakeInv
      <4>2. q \in Player /\ Leads(after, q)
        BY <2>4, <4>1 DEF Active
      <4>3. CASE q # p
        BY <1>11, <3>2, <4>1, <4>2, <4>3
      <4>4. CASE q = p
        <5>1. m.active[p]
          BY <2>1, <4>1, <4>4, <1>10
        <5>2. m.round_contrib[p] >= m.to_call
          BY <2>1, <3>2, <4>1, <4>4 DEF Stakes
        <5>3. /\ m.round_contrib[p] \in Nat /\ m.round_contrib[p] <= m.to_call
          BY <1>10 DEF Bettings, Sound
        <5> QED
          BY <1>10, <4>2, <4>4, <5>1, <5>2, <5>3 DEF Active
      <4> QED
        BY <4>3, <4>4
    <3> QED
      BY <1>10, <3>1, <3>2
  <2>8. Cardinality(Active(m)) \in Nat
    BY ActiveCount
  <2>9. after.terminal \/ Cardinality(Active(after)) > 1
    BY <1>7, <1>8, <1>9, <2>8
  <2>10. ASSUME after.round_complete, ~cut', Cardinality(Active(after)) > 1, NEW q \in Live(after)
         PROVE  after.round_contrib[q] = after.to_call
    <3>1. Owes(m) = {} /\ q \in Live(m) /\ q \in Player
      <4>1. p \in spoke'
        BY <1>2
      <4>2. Owes(after) = {}
        BY <1>19, <2>10, <4>1 DEF SettledInv
      <4> QED
        BY <1>9, <2>10, <4>2 DEF Live, Active
    <3>2. ~(m.round_contrib[q] < m.to_call)
      BY <3>1 DEF Owes
    <3>3. /\ m.round_contrib[q] \in Nat /\ m.round_contrib[q] <= m.to_call
      BY <1>10, <3>1 DEF Bettings, Sound
    <3> QED
      BY <1>10, <2>2, <3>2, <3>3
  <2>11. cut' => ~on_tree' /\ game.tree_showdown
    BY <1>2 DEF ends
  <2>12. ASSUME after.terminal, ~(HasBoard(game) /\ street = 3)
         PROVE  Active(after) = {after.winner}
    <3>1. Active(m) # {}
      BY <2>14
    <3>2. child.terminal /\ after.winner \in Active(m)
      BY <1>7, <1>8, <2>12, <3>1
    <3>3. ~(Cardinality(Active(m)) > 1)
      BY <1>7, <2>8, <3>2
    <3>4. IsFiniteSet(Active(m)) /\ Cardinality(Active(m)) = 1
      BY <2>8, <3>1, <3>3, ActiveCount, FS_EmptySet
    <3>5. PICK x : Active(m) = {x}
      BY <3>4, FS_Singleton
    <3> QED
      BY <1>9, <3>2, <3>5
  <2>13. FoldedOut' => after.terminal /\ ~(HasBoard(game) /\ street = 3)
    BY <1>2 DEF FoldedOut, HasBoard
  <2> QED
    BY <1>2, <1>9, <2>2, <2>3, <2>6, <2>7, <2>9, <2>10, <2>11, <2>12, <2>13 DEF StakeInv
<1>20. ChipsAreConserved'
  BY <1>2, <1>6, <1>9 DEF ChipsAreConserved, SameHand, Behind
<1>21. Nearer(betting, after)
  <2>1. after.stack = m.stack /\ after.active = m.active
    BY <1>9 DEF SameHand
  <2>2. CASE Chips(m.stack) < Chips(betting.stack)
    BY <2>1, <2>2 DEF Nearer, Behind
  <2>3. CASE Chips(m.stack) = Chips(betting.stack) /\ ~m.active[p]
    <3>1. p \in Active(betting) /\ p \notin Active(m)
      BY <1>6, <2>3 DEF Active, Live
    <3>2. Active(m) \subseteq Active(betting)
      BY <1>11, <3>1 DEF Active
    <3> QED
      BY <1>9, <2>1, <2>3, <3>1, <3>2 DEF Nearer, Behind
  <2>4. CASE /\ Chips(m.stack) = Chips(betting.stack) /\ m.active = betting.active
             /\ m.to_call = betting.to_call
    <3>1. Active(m) = Active(betting)
      BY <2>4 DEF Active
    <3>2. p \in Owes(betting) /\ p \notin Owes(m)
      BY <1>3, <1>4, <1>10 DEF AnswerInv
    <3>3. Owes(m) \subseteq Player
      BY DEF Owes, Live, Active
    <3>4. Owes(m) \subseteq Owes(betting)
      BY <1>12, <2>4, <3>2, <3>3
    <3> QED
      BY <1>9, <2>1, <2>4, <3>1, <3>2, <3>4 DEF Nearer, Behind
  <2> QED
    BY <1>6, <2>2, <2>3, <2>4 DEF Costs
<1>22. after.to_call > betting.to_call => p \notin capped
  BY <1>3, <1>4, <1>10 DEF AnswerInv
<1> QED
  BY <1>2, <1>9, <1>14, <1>16, <1>17, <1>18, <1>19, <1>20, <1>21, <1>22, <1>23
     DEF BInductive, ChipInv, p

------------------------------------------------------------------------------
\* Every step keeps the invariant and the chips and brings the end nearer, and no
\* player raises who has acted since the last full raise.
Progress ==
    \/ street' > street
    \/ street' = street /\ ((~dealt /\ dealt') \/ Nearer(betting, betting'))
NoReopening == Deciding /\ betting'.to_call > betting.to_call => betting.to_act \notin capped

LEMMA NextStep ==
  ASSUME BInductive, ChipsAreConserved, Next
  PROVE  BInductive' /\ ChipsAreConserved' /\ Progress /\ NoReopening
<1>1. CASE Deal
  <2>1. BInductive' /\ ChipsAreConserved'
    BY <1>1, DealStep
  <2>2. is_chance /\ street' = street /\ ~dealt /\ dealt'
    BY <1>1 DEF Deal
  <2> QED
    BY <2>1, <2>2 DEF Progress, NoReopening, Deciding
<1>2. CASE Decide
  <2>1. Deciding
    BY <1>2 DEF Decide
  <2>2. PICK a \in Offered : Act(a)
    BY <1>2 DEF Decide
  <2>3. /\ BInductive' /\ ChipsAreConserved' /\ street' = street /\ Nearer(betting, betting')
        /\ betting'.to_call > betting.to_call => betting.to_act \notin capped
    BY <2>1, <2>2, ActStep
  <2> QED
    BY <2>3 DEF Progress, NoReopening
<1>3. CASE RollOut
  <2>1. BInductive' /\ ChipsAreConserved' /\ street' > street
    BY <1>3, RollOutStep
  <2>2. is_chance
    BY <1>3 DEF RollOut
  <2> QED
    BY <2>1, <2>2 DEF Progress, NoReopening, Deciding
<1>4. CASE NextStreet
  <2>1. BInductive' /\ ChipsAreConserved' /\ street' > street
    BY <1>4, NextStreetStep
  <2>2. is_chance
    BY <1>4 DEF NextStreet
  <2> QED
    BY <2>1, <2>2 DEF Progress, NoReopening, Deciding
<1> QED
  BY <1>1, <1>2, <1>3, <1>4 DEF Next

\* Nothing changes in a stuttering step.
LEMMA StutterStep ==
  ASSUME BInductive, ChipsAreConserved, UNCHANGED vars
  PROVE  BInductive' /\ ChipsAreConserved'
<1>1. /\ game' = game /\ betting' = betting /\ street' = street
      /\ is_chance' = is_chance /\ dealt' = dealt /\ on_tree' = on_tree
      /\ spoke' = spoke /\ capped' = capped /\ cut' = cut
      /\ fit' = fit /\ freely' = freely
  BY DEF vars, gameVars
<1>2. BTypeOK' /\ ChipInv'
  BY <1>1 DEF BInductive, BTypeOK, ChipInv
<1>3. AnswerInv'
  BY <1>1 DEF BInductive, AnswerInv
<1>4. StageInv'
  BY <1>1 DEF BInductive, StageInv, HasBoard
<1>5. TurnInv' /\ SettledInv'
  BY <1>1 DEF BInductive, TurnInv, SettledInv
<1>7. StakeInv'
  BY <1>1 DEF BInductive, StakeInv, FoldedOut, HasBoard, Leads, Before
<1>6. ChipsAreConserved'
  BY <1>1 DEF ChipsAreConserved, Behind
<1> QED
  BY <1>2, <1>3, <1>4, <1>5, <1>6, <1>7 DEF BInductive

\* In every state the types are right, all in is to have nothing left, the flags
\* tell who has answered the bet, those who owe an answer come first, and a
\* round the players finished leaves nobody owing; and no chip is lost or made.
THEOREM BettingInvariant == Spec => [](BInductive /\ ChipsAreConserved)
<1>1. Init => BInductive /\ ChipsAreConserved
  BY RootInductive
<1>2. BInductive /\ ChipsAreConserved /\ [Next]_vars => (BInductive /\ ChipsAreConserved)'
  BY NextStep, StutterStep
<1> QED
  BY <1>1, <1>2, PTL DEF Spec

\* Stacks and pot always hold the chips the hand began with, through forced bets,
\* all-ins from a post, every action and every street.
THEOREM ChipsStay == Spec => []ChipsAreConserved
<1> QED
  BY BettingInvariant, PTL

\* Whoever is asked can act and has not answered the bet that stands
\* (next_actor, betting_state.c:29).
THEOREM RightPlayerActs == Spec => []ActorOwesADecision
<1>1. BInductive => ActorOwesADecision
  BY DecidingFacts DEF ActorOwesADecision
<1> QED
  BY <1>1, BettingInvariant, PTL

\* A round the players finished leaves nobody behind (finish_if_ready,
\* betting_state.c:41): every live player has acted since the bet last rose and
\* has matched it.
THEOREM RoundsClose == Spec => []RoundIsSettled
<1>1. BInductive => RoundIsSettled
  <2> SUFFICES ASSUME BInductive, betting.round_complete, ~cut, spoke # {},
                      Cardinality(Active(betting)) > 1, NEW p \in Live(betting)
               PROVE  p \in spoke /\ betting.round_contrib[p] = betting.to_call
    BY DEF RoundIsSettled
  <2>1. Owes(betting) = {} /\ p \in Player
    BY DEF BInductive, SettledInv, Live, Active
  <2>2. /\ betting.round_contrib[p] \in Nat /\ betting.to_call \in Nat
        /\ betting.round_contrib[p] <= betting.to_call
    BY <2>1 DEF BInductive, BTypeOK, Bettings, ChipInv, Sound
  <2>3. ~(betting.round_contrib[p] < betting.to_call)
    BY <2>1 DEF Owes
  <2>4. p \in spoke
    BY <2>1 DEF BInductive, AnswerInv
  <2> QED
    BY <2>2, <2>3, <2>4
<1> QED
  BY <1>1, BettingInvariant, PTL

\* Who has acted since the last full raise does not raise again, whatever all-ins
\* by less than a raise come in between (betting_state.c:209).
THEOREM ShortAllInsReopenNothing == Spec => ShortAllInReopensNothing
<1>1. BInductive /\ ChipsAreConserved /\ [Next]_vars
        => [Deciding /\ betting'.to_call > betting.to_call => betting.to_act \notin capped]_vars
  BY NextStep DEF NoReopening
<1> QED
  BY <1>1, BettingInvariant, PTL DEF Spec, ShortAllInReopensNothing

\* Every step moves to a later street or, within one, puts chips in, folds a player
\* or answers for one: a hand cannot go on for ever.
THEOREM HandsEnd == Spec => EveryStepNearsTheEnd
<1>1. BInductive /\ ChipsAreConserved /\ [Next]_vars
        => [\/ street' > street
            \/ street' = street /\ ((~dealt /\ dealt') \/ Nearer(betting, betting'))]_vars
  BY NextStep DEF Progress
<1> QED
  BY <1>1, BettingInvariant, PTL DEF Spec, EveryStepNearsTheEnd

\* At a decision a fold or a check is legal, and so is what a call becomes.
LEMMA SomethingIsLegal ==
  ASSUME BInductive, Deciding
  PROVE  /\ IsLegal(game.rules, betting, FoldsTo(betting))
         /\ IsLegal(game.rules, betting, TreeAction(betting, Call))
<1>1. /\ ~betting.terminal /\ ~betting.round_complete /\ betting.to_act \in Live(betting)
      /\ betting.to_act \in Player
  BY DecidingFacts DEF Live, Active
<1>2. betting \in Bettings /\ Sound(betting)
  BY DEF BInductive, BTypeOK, ChipInv
<1>3. Validate(betting)
  <2>1. betting.to_call <= betting.current_bet
    BY <1>2 DEF Bettings, Sound
  <2>2. \A q \in Player : /\ betting.stack[q] >= 0
                          /\ betting.all_in[q] => betting.stack[q] = 0
                          /\ betting.round_contrib[q] <= betting.invested[q]
    BY <1>2 DEF Bettings, Sound
  <2>3. Nobody \notin Player
    BY PlayerCountAssumption DEF Nobody, Player
  <2> QED
    BY <1>1, <2>1, <2>2, <2>3 DEF Validate
<1>4. /\ Outstanding(betting) \in Nat /\ betting.stack[betting.to_act] \in Nat
  BY <1>1, <1>2 DEF Bettings, Outstanding
<1>5. IsLegal(game.rules, betting, FoldsTo(betting))
  <2>1. FoldsTo(betting).kind = IF Outstanding(betting) > 0 THEN "fold" ELSE "check"
    BY DEF FoldsTo, Fold, Check
  <2> QED
    BY <1>1, <1>3, <1>4, <2>1 DEF IsLegal
<1> DEFINE call == TreeAction(betting, Call)
<1>6. Call.kind = "call" /\ Check.kind = "check" /\ AllIn.kind = "allin"
  BY DEF Call, Check, AllIn
<1>7. \/ call = Check /\ Outstanding(betting) = 0
      \/ call = AllIn /\ Outstanding(betting) > betting.stack[betting.to_act]
      \/ call = Call /\ Outstanding(betting) <= betting.stack[betting.to_act]
  BY <1>4, <1>6 DEF TreeAction
<1> HIDE DEF call
<1>8. IsLegal(game.rules, betting, call)
  BY <1>1, <1>3, <1>4, <1>6, <1>7 DEF IsLegal
<1> QED
  BY <1>5, <1>8 DEF call

\* A decision always offers something, provided that a tree's nodes offer a call
\* and that it is not before the flop that the tree does not fit, and whatever is
\* offered leads to a valid state: no child is lost
\* (preflop_enumerate, preflop_allin_game.c:363; apply_action, preflop_betting.c:56).
THEOREM OffersAreCarriedOut ==
  ASSUME Call \in Edges
  PROVE  Spec => []OfferedActionsApply
<1>1. BInductive => OfferedActionsApply
  <2> SUFFICES ASSUME BInductive, Deciding
               PROVE  /\ Astray \/ Offered # {}
                      /\ \A a \in Offered : Validate(ApplyAction(betting, a))
    BY DEF OfferedActionsApply
  <2>1. /\ game \in Games /\ betting \in Bettings /\ Sound(betting) /\ BTypeOK
    BY DEF BInductive, BTypeOK, ChipInv
  <2>2. \A a \in Offered : Validate(ApplyAction(betting, a))
    <3> SUFFICES ASSUME NEW a \in Offered PROVE Validate(ApplyAction(betting, a))
      OBVIOUS
    <3>1. IsAction(a) /\ IsLegal(game.rules, betting, a) /\ game.rules \in Rulebooks
      BY <2>1, OfferedIsLegal
    <3> QED
      BY <2>1, <3>1, ActionApplies
  <2>3. CASE on_tree /\ fit = "node"
    <3>1. TreeAction(betting, Call) \in Guided(game, betting)
      BY SomethingIsLegal DEF Guided
    <3> QED
      BY <2>2, <2>3, <3>1 DEF Offered
  <2>5. CASE Astray
    BY <2>2, <2>5
  <2>4. CASE ~(on_tree /\ fit = "node") /\ ~Astray
    <3> DEFINE all   == Candidates(game, betting)
               legal == {i \in DOMAIN all : IsLegal(game.rules, betting, all[i])}
    <3>1. 1 \in legal
      BY <2>1, CandidateTypes, SomethingIsLegal
    <3>2. \A k \in legal : ~(k < 1)
      BY <2>1, CandidateTypes
    <3>3. all[1] \in Generated(game, betting)
      BY <3>1, <3>2 DEF Generated
    <3> QED
      BY <2>2, <2>4, <3>3 DEF Offered
  <2> QED
    BY <2>3, <2>4, <2>5
<1> QED
  BY <1>1, BettingInvariant, PTL

------------------------------------------------------------------------------
\* How a pot is divided: what follows is about PotSlices, for any betting state, up
\* to the three theorems about payouts at the end.

\* The chips of the seats as a sum over the set of seats.
LEMMA ChipsSum ==
  ASSUME NEW f \in [Player -> Nat]
  PROVE  Chips(f) = SumOf(f) /\ UpTo(Player, 5)
<1> DEFINE a == Padded(f, 5)
<1>1. UpTo(Player, 5)
  BY PlayerCountAssumption DEF UpTo, Player
<1>2. SumOf(f) = SumTo(a, 5 + 1) /\ Naturals(a, 5 + 1)
  BY <1>1, SumOfUpTo, PaddedIsNatural
<1>3. \A k \in 0..5 : a[k + 1] = IF k \in Player THEN f[k] ELSE 0
  BY DEF Padded
<1> HIDE DEF a
<1>4. /\ SumTo(a, 0) = 0
      /\ \A k \in 0..5 : SumTo(a, k + 1) = SumTo(a, k) + a[k + 1] /\ SumTo(a, k) \in Nat
  <2>1. 5 + 1 \in Nat /\ (5 + 1) - 1 = 5 /\ 0..5 \subseteq 0..(5 + 1)
    OBVIOUS
  <2> QED
    BY <1>2, <2>1, SumSteps, SumType
<1> DEFINE at(p) == IF p \in Player THEN f[p] ELSE 0
<1>5. \A k \in 0..5 : SumTo(a, k + 1) = SumTo(a, k) + at(k) /\ at(k) \in Nat
  BY <1>3, <1>4
<1>6. Chips(f) = at(0) + at(1) + at(2) + at(3) + at(4) + at(5)
  BY DEF Chips
<1> HIDE DEF at
<1>7. /\ 0 \in 0..5 /\ 1 \in 0..5 /\ 2 \in 0..5 /\ 3 \in 0..5 /\ 4 \in 0..5 /\ 5 \in 0..5
      /\ 0 + 1 = 1 /\ 1 + 1 = 2 /\ 2 + 1 = 3 /\ 3 + 1 = 4 /\ 4 + 1 = 5
  OBVIOUS
<1>8. /\ SumTo(a, 1) = at(0) /\ SumTo(a, 2) = at(0) + at(1)
      /\ SumTo(a, 3) = at(0) + at(1) + at(2) /\ SumTo(a, 4) = at(0) + at(1) + at(2) + at(3)
      /\ SumTo(a, 5) = at(0) + at(1) + at(2) + at(3) + at(4)
  BY <1>4, <1>5, <1>7
<1>9. SumTo(a, 5 + 1) = at(0) + at(1) + at(2) + at(3) + at(4) + at(5)
  BY <1>5, <1>7, <1>8
<1> QED
  BY <1>1, <1>2, <1>6, <1>9

------------------------------------------------------------------------------
\* The levels at which somebody has put in chips are steps up to the highest.
Top(b)  == Max({b.invested[p] : p \in Player})
Lows(b) == [l \in 1..(Top(b) + 1) |-> Below(b, l)]

LEMMA LevelsAreSteps ==
  ASSUME NEW b \in Bettings
  PROVE  /\ Steps(Levels(b), Top(b), Lows(b)) /\ UpTo(Levels(b), Top(b))
         /\ \A p \in Player : b.invested[p] \in Levels(b) \cup {0} /\ b.invested[p] <= Top(b)
         /\ Top(b) \in Levels(b) \cup {0}
         /\ \A l \in Levels(b) : l \in 1..(Top(b) + 1) /\ l <= Top(b) /\ Lows(b)[l] = Below(b, l)
<1> DEFINE n == Top(b)
<1>1. b.invested \in [Player -> Nat]
  BY DEF Bettings
<1>2. /\ n \in Nat /\ \A p \in Player : b.invested[p] <= n
      /\ \E p \in Player : b.invested[p] = n
  BY <1>1, LargestPost DEF Top
<1>3. \A p \in Player : b.invested[p] \in Nat /\ b.invested[p] \in Levels(b) \cup {0}
  BY <1>1 DEF Levels
<1> HIDE DEF n
<1>4. \A l \in Levels(b) : l \in Nat /\ l > 0 /\ l <= n
  BY <1>2, <1>3 DEF Levels
<1>5. ASSUME NEW l \in 1..(n + 1)
      PROVE  /\ Below(b, l) \in Levels(b) \cup {0} /\ Below(b, l) < l /\ Below(b, l) \in Nat
             /\ \A k \in Levels(b) : k < l => k <= Below(b, l)
  <2> DEFINE T == {0} \cup {k \in Levels(b) : k < l}
  <2>1. /\ \A x \in T : x \in Nat /\ x <= n /\ x < l /\ x \in Levels(b) \cup {0}
        /\ T # {} /\ \A k \in Levels(b) : k < l => k \in T
    BY <1>2, <1>4
  <2>2. Below(b, l) = CHOOSE x \in T : \A y \in T : x >= y
    BY DEF Below, Max
  <2> HIDE DEF T
  <2>3. T \in SUBSET (0..n)
    BY <1>2, <2>1
  <2>4. \E x \in T : \A y \in T : y <= x
    BY <1>2, <2>1, <2>3, LastElement
  <2>5. \E x \in T : \A y \in T : x >= y
    BY <2>1, <2>4
  <2>6. Below(b, l) \in T /\ \A y \in T : Below(b, l) >= y
    BY <2>2, <2>5
  <2> QED
    BY <2>1, <2>6
<1>6. Lows(b) = [l \in 1..(n + 1) |-> Below(b, l)]
  BY DEF Lows, n
<1>7. Steps(Levels(b), n, Lows(b))
  BY <1>2, <1>4, <1>5, <1>6 DEF Steps
<1>8. UpTo(Levels(b), n)
  BY <1>2, <1>4 DEF UpTo
<1>9. \A l \in Levels(b) : l \in 1..(n + 1) /\ l <= n /\ Lows(b)[l] = Below(b, l)
  BY <1>2, <1>4, <1>6
<1> QED
  BY <1>2, <1>3, <1>7, <1>8, <1>9 DEF n

\* The layers up to a level hold what everybody has put in up to it.
LayersUpTo(b, c) == [l \in Levels(b) |-> IF l <= c THEN Layer(b, l) ELSE 0]

LEMMA LayersHold ==
  ASSUME NEW b \in Bettings, NEW c \in Levels(b) \cup {0}
  PROVE  /\ LayersUpTo(b, c) \in [Levels(b) -> Nat]
         /\ SumOf(LayersUpTo(b, c)) = SumOf(UpToLevel(Player, b.invested, c))
         /\ UpToLevel(Player, b.invested, c) \in [Player -> Nat]
<1>1. /\ Steps(Levels(b), Top(b), Lows(b)) /\ UpTo(Player, 5)
      /\ b.invested \in [Player -> Nat]
      /\ \A p \in Player : b.invested[p] \in Levels(b) \cup {0}
      /\ \A l \in Levels(b) : Lows(b)[l] = Below(b, l)
  <2>1. b.invested \in [Player -> Nat]
    BY DEF Bettings
  <2> QED
    BY <2>1, LevelsAreSteps, ChipsSum
<1>2. Layers(Player, b.invested, Levels(b), Lows(b), c) = LayersUpTo(b, c)
  <2>1. \A l \in Levels(b) : Reach(Player, b.invested, l) = Contributors(b, l)
    BY DEF Reach, Contributors
  <2> QED
    BY <1>1, <2>1 DEF Layers, LayersUpTo, Layer
<1> QED
  BY <1>1, <1>2, LayersAddUp

\* All of them hold what everybody has put in.
LEMMA LayersHoldAll ==
  ASSUME NEW b \in Bettings
  PROVE  /\ \A l \in Levels(b) : Layer(b, l) \in Nat
         /\ LayersUpTo(b, Top(b)) = [l \in Levels(b) |-> Layer(b, l)]
         /\ SumOf([l \in Levels(b) |-> Layer(b, l)]) = Invested(b)
<1>1. /\ \A l \in Levels(b) : l <= Top(b)
      /\ \A p \in Player : b.invested[p] <= Top(b)
      /\ Top(b) \in Levels(b) \cup {0}
      /\ b.invested \in [Player -> Nat]
  <2>1. b.invested \in [Player -> Nat]
    BY DEF Bettings
  <2> QED
    BY <2>1, LevelsAreSteps
<1>2. LayersUpTo(b, Top(b)) = [l \in Levels(b) |-> Layer(b, l)]
  BY <1>1 DEF LayersUpTo
<1>3. UpToLevel(Player, b.invested, Top(b)) = b.invested
  BY <1>1 DEF UpToLevel
<1>4. /\ LayersUpTo(b, Top(b)) \in [Levels(b) -> Nat]
      /\ SumOf(LayersUpTo(b, Top(b))) = SumOf(b.invested)
  BY <1>1, <1>3, LayersHold
<1>5. \A l \in Levels(b) : Layer(b, l) \in Nat
  <2>1. \A l \in Levels(b) : LayersUpTo(b, Top(b))[l] = Layer(b, l)
    BY <1>2
  <2> QED
    BY <1>4, <2>1
<1> QED
  BY <1>1, <1>2, <1>4, <1>5, ChipsSum DEF Invested

------------------------------------------------------------------------------
\* Of some players one at least has the best hand.
LEMMA SomebodyIsBest ==
  ASSUME NEW strength \in [Player -> Player], NEW S, S \subseteq Player
  PROVE  /\ Best(strength, S) \subseteq S
         /\ S # {} => Best(strength, S) # {}
<1>1. Best(strength, S) \subseteq S
  BY DEF Best
<1>2. ASSUME S # {} PROVE Best(strength, S) # {}
  <2> DEFINE f == [p \in Player |-> IF p \in S THEN strength[p] + 1 ELSE 0]
  <2>1. \A p \in Player : strength[p] \in Nat
    BY PlayerCountAssumption DEF Player
  <2>2. f \in [Player -> Nat] /\ \A p \in Player : f[p] = IF p \in S THEN strength[p] + 1 ELSE 0
    BY <2>1
  <2> HIDE DEF f
  <2>3. PICK p \in Player : \A q \in Player : f[q] <= f[p]
    BY <2>2, LargestPost
  <2>4. PICK x \in S : TRUE
    BY <1>2
  <2>5. f[x] > 0 /\ x \in Player
    BY <2>1, <2>2
  <2>6. p \in S
    BY <2>2, <2>3, <2>5
  <2>7. \A q \in S : strength[q] <= strength[p]
    BY <2>1, <2>2, <2>3, <2>6
  <2> QED
    BY <2>6, <2>7 DEF Best
<1> QED
  BY <1>1, <1>2

\* A winner's part of a chip, when there are k winners.
LEMMA ShareDivides ==
  ASSUME NEW k \in 1..6
  PROVE  \E u \in Nat : /\ \A x \in Nat : (x * Share) \div k = x * u
                        /\ u * k = Share
<1>1. k = 1 \/ k = 2 \/ k = 3 \/ k = 4 \/ k = 5 \/ k = 6
  OBVIOUS
<1>2. CASE k = 1
  <2>1. (\A x \in Nat : (x * 60) \div 1 = x * 60) /\ 60 * 1 = 60 /\ 60 \in Nat
    OBVIOUS
  <2> QED
    BY <1>2, <2>1 DEF Share
<1>3. CASE k = 2
  <2>1. (\A x \in Nat : (x * 60) \div 2 = x * 30) /\ 30 * 2 = 60 /\ 30 \in Nat
    OBVIOUS
  <2> QED
    BY <1>3, <2>1 DEF Share
<1>4. CASE k = 3
  <2>1. (\A x \in Nat : (x * 60) \div 3 = x * 20) /\ 20 * 3 = 60 /\ 20 \in Nat
    OBVIOUS
  <2> QED
    BY <1>4, <2>1 DEF Share
<1>5. CASE k = 4
  <2>1. (\A x \in Nat : (x * 60) \div 4 = x * 15) /\ 15 * 4 = 60 /\ 15 \in Nat
    OBVIOUS
  <2> QED
    BY <1>5, <2>1 DEF Share
<1>6. CASE k = 5
  <2>1. (\A x \in Nat : (x * 60) \div 5 = x * 12) /\ 12 * 5 = 60 /\ 12 \in Nat
    OBVIOUS
  <2> QED
    BY <1>6, <2>1 DEF Share
<1>7. CASE k = 6
  <2>1. (\A x \in Nat : (x * 60) \div 6 = x * 10) /\ 10 * 6 = 60 /\ 10 \in Nat
    OBVIOUS
  <2> QED
    BY <1>7, <2>1 DEF Share
<1> QED
  BY <1>1, <1>2, <1>3, <1>4, <1>5, <1>6, <1>7

LEMMA WinnersCount ==
  ASSUME NEW W, W \subseteq Player, W # {}
  PROVE  Cardinality(W) \in 1..6
<1>1. 0 \in Int /\ 5 \in Int
  OBVIOUS
<1>2. IsFiniteSet(0..5) /\ Cardinality(0..5) = 6
  <2>1. /\ IsFiniteSet(0..5)
        /\ Cardinality(0..5) = IF 0 > 5 THEN 0 ELSE 5 - 0 + 1
    BY <1>1, FS_Interval, Zenon
  <2>2. ~(0 > 5) /\ 5 - 0 + 1 = 6
    OBVIOUS
  <2> QED
    BY <2>1, <2>2
<1>3. W \in SUBSET (0..5)
  BY PlayerCountAssumption DEF Player
<1>4. IsFiniteSet(W) /\ Cardinality(W) <= 6
  <2>1. IsFiniteSet(W) /\ Cardinality(W) <= Cardinality(0..5)
    BY <1>2, <1>3, FS_Subset, Zenon
  <2> QED
    BY <1>2, <2>1
<1>5. Cardinality(W) \in Nat /\ Cardinality(W) # 0
  BY <1>4, FS_CardinalityType, FS_EmptySet
<1> QED
  BY <1>4, <1>5

\* What a share of an amount is: nothing for who does not win, no more than all
\* of it, and the same whether the amount comes at once or in two.
LEMMA PartFacts ==
  ASSUME NEW W, W \subseteq Player, NEW p \in Player, NEW x \in Nat
  PROVE  /\ Part(x, W, p) \in Nat /\ Part(x, W, p) <= Share * x
         /\ p \notin W => Part(x, W, p) = 0
         /\ \A y \in Nat : Part(x + y, W, p) = Part(x, W, p) + Part(y, W, p)
<1>0. Share = 60
  BY DEF Share
<1>1. CASE p \notin W
  <2>1. \A z : Part(z, W, p) = 0
    BY <1>1 DEF Part
  <2> QED
    BY <1>0, <2>1
<1>2. CASE p \in W
  <2>1. Cardinality(W) \in 1..6
    BY <1>2, WinnersCount
  <2>2. PICK u \in Nat : /\ \A z \in Nat : (z * Share) \div Cardinality(W) = z * u
                         /\ u * Cardinality(W) = Share
    BY <2>1, ShareDivides
  <2>3. \A z \in Nat : Part(z, W, p) = z * u
    BY <1>2, <2>2 DEF Part
  <2>4. u <= 60
    <3>1. CASE u > 60
      <4>1. u * Cardinality(W) >= u
        BY <2>1
      <4> QED
        BY <1>0, <2>2, <3>1, <4>1
    <3> QED
      BY <3>1
  <2>5. x * u \in Nat /\ x * u <= 60 * x
    BY <2>4
  <2>6. ASSUME NEW y \in Nat PROVE Part(x + y, W, p) = Part(x, W, p) + Part(y, W, p)
    <3>1. (x + y) * u = x * u + y * u /\ x + y \in Nat
      OBVIOUS
    <3> QED
      BY <2>3, <3>1
  <2>7. Part(x, W, p) = x * u
    BY <2>3
  <2> QED
    BY <1>0, <1>2, <2>5, <2>6, <2>7
<1> QED
  BY <1>1, <1>2

\* The winners' parts are the whole amount.
LEMMA PartsAddUp ==
  ASSUME NEW W, W \subseteq Player, W # {}, NEW x \in Nat
  PROVE  SumOf([p \in Player |-> Part(x, W, p)]) = Share * x
<1> DEFINE f   == [p \in Player |-> Part(x, W, p)]
           one == [p \in Player |-> IF p \in W THEN 1 ELSE 0]
           nil == [p \in Player |-> 0]
<1>0. UpTo(Player, 5)
  BY PlayerCountAssumption DEF UpTo, Player
<1>1. Cardinality(W) \in 1..6
  BY WinnersCount
<1>2. PICK u \in Nat : /\ \A z \in Nat : (z * Share) \div Cardinality(W) = z * u
                       /\ u * Cardinality(W) = Share
  BY <1>1, ShareDivides
<1> DEFINE r == x * u
<1>3. r \in Nat /\ \A p \in Player : f[p] = IF p \in W THEN r ELSE 0
  BY <1>2 DEF Part
<1>4. f \in [Player -> Nat] /\ one \in [Player -> Nat] /\ nil \in [Player -> Nat]
  BY <1>3
<1>5. Indicates(Player, one, W) /\ Indicates(Player, nil, {})
  BY <1>4 DEF Indicates
<1> HIDE DEF f, r
<1>6. ASSUME NEW p \in Player PROVE r * one[p] + nil[p] = 1 * f[p]
  <2>1. r * 1 + 0 = 1 * r /\ r * 0 + 0 = 1 * 0
    BY <1>3
  <2> QED
    BY <1>3, <2>1
<1>7. Combines(Player, r, one, nil, 1, f)
  BY <1>3, <1>4, <1>6 DEF Combines
<1> HIDE DEF one, nil
<1>8. r * SumOf(one) + SumOf(nil) = 1 * SumOf(f)
  BY <1>0, <1>7, SumOfLinear
<1>9. SumOf(one) = Cardinality(W) /\ SumOf(nil) = 0 /\ SumOf(f) \in Nat
  BY <1>0, <1>4, <1>5, SumOfCounts, SumOfType, FS_EmptySet
<1>10. r * Cardinality(W) = Share * x
  <2>1. (x * u) * Cardinality(W) = x * (u * Cardinality(W))
    BY <1>1
  <2>2. x * (u * Cardinality(W)) = x * 60
    BY <1>2 DEF Share
  <2> QED
    BY <2>1, <2>2 DEF Share, r
<1>11. Share * x \in Nat
  BY DEF Share
<1>12. SumOf(f) = Share * x
  BY <1>8, <1>9, <1>10, <1>11
<1> QED
  BY <1>12 DEF f

------------------------------------------------------------------------------
\* A pot that somebody can win, who then has a deepest stake.
Payable(b) == b \in Bettings /\ Carried(b) \in Nat /\ Active(b) # {}

LEMMA DeepestFacts ==
  ASSUME NEW b, Payable(b)
  PROVE  /\ DeepestStake(b) \in Levels(b) \cup {0} /\ DeepestStake(b) \in Nat
         /\ \E r \in Active(b) : b.invested[r] = DeepestStake(b)
         /\ \A q \in Active(b) : b.invested[q] <= DeepestStake(b)
<1> DEFINE S == {b.invested[p] : p \in Active(b)}
           f == [p \in Player |-> IF p \in Active(b) THEN b.invested[p] + 1 ELSE 0]
<1>1. b.invested \in [Player -> Nat] /\ Active(b) \subseteq Player
  BY DEF Payable, Bettings, Active
<1>2. f \in [Player -> Nat]
  BY <1>1
<1>3. \A p \in Player : f[p] = IF p \in Active(b) THEN b.invested[p] + 1 ELSE 0
  OBVIOUS
<1> HIDE DEF f
<1>4. PICK r \in Player : \A q \in Player : f[q] <= f[r]
  BY <1>2, LargestPost
<1>5. PICK x \in Active(b) : TRUE
  BY DEF Payable
<1>6. r \in Active(b)
  BY <1>1, <1>3, <1>4, <1>5
<1>7. \A q \in Active(b) : b.invested[q] <= b.invested[r]
  BY <1>1, <1>3, <1>4, <1>6
<1>8. \E v \in S : \A w \in S : v >= w
  BY <1>1, <1>6, <1>7
<1>9. DeepestStake(b) \in S /\ \A w \in S : DeepestStake(b) >= w
  BY <1>8 DEF DeepestStake, Max
<1>10. DeepestStake(b) = b.invested[r]
  BY <1>1, <1>6, <1>7, <1>9
<1> QED
  BY <1>1, <1>6, <1>7, <1>10 DEF Levels

\* A layer is won by one of its active contributors: it has one up to the deepest
\* stake, and none above.
LEMMA LayersHaveWinners ==
  ASSUME NEW b, Payable(b), NEW strength \in [Player -> Player], NEW l \in Levels(b)
  PROVE  /\ LayerWinners(b, strength, l) \subseteq Contributors(b, l) \cap Active(b)
         /\ LayerWinners(b, strength, l) = {} <=> ~(l <= DeepestStake(b))
<1> DEFINE S == Contributors(b, l) \cap Active(b)
<1>1. /\ b.invested \in [Player -> Nat] /\ Active(b) \subseteq Player /\ l \in Nat
      /\ DeepestStake(b) \in Nat
      /\ \E r \in Active(b) : b.invested[r] = DeepestStake(b)
      /\ \A q \in Active(b) : b.invested[q] <= DeepestStake(b)
  BY DeepestFacts DEF Payable, Bettings, Active, Levels
<1>2. S \subseteq Player /\ (S = {} <=> ~(l <= DeepestStake(b)))
  BY <1>1 DEF Contributors
<1> HIDE DEF S
<1>3. Best(strength, S) \subseteq S /\ (S # {} => Best(strength, S) # {})
  BY <1>2, SomebodyIsBest
<1> QED
  BY <1>2, <1>3 DEF LayerWinners, S

\* What a player gets out of each layer.
Takings(b, strength, p) ==
    [l \in Levels(b) |-> Part(Layer(b, l), LayerWinners(b, strength, l), p)]

LEMMA TakingsType ==
  ASSUME NEW b, Payable(b), NEW strength \in [Player -> Player], NEW p \in Player
  PROVE  Takings(b, strength, p) \in [Levels(b) -> Nat]
<1>1. ASSUME NEW l \in Levels(b)
      PROVE  Part(Layer(b, l), LayerWinners(b, strength, l), p) \in Nat
  <2>1. Layer(b, l) \in Nat
    BY LayersHoldAll DEF Payable
  <2>2. LayerWinners(b, strength, l) \subseteq Player
    BY LayersHaveWinners DEF Contributors
  <2> QED
    BY <2>1, <2>2, PartFacts
<1> QED
  BY <1>1 DEF Takings

\* The smaller of two numbers.
LEMMA MinOfTwo ==
  ASSUME NEW x \in Int, NEW y \in Int
  PROVE  Min({x, y}) = IF y <= x THEN y ELSE x
<1>1. \E z \in {x, y} : \A w \in {x, y} : z <= w
  OBVIOUS
<1>2. Min({x, y}) \in {x, y} /\ Min({x, y}) <= x /\ Min({x, y}) <= y
  BY <1>1 DEF Min
<1> QED
  BY <1>2

\* The layers up to the deepest stake hold what is invested less what nobody can
\* win.
LEMMA ClaimedLayers ==
  ASSUME NEW b, Payable(b)
  PROVE  /\ SumOf(LayersUpTo(b, DeepestStake(b))) = Invested(b) - Unclaimed(b)
         /\ LayersUpTo(b, DeepestStake(b)) \in [Levels(b) -> Nat]
         /\ Unclaimed(b) \in Nat
<1> DEFINE d   == DeepestStake(b)
           won == UpToLevel(Player, b.invested, d)
           out == [p \in Player |-> b.invested[p] - Min({b.invested[p], d})]
<1>1. /\ b.invested \in [Player -> Nat] /\ d \in Nat /\ d \in Levels(b) \cup {0}
      /\ b \in Bettings
  BY DeepestFacts DEF Payable, Bettings
<1>2. /\ LayersUpTo(b, d) \in [Levels(b) -> Nat] /\ won \in [Player -> Nat]
      /\ SumOf(LayersUpTo(b, d)) = SumOf(won)
  BY <1>1, LayersHold
<1> HIDE DEF d
<1>3. ASSUME NEW p \in Player
      PROVE  out[p] = b.invested[p] - won[p] /\ out[p] \in Nat
  <2>1. b.invested[p] \in Nat
    BY <1>1
  <2>2. Min({b.invested[p], d}) = IF d <= b.invested[p] THEN d ELSE b.invested[p]
    BY <1>1, <2>1, MinOfTwo
  <2>3. won[p] = IF b.invested[p] <= d THEN b.invested[p] ELSE d
    BY DEF UpToLevel
  <2> QED
    BY <1>1, <2>1, <2>2, <2>3
<1>4. out \in [Player -> Nat]
  BY <1>3
<1> HIDE DEF won
<1>5. Chips(out) = Chips(b.invested) - Chips(won)
  <2>1. out \in [Player -> Int] /\ b.invested \in [Player -> Int] /\ won \in [Player -> Int]
    BY <1>1, <1>2, <1>4
  <2> HIDE DEF out
  <2> QED
    BY <1>3, <2>1, ChipsSubtract
<1>6. Unclaimed(b) = Chips(out)
  BY DEF Unclaimed, d
<1> HIDE DEF out
<1>7. Chips(won) = SumOf(won)
  BY <1>2, ChipsSum
<1>8. Chips(b.invested) \in Nat /\ Chips(won) \in Nat /\ Chips(out) \in Nat
  BY <1>1, <1>2, <1>4, ChipsType
<1> QED
  BY <1>2, <1>5, <1>6, <1>7, <1>8 DEF Invested, d

LEMMA LayeredPayoutPays ==
  ASSUME NEW b, Payable(b), NEW strength \in [Player -> Player]
  PROVE  /\ Chips(LayeredPayout(b, strength)) = (b.pot - Unclaimed(b)) * Share
         /\ LayeredPayout(b, strength) \in [Player -> Nat]
<1> DEFINE F == [p \in Player |-> Takings(b, strength, p)]
           g == [p \in Player |-> SumOf(F[p])]
           W == Best(strength, Active(b))
           c == [p \in Player |-> Part(Carried(b), W, p)]
           e == LayeredPayout(b, strength)
           h == [l \in Levels(b) |-> SumOf([p \in Player |-> F[p][l]])]
           w == LayersUpTo(b, DeepestStake(b))
           nil == [l \in Levels(b) |-> 0]
<1>1. /\ b \in Bettings /\ Carried(b) \in Nat /\ b.pot \in Nat /\ Active(b) # {}
      /\ Active(b) \subseteq Player /\ b.invested \in [Player -> Nat]
  BY DEF Payable, Active, Bettings
<1>2. UpTo(Levels(b), Top(b)) /\ UpTo(Player, 5)
  BY <1>1, LevelsAreSteps, ChipsSum
<1>3. \A p \in Player : F[p] \in [Levels(b) -> Nat]
  BY TakingsType
<1>4. \A p \in Player : F[p] = Takings(b, strength, p)
  OBVIOUS
<1> HIDE DEF F
<1>5. Exchange(F, Player, Levels(b))
  <2>1. Rows(F, Player, Levels(b))
    BY <1>3 DEF Rows
  <2> QED
    BY <1>2, <2>1, SumOfExchange
<1>6. SumOf(g) = SumOf(h)
  BY <1>5 DEF Exchange
<1>7. ASSUME NEW l \in Levels(b) PROVE h[l] = Share * w[l] /\ w[l] \in Nat
  <2> DEFINE V == LayerWinners(b, strength, l)
             v == [p \in Player |-> Part(Layer(b, l), V, p)]
  <2>1. V \subseteq Player /\ (V = {} <=> ~(l <= DeepestStake(b)))
    BY LayersHaveWinners DEF Contributors
  <2>2. Layer(b, l) \in Nat
    BY <1>1, LayersHoldAll
  <2>3. h[l] = SumOf(v)
    <3>1. [p \in Player |-> F[p][l]] = v
      BY <1>4 DEF Takings
    <3> QED
      BY <3>1
  <2>4. w[l] = IF l <= DeepestStake(b) THEN Layer(b, l) ELSE 0
    BY DEF LayersUpTo
  <2> HIDE DEF V, h, w
  <2>5. CASE l <= DeepestStake(b)
    BY <2>1, <2>2, <2>3, <2>4, <2>5, PartsAddUp
  <2>6. CASE ~(l <= DeepestStake(b))
    <3>1. DOMAIN v = Player /\ v \in [Player -> Nat] /\ \A p \in Player : v[p] = 0
      BY <2>1, <2>6 DEF Part
    <3>2. SumOf(v) = 0
      <4> HIDE DEF v
      <4> QED
        BY <1>2, <3>1, SumOfNothing
    <3>3. Share * 0 = 0
      BY DEF Share
    <3> QED
      BY <2>3, <2>4, <2>6, <3>2, <3>3
  <2> QED
    BY <2>5, <2>6
<1>8. /\ h \in [Levels(b) -> Nat] /\ w \in [Levels(b) -> Nat] /\ nil \in [Levels(b) -> Nat]
      /\ Share \in Nat /\ Share = 60
  <2>1. \A l \in Levels(b) : h[l] \in Nat
    BY <1>7 DEF Share
  <2>2. w \in [Levels(b) -> Nat]
    BY ClaimedLayers
  <2> QED
    BY <2>1, <2>2 DEF Share
<1>9. /\ SumOf(w) = Invested(b) - Unclaimed(b) /\ Unclaimed(b) \in Nat
      /\ w \in [Levels(b) -> Nat]
  BY ClaimedLayers
<1>10. /\ SumOf(h) = Share * (Invested(b) - Unclaimed(b)) /\ Invested(b) \in Nat
       /\ Invested(b) - Unclaimed(b) \in Nat
  <2> HIDE DEF h, w
  <2>1. \A l \in Levels(b) : Share * w[l] + nil[l] = 1 * h[l]
    BY <1>7, <1>8
  <2>2. Combines(Levels(b), Share, w, nil, 1, h) /\ Indicates(Levels(b), nil, {})
    BY <1>8, <2>1 DEF Combines, Indicates
  <2> HIDE DEF nil
  <2>3. Share * SumOf(w) + SumOf(nil) = 1 * SumOf(h)
    BY <1>2, <2>2, SumOfLinear
  <2>4. SumOf(nil) = 0 /\ SumOf(h) \in Nat /\ SumOf(w) \in Nat
    BY <1>2, <1>8, <2>2, SumOfCounts, SumOfType, FS_EmptySet
  <2>5. Invested(b) \in Nat
    BY <1>1, ChipsType DEF Invested
  <2> QED
    BY <1>8, <1>9, <2>3, <2>4, <2>5
<1>11. SumOf(c) = Share * Carried(b) /\ c \in [Player -> Nat]
  <2>1. W \subseteq Player /\ W # {}
    BY <1>1, SomebodyIsBest
  <2> HIDE DEF W
  <2>2. SumOf(c) = Share * Carried(b)
    BY <1>1, <2>1, PartsAddUp
  <2>3. \A p \in Player : Part(Carried(b), W, p) \in Nat
    BY <1>1, <2>1, PartFacts
  <2> QED
    BY <2>2, <2>3
<1>12. g \in [Player -> Nat]
  <2>1. \A p \in Player : SumOf(F[p]) \in Nat
    BY <1>2, <1>3, SumOfType
  <2> QED
    BY <2>1
<1>13. \A p \in Player : e[p] = g[p] + c[p]
  BY <1>4 DEF LayeredPayout, Takings
<1>14. e \in [Player -> Nat]
  <2>1. e = [p \in Player |-> e[p]]
    BY DEF LayeredPayout
  <2>2. \A p \in Player : e[p] \in Nat
    BY <1>11, <1>12, <1>13
  <2> HIDE DEF e
  <2> QED
    BY <2>1, <2>2
<1> HIDE DEF e, g, c, h
<1>15. Combines(Player, 1, g, c, 1, e)
  <2>1. \A p \in Player : 1 * g[p] + c[p] = 1 * e[p]
    BY <1>11, <1>12, <1>13, <1>14
  <2> QED
    BY <1>11, <1>12, <1>14, <2>1 DEF Combines
<1>16. 1 * SumOf(g) + SumOf(c) = 1 * SumOf(e)
  BY <1>2, <1>15, SumOfLinear
<1>17. SumOf(e) = Chips(e) /\ SumOf(e) \in Nat /\ SumOf(g) \in Nat
  BY <1>2, <1>12, <1>14, ChipsSum, SumOfType
<1>18. SumOf(e) = 60 * (Invested(b) - Unclaimed(b)) + 60 * Carried(b)
  BY <1>1, <1>6, <1>8, <1>10, <1>11, <1>16, <1>17
<1>19. Carried(b) = b.pot - Invested(b)
  BY DEF Carried
<1>20. Chips(e) = (b.pot - Unclaimed(b)) * 60
  BY <1>1, <1>9, <1>10, <1>17, <1>18, <1>19
<1> QED
  BY <1>8, <1>14, <1>20 DEF e

\* A player wins from each opponent at most what he put in himself; who has
\* folded wins nothing.
Matched(b, p) == [q \in Player |-> Min({b.invested[p], b.invested[q]})]

LEMMA LayeredPayoutIsCovered ==
  ASSUME NEW b, Payable(b), NEW strength \in [Player -> Player], NEW p \in Player
  PROVE  /\ LayeredPayout(b, strength)[p] <= Share * (Carried(b) + Chips(Matched(b, p)))
         /\ p \notin Active(b) => LayeredPayout(b, strength)[p] = 0
         /\ Matched(b, p) \in [Player -> Nat]
<1> DEFINE f == Takings(b, strength, p)
           y == LayersUpTo(b, b.invested[p])
           k == [l \in Levels(b) |-> Share * y[l]]
           nil == [l \in Levels(b) |-> 0]
           W == Best(strength, Active(b))
           x == Part(Carried(b), W, p)
           c == Carried(b)
           mins == Matched(b, p)
<1>1. /\ b \in Bettings /\ c \in Nat /\ Active(b) \subseteq Player /\ Share = 60
      /\ b.invested \in [Player -> Nat]
  BY DEF Payable, Active, Bettings, Share
<1>2. UpTo(Levels(b), Top(b)) /\ UpTo(Player, 5) /\ b.invested[p] \in Levels(b) \cup {0}
  BY <1>1, LevelsAreSteps, ChipsSum
<1>3. f \in [Levels(b) -> Nat] /\ y \in [Levels(b) -> Nat]
  BY <1>1, <1>2, TakingsType, LayersHold
<1>4. k \in [Levels(b) -> Nat] /\ nil \in [Levels(b) -> Nat]
  <2>1. \A l \in Levels(b) : Share * y[l] \in Nat
    <3> HIDE DEF y
    <3> QED
      BY <1>1, <1>3
  <2> QED
    BY <2>1
<1>5. ASSUME NEW l \in Levels(b)
      PROVE  f[l] <= k[l] /\ (p \notin Active(b) => f[l] = 0)
  <2> DEFINE V == LayerWinners(b, strength, l)
  <2>1. V \subseteq Contributors(b, l) \cap Active(b) /\ V \subseteq Player
    BY LayersHaveWinners DEF Contributors
  <2>2. Layer(b, l) \in Nat
    BY <1>1, LayersHoldAll
  <2>3. f[l] = Part(Layer(b, l), V, p) /\ y[l] \in Nat
    BY <1>3 DEF Takings
  <2>4. /\ l <= b.invested[p] => y[l] = Layer(b, l)
        /\ p \in V => l <= b.invested[p]
    <3>1. p \in V => b.invested[p] >= l
      BY <2>1 DEF Contributors
    <3>2. l \in Int /\ b.invested[p] \in Int
      BY <1>1 DEF Levels
    <3> QED
      BY <3>1, <3>2 DEF LayersUpTo
  <2> HIDE DEF V, f, y
  <2>5. /\ Part(Layer(b, l), V, p) <= Share * Layer(b, l)
        /\ p \notin V => Part(Layer(b, l), V, p) = 0
    BY <2>1, <2>2, PartFacts
  <2>6. CASE p \in V
    BY <2>1, <2>3, <2>4, <2>5, <2>6
  <2>7. CASE p \notin V
    <3>1. Share * y[l] >= 0
      BY <1>1, <2>3
    <3> QED
      BY <2>3, <2>5, <2>7, <3>1
  <2> QED
    BY <2>6, <2>7
<1>6. mins = UpToLevel(Player, b.invested, b.invested[p])
  <2>1. ASSUME NEW q \in Player
        PROVE  Min({b.invested[p], b.invested[q]})
                 = IF b.invested[q] <= b.invested[p] THEN b.invested[q] ELSE b.invested[p]
    <3>1. b.invested[p] \in Int /\ b.invested[q] \in Int
      BY <1>1
    <3> QED
      BY <3>1, MinOfTwo
  <2> QED
    BY <2>1 DEF UpToLevel, Matched
<1>7. SumOf(y) = SumOf(mins) /\ mins \in [Player -> Nat]
  BY <1>1, <1>2, <1>6, LayersHold
<1> HIDE DEF f, y, mins
<1>8. SumOf(f) <= SumOf(k)
  <2>1. NotAbove(Levels(b), f, k)
    BY <1>3, <1>4, <1>5 DEF NotAbove
  <2> QED
    BY <1>2, <2>1, SumOfSmaller
<1>9. SumOf(k) = 60 * SumOf(y) /\ SumOf(y) \in Nat
  <2>1. \A l \in Levels(b) : Share * y[l] + nil[l] = 1 * k[l]
    BY <1>1, <1>3
  <2> HIDE DEF k
  <2>2. Combines(Levels(b), Share, y, nil, 1, k) /\ Indicates(Levels(b), nil, {})
    BY <1>1, <1>3, <1>4, <2>1 DEF Combines, Indicates
  <2> HIDE DEF nil
  <2>3. Share * SumOf(y) + SumOf(nil) = 1 * SumOf(k)
    BY <1>2, <2>2, SumOfLinear
  <2>4. SumOf(nil) = 0 /\ SumOf(k) \in Nat /\ SumOf(y) \in Nat
    BY <1>2, <1>3, <1>4, <2>2, SumOfCounts, SumOfType, FS_EmptySet
  <2> QED
    BY <1>1, <2>3, <2>4
<1>10. x \in Nat /\ x <= Share * c /\ (p \notin Active(b) => x = 0)
  <2>1. W \subseteq Active(b) /\ W \subseteq Player
    BY <1>1, SomebodyIsBest
  <2> HIDE DEF W
  <2> QED
    BY <1>1, <2>1, PartFacts
<1>11. LayeredPayout(b, strength)[p] = SumOf(f) + x
  BY DEF LayeredPayout, f, Takings
<1>12. SumOf(f) \in Nat /\ (p \notin Active(b) => SumOf(f) = 0)
  <2>1. ASSUME p \notin Active(b) PROVE SumOf(f) = 0
    <3>1. DOMAIN f = Levels(b) /\ \A l \in Levels(b) : f[l] = 0
      BY <1>3, <1>5, <2>1
    <3> QED
      BY <1>2, <1>3, <3>1, SumOfNothing
  <2> QED
    BY <1>2, <1>3, <2>1, SumOfType
<1> HIDE DEF x, c, k
<1>13. Chips(mins) = SumOf(y)
  BY <1>7, ChipsSum
<1>14. SumOf(k) \in Nat
  BY <1>9
<1>15. SumOf(f) + x <= 60 * (c + Chips(mins))
  BY <1>1, <1>8, <1>9, <1>10, <1>12, <1>13, <1>14
<1> QED
  BY <1>1, <1>7, <1>10, <1>11, <1>12, <1>15 DEF mins, c

\* When everybody left in the hand has put in chips, or nobody at all has, the
\* slices and the layers pay the same: the lowest slice has all of them.
LEMMA SlicesAndLayersAgree ==
  ASSUME NEW b, Payable(b), NEW strength \in [Player -> Player],
         Levels(b) = {} \/ \A p \in Active(b) : b.invested[p] > 0
  PROVE  Awards(b, strength) = LayeredPayout(b, strength)
<1> DEFINE W == Best(strength, Active(b))
<1>0. /\ b \in Bettings /\ Carried(b) \in Nat /\ Active(b) \subseteq Player /\ b.pot \in Nat
      /\ b.invested \in [Player -> Nat]
  BY DEF Payable, Active, Bettings
<1>1. UpTo(Levels(b), Top(b)) /\ W \subseteq Player
  BY <1>0, LevelsAreSteps, SomebodyIsBest
<1> SUFFICES ASSUME NEW p \in Player
             PROVE  Awards(b, strength)[p] = LayeredPayout(b, strength)[p]
  BY DEF Awards, LayeredPayout
<1> DEFINE f == Takings(b, strength, p)
           x == Part(Carried(b), W, p)
           part(l) == Part(Slices(b)[l].amount, Best(strength, Slices(b)[l].eligible), p)
           u == [l \in DOMAIN Slices(b) |-> part(l)]
<1>2. Awards(b, strength)[p] = SumOf(u)
  BY DEF Awards
<1>3. LayeredPayout(b, strength)[p] = SumOf(f) + x
  BY DEF LayeredPayout, Takings
<1>4. f \in [Levels(b) -> Nat] /\ SumOf(f) \in Nat
  BY <1>1, TakingsType, SumOfType
<1>5. x \in Nat
  <2> HIDE DEF W
  <2> QED
    BY <1>0, <1>1, PartFacts
<1>6. CASE Levels(b) = {}
  <2>1. Slices(b) = [l \in {0} |-> [amount |-> b.pot, eligible |-> Active(b)]]
    BY <1>6 DEF Slices
  <2>2. Invested(b) = 0
    <3>1. UpTo({}, 0)
      BY DEF UpTo
    <3> DEFINE v == [l \in Levels(b) |-> Layer(b, l)]
    <3>2. DOMAIN v = {} /\ v \in [{} -> Nat] /\ \A l \in {} : v[l] = 0
      BY <1>6
    <3>3. SumOf(v) = Invested(b)
      BY <1>0, LayersHoldAll
    <3> HIDE DEF v
    <3> QED
      BY <3>1, <3>2, <3>3, SumOfNothing
  <2>3. Carried(b) = b.pot
    BY <1>0, <2>2 DEF Carried
  <2>4. u = [l \in {0} |-> x]
    BY <2>1, <2>3
  <2>5. SumOf(f) = 0
    <3>1. DOMAIN f = Levels(b) /\ \A l \in Levels(b) : f[l] = 0
      BY <1>4, <1>6
    <3> HIDE DEF f
    <3> QED
      BY <1>1, <1>4, <3>1, SumOfNothing
  <2>6. SumOf([l \in {0} |-> x]) = x
    <3> DEFINE w == [l \in {0} |-> x]
               rest == [l \in {0} \ {0} |-> w[l]]
    <3> HIDE DEF x
    <3>1. w \in [{0} -> Nat] /\ w[0] = x
      BY <1>5
    <3>2. UpTo({0}, 0) /\ UpTo({}, 0) /\ 0 \in {0}
      BY DEF UpTo
    <3>3. DOMAIN rest = {} /\ rest \in [{} -> Nat] /\ \A l \in {} : rest[l] = 0
      OBVIOUS
    <3> HIDE DEF w
    <3>4. SumOf(w) = SumOf(rest) + w[0]
      BY <3>1, <3>2, SumOfWithout
    <3>5. SumOf(rest) = 0
      <4> HIDE DEF rest
      <4> QED
        BY <3>2, <3>3, SumOfNothing
    <3>6. 0 + x = x
      BY <1>5
    <3> QED
      BY <3>1, <3>4, <3>5, <3>6 DEF w
  <2> HIDE DEF u, x, f
  <2> QED
    BY <1>2, <1>3, <1>5, <2>4, <2>5, <2>6
<1>7. CASE Levels(b) # {}
  <2>1. \A l \in Levels(b) : l \in Nat /\ l > 0
    BY <1>0 DEF Levels
  <2>2. PICK least \in Levels(b) : \A l \in Levels(b) : least <= l
    <3>1. Levels(b) \in SUBSET Nat
      BY <2>1
    <3> QED
      BY <1>7, <3>1, LeastElement
  <2>3. \A l \in Levels(b) : Below(b, l) = 0 <=> l = least
    <3> SUFFICES ASSUME NEW l \in Levels(b) PROVE Below(b, l) = 0 <=> l = least
      OBVIOUS
    <3>1. /\ Below(b, l) \in Levels(b) \cup {0} /\ Below(b, l) < l
          /\ \A k \in Levels(b) : k < l => k <= Below(b, l)
      <4>1. /\ Steps(Levels(b), Top(b), Lows(b)) /\ l \in 1..(Top(b) + 1)
            /\ Lows(b)[l] = Below(b, l)
        BY <1>0, LevelsAreSteps
      <4> QED
        BY <4>1 DEF Steps
    <3> QED
      BY <2>1, <2>2, <3>1
  <2>4. Slices(b) = [l \in Levels(b) |->
            [amount |-> Layer(b, l) + (IF Below(b, l) = 0 THEN Carried(b) ELSE 0),
             eligible |-> Contributors(b, l) \cap Active(b)]]
    BY <1>7 DEF Slices
  <2>5. Contributors(b, least) \cap Active(b) = Active(b)
    <3>1. ASSUME NEW q \in Active(b) PROVE q \in Contributors(b, least)
      <4>1. q \in Player /\ b.invested[q] \in Levels(b)
        BY <1>0, <1>7 DEF Levels
      <4>2. least <= b.invested[q] /\ least \in Int /\ b.invested[q] \in Int
        BY <1>0, <2>1, <2>2, <4>1
      <4> QED
        BY <4>1, <4>2 DEF Contributors
    <3> QED
      BY <3>1
  <2>6. LayerWinners(b, strength, least) = W
    BY <2>5 DEF LayerWinners
  <2> DEFINE one == [l \in Levels(b) |-> IF l = least THEN 1 ELSE 0]
  <2>7. u = [l \in Levels(b) |-> part(l)] /\ DOMAIN u = Levels(b)
    BY <2>4
  <2>8. ASSUME NEW l \in Levels(b) PROVE u[l] = x * one[l] + f[l] /\ u[l] \in Nat
    <3> DEFINE V == LayerWinners(b, strength, l)
    <3>1. V \subseteq Player /\ Layer(b, l) \in Nat
      <4>1. V \subseteq Contributors(b, l) \cap Active(b)
        BY LayersHaveWinners
      <4>2. Layer(b, l) \in Nat
        BY <1>0, LayersHoldAll
      <4> HIDE DEF V
      <4> QED
        BY <1>0, <4>1, <4>2
    <3>2. /\ Slices(b)[l].amount = Layer(b, l) + (IF Below(b, l) = 0 THEN Carried(b) ELSE 0)
          /\ Best(strength, Slices(b)[l].eligible) = V
      <4>1. /\ Slices(b)[l].amount = Layer(b, l) + (IF Below(b, l) = 0 THEN Carried(b) ELSE 0)
            /\ Slices(b)[l].eligible = Contributors(b, l) \cap Active(b)
        BY <2>4
      <4> QED
        BY <4>1 DEF LayerWinners, V
    <3>3. u[l] = Part(Layer(b, l) + (IF l = least THEN Carried(b) ELSE 0), V, p)
      BY <2>3, <2>7, <3>2
    <3>4. f[l] = Part(Layer(b, l), V, p) /\ f[l] \in Nat
      BY <1>4 DEF Takings
    <3>5. l = least => V = W
      BY <2>6
    <3> HIDE DEF V, u, f, W
    <3>6. CASE l = least
      <4>1. Part(Layer(b, l) + Carried(b), V, p) = Part(Layer(b, l), V, p) + Part(Carried(b), V, p)
        BY <1>0, <3>1, PartFacts
      <4>2. one[l] = 1
        BY <3>6
      <4>3. u[l] = f[l] + x
        BY <3>3, <3>4, <3>5, <3>6, <4>1
      <4> HIDE DEF x
      <4>4. x * 1 = x
        BY <1>5
      <4> QED
        BY <1>5, <3>4, <4>2, <4>3, <4>4
    <3>7. CASE l # least
      <4>1. u[l] = Part(Layer(b, l) + 0, V, p) /\ Layer(b, l) + 0 = Layer(b, l)
        BY <3>1, <3>3, <3>7
      <4>2. one[l] = 0
        BY <3>7
      <4> HIDE DEF x
      <4>3. x * 0 = 0
        BY <1>5
      <4> QED
        BY <3>4, <4>1, <4>2, <4>3
    <3> QED
      BY <3>6, <3>7
  <2>9. u \in [Levels(b) -> Nat] /\ one \in [Levels(b) -> Nat]
    <3> HIDE DEF x, f
    <3> QED
      BY <2>7, <2>8
  <2> HIDE DEF u, x, f
  <2>10. \A l \in Levels(b) : x * one[l] + f[l] = 1 * u[l]
    BY <2>8
  <2>11. Indicates(Levels(b), one, {least})
    BY <2>2, <2>9 DEF Indicates
  <2> HIDE DEF one
  <2>12. Combines(Levels(b), x, one, f, 1, u)
    BY <1>4, <1>5, <2>9, <2>10 DEF Combines
  <2>13. x * SumOf(one) + SumOf(f) = 1 * SumOf(u)
    BY <1>1, <2>12, SumOfLinear
  <2>14. SumOf(one) = 1 /\ SumOf(u) \in Nat
    BY <1>1, <2>9, <2>11, SumOfCounts, SumOfType, FS_Singleton
  <2> QED
    BY <1>2, <1>3, <1>4, <1>5, <2>13, <2>14
<1> QED
  BY <1>6, <1>7

------------------------------------------------------------------------------
\* What nobody at the table has invested is what the hand began with.
LEMMA CarriedStays ==
  ASSUME BInductive, ChipsAreConserved
  PROVE  Carried(betting) = game.dead + game.pot /\ Carried(betting) \in Nat
<1>1. /\ betting.invested \in [Player -> Nat] /\ betting.stack \in [Player -> Nat]
      /\ betting.pot \in Nat
  BY DEF BInductive, BTypeOK, Bettings
<1>2. /\ game.dead \in Nat /\ game.pot \in Nat /\ game.stacks \in [Player -> Nat]
      /\ \A p \in Player : game.stacks[p] \in Nat
  BY GamesAssumption DEF BInductive, BTypeOK
<1>3. \A p \in Player : betting.invested[p] = game.stacks[p] - betting.stack[p]
  <2>1. \A p \in Player : betting.invested[p] + betting.stack[p] = game.stacks[p]
    BY DEF BInductive, StakeInv
  <2> QED
    BY <1>1, <1>2, <2>1
<1>4. /\ betting.invested \in [Player -> Int] /\ betting.stack \in [Player -> Int]
      /\ game.stacks \in [Player -> Int]
  BY <1>1, <1>2
<1>5. Chips(betting.invested) = Chips(game.stacks) - Chips(betting.stack)
  BY <1>3, <1>4, ChipsSubtract
<1>6. /\ Chips(betting.invested) \in Nat /\ Chips(betting.stack) \in Nat
      /\ Chips(game.stacks) \in Nat
  BY <1>1, <1>2, ChipsType
<1>7. betting.pot + Chips(betting.stack) = game.dead + game.pot + Chips(game.stacks)
  BY DEF ChipsAreConserved, Behind
<1> QED
  BY <1>1, <1>2, <1>5, <1>6, <1>7 DEF Carried, Invested

\* Who leads on the earlier streets and has matched the bet has put in the most.
LEMMA LeaderIsDeepest ==
  ASSUME BInductive, NEW p \in Player, Leads(betting, p),
         betting.round_contrib[p] = betting.to_call, NEW q \in Player
  PROVE  betting.invested[q] <= betting.invested[p]
<1>1. Before(betting, q) <= Before(betting, p)
  BY DEF Leads
<1>2. betting.round_contrib[q] <= betting.to_call
  BY DEF BInductive, ChipInv, Sound
<1>3. /\ betting.invested[p] \in Int /\ betting.invested[q] \in Int
      /\ betting.round_contrib[p] \in Int /\ betting.round_contrib[q] \in Int
  BY DEF BInductive, BTypeOK, Bettings
<1> QED
  BY <1>1, <1>2, <1>3 DEF Before

LEMMA HandIsPayable ==
  ASSUME BInductive, ChipsAreConserved
  PROVE  Payable(betting)
<1>1. Active(betting) # {}
  BY DEF BInductive, StakeInv
<1> QED
  BY <1>1, CarriedStays DEF Payable, BInductive, BTypeOK

\* Where nobody has folded for free, one who can still win has put in the most,
\* and there is nothing that nobody can win.
LEMMA EverythingIsClaimed ==
  ASSUME BInductive, ChipsAreConserved, ~freely
  PROVE  /\ \E r \in Active(betting) : \A q \in Player : betting.invested[q] <= betting.invested[r]
         /\ Unclaimed(betting) = 0
<1> DEFINE d == DeepestStake(betting)
<1>1. PICK r \in Active(betting) :
          Leads(betting, r) /\ betting.round_contrib[r] = betting.to_call
  BY DEF BInductive, StakeInv
<1>2. \A q \in Player : betting.invested[q] <= betting.invested[r]
  BY <1>1, LeaderIsDeepest DEF Active
<1>3. /\ betting.invested \in [Player -> Nat] /\ d \in Nat /\ betting.invested[r] <= d
      /\ r \in Player
  BY <1>1, HandIsPayable, DeepestFacts DEF Payable, Bettings, Active
<1> HIDE DEF d
<1>4. ASSUME NEW q \in Player
      PROVE  betting.invested[q] - Min({betting.invested[q], d}) = 0
  <2>1. betting.invested[q] \in Nat /\ betting.invested[r] \in Nat
    BY <1>3
  <2>2. betting.invested[q] <= d
    BY <1>2, <1>3, <2>1
  <2>3. Min({betting.invested[q], d}) = IF d <= betting.invested[q] THEN d ELSE betting.invested[q]
    BY <1>3, <2>1, MinOfTwo
  <2> QED
    BY <1>3, <2>1, <2>2, <2>3
<1> DEFINE out == [p \in Player |-> betting.invested[p] - Min({betting.invested[p], d})]
<1>5. \A p \in Player : out[p] = 0
  BY <1>4
<1>6. Unclaimed(betting) = Chips(out)
  BY DEF Unclaimed, d
<1> HIDE DEF out
<1>7. Chips(out) = 0
  BY <1>5 DEF Chips
<1> QED
  BY <1>1, <1>2, <1>6, <1>7

\* The hand that ended with a fold pays the pot to whoever is left.
LEMMA FoldPays ==
  ASSUME NEW b \in Bettings, b.winner \in Player
  PROVE  Chips(FoldPayout(b)) = b.pot * Share
<1> DEFINE nil == [p \in Player |-> 0]
           won == b.pot * Share
           w   == b.winner
           f   == FoldPayout(b)
<1>1. won \in Nat /\ won \in Int /\ w \in Player
  BY DEF Bettings, Share
<1>2. Chips(nil) = 0
  BY DEF Chips
<1>3. f = [p \in Player |-> IF p = w THEN won ELSE 0]
  BY DEF FoldPayout
<1> HIDE DEF won, f, w
<1>4. nil \in [Player -> Int] /\ f \in [Player -> Int]
  BY <1>1, <1>3
<1>5. \A p \in Player : f[p] = IF p = w THEN nil[p] + won ELSE nil[p]
  BY <1>1, <1>3
<1> HIDE DEF nil
<1>6. Chips(f) = Chips(nil) + won
  BY <1>1, <1>4, <1>5, ChipsMove
<1> QED
  BY <1>1, <1>2, <1>6 DEF won, f

LEMMA HandsAreOrdered ==
  ASSUME NEW s \in Strengths
  PROVE  s \in [Player -> Player]
BY DEF Strengths

\* Before the river, a hand that is over without a showdown has one player left.
LEMMA FoldLeavesOne ==
  ASSUME BInductive, FoldedOut
  PROVE  /\ Active(betting) = {betting.winner} /\ betting.winner \in Player
         /\ \A s : Payout(s) = FoldPayout(betting)
<1>1. Active(betting) = {betting.winner}
  BY DEF BInductive, StakeInv
<1>2. Active(betting) \subseteq Player
  BY DEF Active
<1> QED
  BY <1>1, <1>2 DEF Payout

\* A finished hand pays out the pot, whatever the cards: all of it when it ended
\* before the river with one player left, else all but what nobody can win, and
\* that is nothing unless a tree let a player fold for free
\* (preflop_op_terminal_value, preflop_known_board_value).
THEOREM PotsArePaidOut == Spec => []PotIsPaidOut
<1>1. BInductive /\ ChipsAreConserved => PotIsPaidOut
  <2> DEFINE lost == IF FoldedOut THEN 0 ELSE Unclaimed(betting)
  <2> SUFFICES ASSUME BInductive, ChipsAreConserved
               PROVE  /\ freely \/ Unclaimed(betting) = 0
                      /\ \A s \in Strengths : Chips(Payout(s)) = (betting.pot - lost) * Share
    BY DEF PotIsPaidOut
  <2>1. freely \/ Unclaimed(betting) = 0
    BY EverythingIsClaimed
  <2>2. ASSUME NEW s \in Strengths
        PROVE  Chips(Payout(s)) = (betting.pot - lost) * Share
    <3>1. CASE FoldedOut
      <4>1. betting \in Bettings /\ betting.pot \in Nat
        BY DEF BInductive, BTypeOK, Bettings
      <4>2. Chips(Payout(s)) = betting.pot * Share
        BY <3>1, <4>1, FoldLeavesOne, FoldPays
      <4>3. betting.pot - lost = betting.pot
        BY <3>1, <4>1
      <4> QED
        BY <4>2, <4>3
    <3>2. CASE ~FoldedOut
      <4>1. Payout(s) = LayeredPayout(betting, s)
        BY <3>2 DEF Payout
      <4>2. lost = Unclaimed(betting)
        BY <3>2
      <4> QED
        BY <4>1, <4>2, HandsAreOrdered, HandIsPayable, LayeredPayoutPays
    <3> QED
      BY <3>1, <3>2
  <2> QED
    BY <2>1, <2>2
<1> QED
  BY <1>1, BettingInvariant, PTL

\* A player wins from each opponent at most what he put in himself, and who has
\* folded wins nothing: the side pots of preflop_known_board_value, and, unless a
\* tree let a player fold for free, the hand that ends with a fold.
THEOREM WinningsAreCovered == Spec => []NobodyWinsMoreThanCovered
<1>1. BInductive /\ ChipsAreConserved => NobodyWinsMoreThanCovered
  <2> SUFFICES ASSUME BInductive, ChipsAreConserved, FoldedOut => ~freely,
                      NEW s \in Strengths, NEW p \in Player
               PROVE  Payout(s)[p] <= Share * CoveredBy(p)
    BY DEF NobodyWinsMoreThanCovered
  <2>1. Payable(betting) /\ s \in [Player -> Player]
    BY HandIsPayable, HandsAreOrdered
  <2>2. /\ betting \in Bettings /\ Carried(betting) \in Nat /\ betting.pot \in Nat
        /\ betting.invested \in [Player -> Nat] /\ Share = 60
    BY <2>1 DEF Payable, Bettings, Share
  <2>3. CoveredBy(p) = IF p \in Active(betting)
                       THEN Carried(betting) + Chips(Matched(betting, p)) ELSE 0
    BY DEF CoveredBy, Matched, Active
  <2>4. Matched(betting, p) \in [Player -> Nat] /\ Chips(Matched(betting, p)) \in Nat
    BY <2>1, LayeredPayoutIsCovered, ChipsType
  <2>5. CASE FoldedOut
    <3>1. /\ Active(betting) = {betting.winner}
          /\ Payout(s)[p] = IF p = betting.winner THEN betting.pot * Share ELSE 0
      BY <2>5, FoldLeavesOne DEF FoldPayout
    <3>2. CASE p = betting.winner
      <4>1. \A q \in Player : betting.invested[q] <= betting.invested[p]
        BY <2>5, <3>1, <3>2, EverythingIsClaimed
      <4>2. Matched(betting, p) = betting.invested
        <5>1. ASSUME NEW q \in Player
              PROVE  Min({betting.invested[p], betting.invested[q]}) = betting.invested[q]
          <6>1. betting.invested[p] \in Int /\ betting.invested[q] \in Int
            BY <2>2
          <6> QED
            BY <4>1, <6>1, MinOfTwo
        <5> QED
          BY <2>2, <5>1 DEF Matched
      <4>3. betting.pot = Carried(betting) + Chips(Matched(betting, p))
        BY <2>2, <2>4, <4>2 DEF Carried, Invested
      <4> QED
        BY <2>2, <2>3, <2>4, <3>1, <3>2, <4>3
    <3>3. CASE p # betting.winner
      BY <2>2, <2>3, <3>1, <3>3
    <3> QED
      BY <3>2, <3>3
  <2>6. CASE ~FoldedOut
    <3>1. Payout(s) = LayeredPayout(betting, s)
      BY <2>6 DEF Payout
    <3>2. /\ Payout(s)[p] <= Share * (Carried(betting) + Chips(Matched(betting, p)))
          /\ p \notin Active(betting) => Payout(s)[p] = 0
      BY <2>1, <3>1, LayeredPayoutIsCovered
    <3> QED
      BY <2>2, <2>3, <3>2
  <2> QED
    BY <2>5, <2>6
<1> QED
  BY <1>1, BettingInvariant, PTL

\* At the showdown of a round the players finished, everybody left in the hand has
\* put in chips, or nobody has.
LEMMA ShowdownIsPaidFor ==
  ASSUME BInductive, IsTerminal, ~cut, Cardinality(Active(betting)) > 1
  PROVE  Levels(betting) = {} \/ \A p \in Active(betting) : betting.invested[p] > 0
<1> SUFFICES ASSUME NEW level \in Levels(betting), NEW p \in Active(betting)
             PROVE  betting.invested[p] > 0
  OBVIOUS
<1>1. PICK q \in Player : betting.invested[q] = level /\ level # 0
  BY DEF Levels
<1>2. /\ betting.invested \in [Player -> Nat] /\ betting.stack \in [Player -> Nat]
      /\ p \in Player /\ game \in Games
  BY DEF BInductive, BTypeOK, Bettings, Active
<1>3. CASE p \in Live(betting)
  <2>1. betting.round_complete
    BY DEF IsTerminal, BInductive, StageInv
  <2>2. Leads(betting, p) /\ betting.round_contrib[p] = betting.to_call
    BY <1>3, <2>1 DEF BInductive, StakeInv
  <2>3. betting.invested[q] <= betting.invested[p]
    BY <1>2, <2>2, LeaderIsDeepest
  <2> QED
    BY <1>1, <1>2, <2>3
<1>4. CASE p \notin Live(betting)
  <2>1. betting.stack[p] = 0
    BY <1>2, <1>4 DEF Live, BInductive, ChipInv, Sound
  <2>2. betting.invested[p] + betting.stack[p] = game.stacks[p]
    BY <1>2 DEF BInductive, StakeInv
  <2>3. game.stacks[p] \in Nat \ {0}
    BY <1>2, GamesAssumption
  <2> QED
    BY <1>2, <2>1, <2>2, <2>3
<1> QED
  BY <1>3, <1>4

\* At a showdown the slices of pots.c and the layers of the preflop game pay every
\* player the same (pe_pot_slices_build, preflop_known_board_value).
THEOREM SlicesAndLayersPayTheSame == Spec => []SlicesPayTheSame
<1>1. BInductive /\ ChipsAreConserved => SlicesPayTheSame
  <2> SUFFICES ASSUME BInductive, ChipsAreConserved, IsTerminal, ~cut,
                      Cardinality(Active(betting)) > 1, NEW s \in Strengths
               PROVE  Awards(betting, s) = LayeredPayout(betting, s)
    BY DEF SlicesPayTheSame
  <2> QED
    BY HandIsPayable, HandsAreOrdered, ShowdownIsPaidFor, SlicesAndLayersAgree
<1> QED
  BY <1>1, BettingInvariant, PTL
===============================================================================
