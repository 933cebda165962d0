-------------------------- MODULE BettingStateProofs --------------------------
(***************************************************************************)
(* What the operations of the betting engine do to a betting state, for    *)
(* every state they may be applied to: facts about chips, turns and the    *)
(* round, on which the invariants of HoldemBetting rest.                   *)
(***************************************************************************)
EXTENDS BettingState, TLAPS

\* Chips that a seat gains or loses are gained or lost by the table.
LEMMA ChipsMove ==
  ASSUME NEW f \in [Player -> Int], NEW g \in [Player -> Int],
         NEW p \in Player, NEW c \in Int,
         \A q \in Player : g[q] = IF q = p THEN f[q] + c ELSE f[q]
  PROVE  Chips(g) = Chips(f) + c
<1>1. \A q \in Player : f[q] \in Int /\ g[q] = IF q = p THEN f[q] + c ELSE f[q]
  OBVIOUS
<1>2. p \in 0..5 /\ Player \subseteq 0..5
  BY PlayerCountAssumption DEF Player
<1>3. CASE p = 0
  BY <1>1, <1>2, <1>3 DEF Chips
<1>4. CASE p = 1
  BY <1>1, <1>2, <1>4 DEF Chips
<1>5. CASE p = 2
  BY <1>1, <1>2, <1>5 DEF Chips
<1>6. CASE p = 3
  BY <1>1, <1>2, <1>6 DEF Chips
<1>7. CASE p = 4
  BY <1>1, <1>2, <1>7 DEF Chips
<1>8. CASE p = 5
  BY <1>1, <1>2, <1>8 DEF Chips
<1>9. p = 0 \/ p = 1 \/ p = 2 \/ p = 3 \/ p = 4 \/ p = 5
  BY <1>2
<1> QED
  BY <1>3, <1>4, <1>5, <1>6, <1>7, <1>8, <1>9

\* The chips of the table are a number.
LEMMA ChipsType ==
  ASSUME NEW f \in [Player -> Nat]
  PROVE  Chips(f) \in Nat
<1> DEFINE at(p) == IF p \in Player THEN f[p] ELSE 0
<1>1. \A p \in 0..5 : at(p) \in Nat
  OBVIOUS
<1>2. Chips(f) = at(0) + at(1) + at(2) + at(3) + at(4) + at(5)
  BY DEF Chips
<1> HIDE DEF at
<1> QED
  BY <1>1, <1>2

\* Chips taken off every seat are taken off the table.
LEMMA ChipsSubtract ==
  ASSUME NEW f \in [Player -> Int], NEW g \in [Player -> Int],
         NEW h \in [Player -> Int], \A p \in Player : h[p] = f[p] - g[p]
  PROVE  Chips(h) = Chips(f) - Chips(g)
<1> DEFINE at(w, p) == IF p \in Player THEN w[p] ELSE 0
<1>1. \A p \in 0..5 : at(f, p) \in Int /\ at(g, p) \in Int /\ at(h, p) = at(f, p) - at(g, p)
  OBVIOUS
<1>2. \A w : Chips(w) = at(w, 0) + at(w, 1) + at(w, 2) + at(w, 3) + at(w, 4) + at(w, 5)
  BY DEF Chips
<1> HIDE DEF at
<1> QED
  BY <1>1, <1>2

\* A seat's distance from the actor, seen from another seat in between.
LEMMA TurnsShift ==
  ASSUME NEW a \in Player, NEW n \in Player, NEW q \in Player, n # a,
         Turns(a, n) <= Turns(a, q)
  PROVE  /\ Turns(n, q) = Turns(a, q) - Turns(a, n)
         /\ Turns(n, a) = PlayerCount - Turns(a, n)
         /\ Turns(n, q) < Turns(n, a)
<1>1. /\ PlayerCount \in Int /\ a \in Int /\ n \in Int /\ q \in Int
      /\ 0 <= a /\ a < PlayerCount /\ 0 <= n /\ n < PlayerCount
      /\ 0 <= q /\ q < PlayerCount
  BY PlayerCountAssumption DEF Player
<1> QED
  BY <1>1 DEF Turns

\* The next actor is the live seat that is reached first, the seat itself last.
LEMMA NextActorIsNearest ==
  ASSUME NEW b \in Bettings, NEW from \in Player, Live(b) # {}
  PROVE  /\ NextActor(b, from) \in Live(b)
         /\ \A q \in Live(b) \ {from} :
               /\ NextActor(b, from) # from
               /\ Turns(from, NextActor(b, from)) <= Turns(from, q)
<1> DEFINE seat(k) == (from + k) % PlayerCount
           steps == {k \in 1..PlayerCount : seat(k) \in Live(b)}
           step(q) == IF q = from THEN PlayerCount ELSE Turns(from, q)
<1>1. \A k \in 1..PlayerCount :
        seat(k) = IF from + k < PlayerCount THEN from + k ELSE from + k - PlayerCount
  BY PlayerCountAssumption DEF Player
<1>2. \A q \in Player : step(q) \in 1..PlayerCount /\ seat(step(q)) = q
  BY <1>1, PlayerCountAssumption DEF Player, Turns
<1>3. \A k \in 1..PlayerCount : seat(k) \in Player /\ step(seat(k)) = k
  BY <1>1, PlayerCountAssumption DEF Player, Turns
<1>4. Live(b) \subseteq Player
  BY DEF Live, Active
<1> HIDE DEF seat, step
<1>5. steps # {}
  BY <1>2, <1>4
<1>6. \E k \in steps : \A j \in steps : k <= j
  BY <1>5, PlayerCountAssumption
<1>7. PICK k \in steps : /\ \A j \in steps : k <= j
                         /\ NextActor(b, from) = seat(k)
  BY <1>5, <1>6 DEF NextActor, seat
<1>8. \A q \in Live(b) : k <= step(q)
  BY <1>2, <1>4, <1>7
<1>9. k = step(NextActor(b, from))
  BY <1>3, <1>7
<1> QED
  BY <1>3, <1>4, <1>7, <1>8, <1>9, PlayerCountAssumption DEF step, Turns, Player

------------------------------------------------------------------------------
\* A payment within the stack changes the actor's chips, flags and the pot.
LEMMA PayFields ==
  ASSUME NEW b \in Bettings, NEW p \in Player, p = b.to_act,
         NEW c \in Nat, c <= b.stack[p], NEW d, d = Pay(b, c)
  PROVE  /\ d \in Bettings
         /\ \A q \in Player :
               /\ d.stack[q] = IF q = p THEN b.stack[q] - c ELSE b.stack[q]
               /\ d.round_contrib[q] = IF q = p THEN b.round_contrib[q] + c ELSE b.round_contrib[q]
               /\ d.invested[q] = IF q = p THEN b.invested[q] + c ELSE b.invested[q]
               /\ d.all_in[q] <=> IF q = p THEN b.stack[p] = c ELSE b.all_in[q]
               /\ d.acted[q] <=> q = p \/ b.acted[q]
         /\ d.pot = b.pot + c
         /\ d.active = b.active /\ d.to_act = p
         /\ d.to_call = b.to_call /\ d.current_bet = b.current_bet
         /\ d.min_raise = b.min_raise
         /\ d.round_complete = b.round_complete /\ d.terminal = b.terminal
<1>1. /\ d.stack = [b.stack EXCEPT ![p] = @ - c]
      /\ d.round_contrib = [b.round_contrib EXCEPT ![p] = @ + c]
      /\ d.invested = [b.invested EXCEPT ![p] = @ + c]
      /\ d.pot = b.pot + c
      /\ d.all_in = [b.all_in EXCEPT ![p] = (b.stack[p] = c)]
      /\ d.acted = [b.acted EXCEPT ![p] = TRUE]
      /\ d.active = b.active /\ d.to_act = p
      /\ d.to_call = b.to_call /\ d.current_bet = b.current_bet
      /\ d.min_raise = b.min_raise /\ d.raises_made = b.raises_made
      /\ d.round_complete = b.round_complete /\ d.terminal = b.terminal
      /\ d.winner = b.winner
  BY DEF Pay, Bettings
<1>2. (b.stack[p] = c) \in BOOLEAN /\ TRUE \in BOOLEAN
  BY Zenon
<1>3. /\ b.all_in \in [Player -> BOOLEAN] /\ b.acted \in [Player -> BOOLEAN]
      /\ b.stack \in [Player -> Nat] /\ b.round_contrib \in [Player -> Nat]
      /\ b.invested \in [Player -> Nat]
  BY DEF Bettings
<1>4. /\ d.stack \in [Player -> Nat] /\ d.round_contrib \in [Player -> Nat]
      /\ d.invested \in [Player -> Nat] /\ d.pot \in Nat
  BY <1>1, <1>3 DEF Bettings
<1>5. \A f \in [Player -> BOOLEAN], x \in BOOLEAN :
        /\ [f EXCEPT ![p] = x] \in [Player -> BOOLEAN]
        /\ \A q \in Player : [f EXCEPT ![p] = x][q] <=> IF q = p THEN x ELSE f[q]
  BY Zenon
<1>6. /\ [b.all_in EXCEPT ![p] = (b.stack[p] = c)] \in [Player -> BOOLEAN]
      /\ \A q \in Player : [b.all_in EXCEPT ![p] = (b.stack[p] = c)][q]
                           <=> IF q = p THEN b.stack[p] = c ELSE b.all_in[q]
  BY <1>2, <1>3, <1>5, Zenon
<1>7. /\ [b.acted EXCEPT ![p] = TRUE] \in [Player -> BOOLEAN]
      /\ \A q \in Player : [b.acted EXCEPT ![p] = TRUE][q] <=> q = p \/ b.acted[q]
  BY <1>2, <1>3, <1>5, Zenon
<1>8. /\ d.all_in \in [Player -> BOOLEAN] /\ d.acted \in [Player -> BOOLEAN]
      /\ \A q \in Player : /\ d.all_in[q] <=> IF q = p THEN b.stack[p] = c ELSE b.all_in[q]
                           /\ d.acted[q] <=> q = p \/ b.acted[q]
  <2>1. /\ d.all_in = [b.all_in EXCEPT ![p] = (b.stack[p] = c)]
        /\ d.acted = [b.acted EXCEPT ![p] = TRUE]
    BY <1>1
  <2>2. d.all_in \in [Player -> BOOLEAN] /\ d.acted \in [Player -> BOOLEAN]
    BY <1>6, <1>7, <2>1
  <2>3. \A q \in Player : d.all_in[q] <=> IF q = p THEN b.stack[p] = c ELSE b.all_in[q]
    BY <1>6, <2>1
  <2>4. \A q \in Player : d.acted[q] <=> q = p \/ b.acted[q]
    BY <1>7, <2>1
  <2> QED
    BY <2>2, <2>3, <2>4
<1>9. d \in Bettings
  BY <1>4, <1>8 DEF Pay, Bettings
<1>10. \A q \in Player :
         /\ d.stack[q] = IF q = p THEN b.stack[q] - c ELSE b.stack[q]
         /\ d.round_contrib[q] = IF q = p THEN b.round_contrib[q] + c ELSE b.round_contrib[q]
         /\ d.invested[q] = IF q = p THEN b.invested[q] + c ELSE b.invested[q]
  BY <1>1, <1>3
<1> QED
  BY <1>1, <1>8, <1>9, <1>10

\* What a legal action other than a fold commits: no more than the stack,
\* enough to stay in unless it is everything, and above the bet only by a
\* player who has not answered it.
LEMMA LegalCommitment ==
  ASSUME NEW b \in Bettings, Sound(b), NEW rules \in Rulebooks,
         NEW a, IsAction(a), IsLegal(rules, b, a), a.kind # "fold",
         NEW p, p = b.to_act, NEW c, c = Commitment(b, a)
  PROVE  /\ p \in Live(b)
         /\ c \in Nat /\ c <= b.stack[p]
         /\ b.round_contrib[p] + c >= b.to_call \/ c = b.stack[p]
         /\ b.round_contrib[p] + c > b.to_call => ~b.acted[p]
         /\ a.kind \in {"check", "call"} => b.round_contrib[p] + c = b.to_call
         /\ a.kind \notin {"check", "call"} => c > 0
         /\ a.kind \in {"check", "call", "allin", "bet", "raise"}
<1>1. p \in Live(b) /\ p \in Player
  BY DEF IsLegal, Live, Active
<1>2. /\ b.stack[p] \in Nat /\ b.stack[p] > 0 /\ b.to_call \in Nat
      /\ b.round_contrib[p] \in Nat /\ b.round_contrib[p] <= b.to_call
      /\ b.min_raise \in Nat /\ b.min_raise > 0 /\ b.pot \in Nat
  BY <1>1 DEF Bettings, Sound, Live
<1>3. Outstanding(b) = b.to_call - b.round_contrib[p]
  BY <1>2 DEF Outstanding
<1>4. a.kind \in {"check", "call", "allin", "bet", "raise"}
  BY DEF IsAction, Fold, Check, Call, AllIn
<1>5. CASE a.kind = "check"
  BY <1>1, <1>2, <1>3, <1>5 DEF Commitment, IsLegal
<1>6. CASE a.kind = "call"
  BY <1>1, <1>2, <1>3, <1>6 DEF Commitment, IsLegal
<1>7. CASE a.kind = "allin"
  BY <1>1, <1>2, <1>3, <1>7 DEF Commitment, IsLegal, MayReopen
<1>8. CASE a.kind \in {"bet", "raise"}
  <2>1. MayReopen(b) /\ SizeAllowed(rules, b, a)
    BY <1>8 DEF IsLegal
  <2>2. Increment(b, a) \in Int
    <3>1. a.by \in Sizes /\ a.amount \in Nat
      BY <1>8 DEF IsAction, Fold, Check, Call, AllIn
    <3>2. a.amount * b.pot \in Int
      BY <3>1, <1>2
    <3> QED
      BY <3>1, <3>2, <1>2, <1>3 DEF Increment, Sizes
  <2>3. c = Outstanding(b) + Increment(b, a)
    BY <1>8 DEF Commitment
  <2> QED
    BY <1>1, <1>2, <1>3, <1>8, <2>1, <2>2, <2>3 DEF SizeAllowed, MayReopen
<1> QED
  BY <1>4, <1>5, <1>6, <1>7, <1>8

\* A wager raises the bet to what its player has put in, and only a full raise
\* takes the others' answers back.
LEMMA RaisedFields ==
  ASSUME NEW b \in Bettings, NEW d \in Bettings, NEW p \in Player, p = b.to_act,
         NEW r, r = Raised(b, d), NEW level, level = d.round_contrib[p],
         NEW full, full <=> level > b.to_call /\ level - b.to_call >= b.min_raise
  PROVE  /\ r \in Bettings
         /\ r.to_call = IF level > b.to_call THEN level ELSE d.to_call
         /\ r.current_bet = IF level > b.to_call THEN level ELSE d.current_bet
         /\ r.min_raise = IF full THEN level - b.to_call ELSE d.min_raise
         /\ r.stack = d.stack /\ r.round_contrib = d.round_contrib
         /\ r.invested = d.invested /\ r.pot = d.pot
         /\ r.active = d.active /\ r.all_in = d.all_in /\ r.to_act = d.to_act
         /\ r.terminal = d.terminal /\ r.round_complete = d.round_complete
         /\ \A q \in Player : r.acted[q] <=> d.acted[q] /\ ~(full /\ q \in Live(d) \ {p})
<1> DEFINE bet == [d EXCEPT !.to_call = level, !.current_bet = level]
<1>1. level \in Nat /\ b.to_call \in Nat /\ b.min_raise \in Nat
  BY DEF Bettings
<1>2. bet \in Bettings /\ Live(bet) = Live(d)
  BY <1>1 DEF Bettings, Live, Active
<1>3. CASE level <= b.to_call
  BY <1>1, <1>3 DEF Raised
<1>4. CASE level > b.to_call /\ level - b.to_call < b.min_raise
  <2>1. r = bet
    BY <1>1, <1>4 DEF Raised, IsFullRaise
  <2> QED
    BY <1>1, <1>2, <1>4, <2>1 DEF Bettings
<1>5. CASE full
  <2> DEFINE acted == [q \in Player |-> d.acted[q] /\ q \notin Live(bet) \ {p}]
  <2>1. r = [bet EXCEPT !.min_raise = level - b.to_call, !.raises_made = @ + 1,
                        !.acted = [q \in Player |-> @[q] /\ q \notin Live(bet) \ {p}]]
    BY <1>1, <1>5 DEF Raised, IsFullRaise
  <2>2. acted \in [Player -> BOOLEAN]
    <3>1. \A q \in Player : (d.acted[q] /\ q \notin Live(bet) \ {p}) \in BOOLEAN
      BY Zenon
    <3> QED
      BY <3>1, Zenon
  <2>3. r.acted = acted
    BY <2>1, <1>2 DEF Bettings
  <2>4. \A q \in Player : r.acted[q] <=> d.acted[q] /\ ~(full /\ q \in Live(d) \ {p})
    BY <1>2, <1>5, <2>3
  <2>5. /\ r.to_call = level /\ r.current_bet = level /\ r.min_raise = level - b.to_call
        /\ r.stack = d.stack /\ r.round_contrib = d.round_contrib
        /\ r.invested = d.invested /\ r.pot = d.pot
        /\ r.active = d.active /\ r.all_in = d.all_in /\ r.to_act = d.to_act
        /\ r.terminal = d.terminal /\ r.round_complete = d.round_complete
        /\ r.winner = d.winner /\ r.raises_made = d.raises_made + 1
    BY <2>1, <1>2 DEF Bettings
  <2>6. /\ level - b.to_call \in Nat /\ d.raises_made + 1 \in Nat
    BY <1>1, <1>5 DEF Bettings
  <2>7. r \in Bettings
    <3>1. r = [bet EXCEPT !.min_raise = level - b.to_call, !.raises_made = @ + 1, !.acted = acted]
      BY <2>1, <1>2 DEF Bettings
    <3>2. \A e \in Bettings, x \in Nat, y \in Nat, f \in [Player -> BOOLEAN] :
             [e EXCEPT !.min_raise = x, !.raises_made = y, !.acted = f] \in Bettings
      BY DEF Bettings
    <3>3. bet.raises_made = d.raises_made
      BY DEF Bettings
    <3> HIDE DEF acted, bet
    <3>4. [bet EXCEPT !.min_raise = level - b.to_call, !.raises_made = @ + 1, !.acted = acted]
             \in Bettings
      BY <1>2, <2>2, <2>6, <3>2, <3>3
    <3> QED
      BY <3>1, <3>4
  <2> QED
    BY <1>1, <1>5, <2>4, <2>5, <2>7
<1> QED
  BY <1>1, <1>3, <1>4, <1>5

\* The chips of the table do not change when the actor puts some of his in.
LEMMA PayKeepsChips ==
  ASSUME NEW b \in Bettings, NEW p \in Player, p = b.to_act,
         NEW c \in Nat, c <= b.stack[p], NEW d, d = Pay(b, c)
  PROVE  /\ Chips(d.stack) = Chips(b.stack) - c
         /\ d.pot = b.pot + c
         /\ b.pot \in Nat /\ Chips(b.stack) \in Int
<1>1. /\ b.stack \in [Player -> Int] /\ b.pot \in Nat
      /\ d.stack \in [Player -> Int] /\ d.pot = b.pot + c
  BY PayFields DEF Bettings
<1>2. \A q \in Player : d.stack[q] = IF q = p THEN b.stack[q] - c ELSE b.stack[q]
  BY PayFields
<1>3. -c \in Int /\ \A q \in Player : d.stack[q] = IF q = p THEN b.stack[q] + (-c) ELSE b.stack[q]
  BY <1>1, <1>2
<1>4. Chips(d.stack) = Chips(b.stack) + (-c)
  BY <1>1, <1>3, ChipsMove
<1>5. Chips(b.stack) \in Int
  BY ChipsType DEF Bettings
<1> QED
  BY <1>1, <1>4, <1>5

\* What a legal action does, other than passing the turn: the actor p is left
\* without a debt, the others keep their chips, and a full raise alone takes
\* back the answers they have given.
Answered(b, m, p) ==
    /\ m \in Bettings /\ Sound(m) /\ m.to_act = p
    /\ m.terminal = b.terminal /\ m.round_complete = b.round_complete
    /\ m.acted[p] /\ p \notin Owes(m)
    /\ m.to_call >= b.to_call /\ (m.to_call > b.to_call => ~b.acted[p])
    /\ \A q \in Player \ {p} :
          /\ m.active[q] = b.active[q]
          /\ m.all_in[q] <=> b.all_in[q]
          /\ m.round_contrib[q] = b.round_contrib[q]
          /\ m.acted[q] <=> b.acted[q] /\ ~(m.to_call - b.to_call >= b.min_raise /\ q \in Live(b))
    /\ m.active[p] => b.active[p]

\* An answer costs chips, or the hand, or is a check or an empty all-in.
Costs(b, m, p) ==
    \/ Chips(m.stack) < Chips(b.stack)
    \/ Chips(m.stack) = Chips(b.stack) /\ ~m.active[p]
    \/ Chips(m.stack) = Chips(b.stack) /\ m.active = b.active /\ m.to_call = b.to_call

\* It moves chips from the actor's stack to what he has put in this round, and
\* who raises the bet has matched it.
Stakes(b, m, p) ==
    /\ \A q \in Player : /\ m.invested[q] + m.stack[q] = b.invested[q] + b.stack[q]
                         /\ m.invested[q] - m.round_contrib[q] = b.invested[q] - b.round_contrib[q]
    /\ m.round_contrib[p] >= b.round_contrib[p]
    /\ m.to_call > b.to_call => m.active[p] /\ m.round_contrib[p] = m.to_call

LEMMA MovedAnswers ==
  ASSUME NEW b \in Bettings, Sound(b), NEW rules \in Rulebooks,
         NEW a, IsAction(a), IsLegal(rules, b, a),
         NEW p, p = b.to_act, NEW m, m = Moved(b, a)
  PROVE  /\ p \in Live(b)
         /\ Answered(b, m, p)
         /\ m.pot + Chips(m.stack) = b.pot + Chips(b.stack)
         /\ Costs(b, m, p)
         /\ Stakes(b, m, p) /\ (~m.active[p] => a.kind = "fold")
<1> DEFINE c == Commitment(b, a)
           d == Pay(b, c)
<1>1. p \in Live(b) /\ p \in Player
  BY DEF IsLegal, Live, Active
<1>2. /\ b.stack[p] \in Nat /\ b.stack[p] > 0 /\ b.to_call \in Nat
      /\ b.round_contrib[p] \in Nat /\ b.round_contrib[p] <= b.to_call
      /\ b.min_raise \in Nat /\ b.min_raise > 0 /\ b.pot \in Nat
      /\ b.round_contrib[p] <= b.invested[p] /\ b.invested[p] \in Nat
      /\ Chips(b.stack) \in Int /\ ~b.all_in[p] /\ b.active[p]
  BY <1>1, PayKeepsChips DEF Bettings, Sound, Live, Active
<1>5. b.all_in \in [Player -> BOOLEAN] /\ b.acted \in [Player -> BOOLEAN]
  BY DEF Bettings
<1>3. CASE a.kind = "fold"
  <2>1. m = [b EXCEPT !.active[p] = FALSE, !.acted[p] = TRUE]
    BY <1>3 DEF Moved
  <2>2. m \in Bettings
    <3>1. [b.active EXCEPT ![p] = FALSE] \in [Player -> BOOLEAN]
          /\ [b.acted EXCEPT ![p] = TRUE] \in [Player -> BOOLEAN]
      BY DEF Bettings
    <3>2. \A f \in [Player -> BOOLEAN], g \in [Player -> BOOLEAN] :
             [b EXCEPT !.active = f, !.acted = g] \in Bettings
      BY DEF Bettings
    <3>3. m = [b EXCEPT !.active = [b.active EXCEPT ![p] = FALSE],
                        !.acted = [b.acted EXCEPT ![p] = TRUE]]
      BY <2>1
    <3>4. [b EXCEPT !.active = [b.active EXCEPT ![p] = FALSE],
                    !.acted = [b.acted EXCEPT ![p] = TRUE]] \in Bettings
      BY <3>1, <3>2
    <3> QED
      BY <3>3, <3>4
  <2>3. /\ m.stack = b.stack /\ m.pot = b.pot /\ m.to_call = b.to_call
        /\ m.current_bet = b.current_bet /\ m.min_raise = b.min_raise
        /\ m.all_in = b.all_in /\ m.round_contrib = b.round_contrib
        /\ m.invested = b.invested /\ m.to_act = p
        /\ m.terminal = b.terminal /\ m.round_complete = b.round_complete
        /\ m.active = [b.active EXCEPT ![p] = FALSE]
        /\ m.acted = [b.acted EXCEPT ![p] = TRUE]
    BY <2>1 DEF Bettings
  <2>4. ~m.active[p] /\ m.acted[p] /\ p \notin Owes(m)
    BY <1>1, <2>3 DEF Bettings, Owes, Live, Active
  <2>5. \A q \in Player \ {p} : m.active[q] = b.active[q] /\ m.acted[q] = b.acted[q]
    BY <2>3 DEF Bettings
  <2>6. Sound(m)
    BY <2>3 DEF Sound
  <2>7. /\ m.to_call >= b.to_call /\ ~(m.to_call > b.to_call)
        /\ ~(m.to_call - b.to_call >= b.min_raise)
    BY <1>2, <2>3
  <2>8. Answered(b, m, p)
    <3>1. \A q \in Player \ {p} :
            /\ m.active[q] = b.active[q]
            /\ m.all_in[q] <=> b.all_in[q]
            /\ m.round_contrib[q] = b.round_contrib[q]
            /\ m.acted[q] <=> b.acted[q] /\ ~(m.to_call - b.to_call >= b.min_raise /\ q \in Live(b))
      BY <2>3, <2>5, <2>7, Zenon
    <3> QED
      BY <2>2, <2>3, <2>4, <2>6, <2>7, <3>1, Zenon DEF Answered
  <2>9. Costs(b, m, p)
    BY <2>3, <2>4 DEF Costs
  <2>10. Stakes(b, m, p)
    BY <1>2, <2>3, <2>7 DEF Stakes
  <2> QED
    BY <1>1, <1>3, <2>3, <2>8, <2>9, <2>10
<1>4. CASE a.kind # "fold"
  <2>1. /\ c \in Nat /\ c <= b.stack[p]
        /\ b.round_contrib[p] + c >= b.to_call \/ c = b.stack[p]
        /\ b.round_contrib[p] + c > b.to_call => ~b.acted[p]
        /\ a.kind \in {"check", "call"} => b.round_contrib[p] + c = b.to_call
        /\ a.kind \notin {"check", "call"} => c > 0
    BY <1>4, LegalCommitment
  <2> DEFINE level == b.round_contrib[p] + c
             full  == level > b.to_call /\ level - b.to_call >= b.min_raise
  <2>2. /\ d \in Bettings /\ d.to_act = p /\ d.active = b.active
        /\ \A q \in Player :
              /\ d.stack[q] = IF q = p THEN b.stack[q] - c ELSE b.stack[q]
              /\ d.round_contrib[q] = IF q = p THEN b.round_contrib[q] + c ELSE b.round_contrib[q]
              /\ d.invested[q] = IF q = p THEN b.invested[q] + c ELSE b.invested[q]
              /\ d.all_in[q] <=> IF q = p THEN b.stack[p] = c ELSE b.all_in[q]
              /\ d.acted[q] <=> q = p \/ b.acted[q]
        /\ d.to_call = b.to_call /\ d.current_bet = b.current_bet
        /\ d.min_raise = b.min_raise
        /\ d.round_complete = b.round_complete /\ d.terminal = b.terminal
        /\ d.pot = b.pot + c /\ Chips(d.stack) = Chips(b.stack) - c
    BY <1>1, <2>1, PayFields, PayKeepsChips
  <2>3. /\ m \in Bettings /\ m.to_act = p /\ m.active = b.active
        /\ m.stack = d.stack /\ m.round_contrib = d.round_contrib
        /\ m.invested = d.invested /\ m.all_in = d.all_in /\ m.pot = d.pot
        /\ m.to_call = IF level > b.to_call THEN level ELSE b.to_call
        /\ m.current_bet = IF level > b.to_call THEN level ELSE b.current_bet
        /\ m.min_raise = IF full THEN level - b.to_call ELSE b.min_raise
        /\ m.round_complete = b.round_complete /\ m.terminal = b.terminal
        /\ \A q \in Player : m.acted[q] <=> d.acted[q] /\ ~(full /\ q \in Live(d) \ {p})
    <3>1. d.round_contrib[p] = level
      BY <1>1, <1>2, <2>1, <2>2 DEF Bettings
    <3>2. CASE a.kind \in {"check", "call"}
      <4>1. m = d /\ level = b.to_call
        BY <3>2, <1>4, <2>1 DEF Moved
      <4> QED
        BY <1>2, <4>1, <2>2
    <3>3. CASE a.kind \notin {"check", "call"}
      <4>1. m = Raised(b, d)
        BY <3>3, <1>4 DEF Moved
      <4> HIDE DEF d, level, full
      <4>2. (full <=> level > b.to_call /\ level - b.to_call >= b.min_raise)
        BY DEF full
      <4> QED
        BY <1>1, <2>2, <3>1, <4>1, <4>2, RaisedFields
    <3> QED
      BY <3>2, <3>3
  <2> HIDE DEF d, c
  <2>4. \A q \in Player \ {p} :
          /\ m.stack[q] = b.stack[q] /\ m.round_contrib[q] = b.round_contrib[q]
          /\ m.invested[q] = b.invested[q] /\ m.active[q] = b.active[q]
    BY <2>2, <2>3 DEF Bettings
  <2>5. \A q \in Player \ {p} : /\ m.all_in[q] <=> b.all_in[q]
                                /\ d.acted[q] <=> b.acted[q]
                                /\ d.all_in[q] <=> b.all_in[q]
    <3>1. m.all_in = d.all_in
      BY <2>3
    <3>2. \A q \in Player : /\ d.all_in[q] <=> IF q = p THEN b.stack[p] = c ELSE b.all_in[q]
                            /\ d.acted[q] <=> q = p \/ b.acted[q]
      BY <2>2
    <3> QED
      BY <3>1, <3>2, Zenon
  <2>6. /\ m.stack[p] = b.stack[p] - c /\ m.round_contrib[p] = level
        /\ m.invested[p] = b.invested[p] + c
    BY <1>1, <2>2, <2>3 DEF Bettings
  <2>7. /\ m.all_in[p] <=> b.stack[p] = c
        /\ d.acted[p]
    BY <1>1, <2>2, <2>3
  <2>8. Sound(m)
    <3>1. m.current_bet = m.to_call /\ m.min_raise > 0 /\ m.to_call >= b.to_call
      BY <1>2, <2>1, <2>3 DEF Sound
    <3>2. /\ m.all_in[p] <=> m.stack[p] = 0
          /\ m.round_contrib[p] <= m.invested[p] /\ m.round_contrib[p] <= m.to_call
      BY <1>2, <2>1, <2>3, <2>6, <2>7
    <3>3. ASSUME NEW q \in Player \ {p}
          PROVE  /\ m.all_in[q] <=> m.stack[q] = 0
                 /\ m.round_contrib[q] <= m.invested[q] /\ m.round_contrib[q] <= m.to_call
      <4>1. m.all_in[q] <=> m.stack[q] = 0
        BY <2>4, <2>5 DEF Sound
      <4>2. b.round_contrib[q] \in Nat /\ b.round_contrib[q] <= b.to_call /\ m.to_call \in Nat
        BY <2>3 DEF Sound, Bettings
      <4>3. m.round_contrib[q] <= m.invested[q]
        BY <2>4 DEF Sound
      <4> QED
        BY <1>2, <2>4, <3>1, <4>1, <4>2, <4>3
    <3> QED
      BY <3>1, <3>2, <3>3 DEF Sound
  <2>9. m.acted[p] /\ p \notin Owes(m)
    <3>1. m.acted[p]
      BY <1>1, <2>3, <2>7
    <3>2. b.stack[p] = c \/ m.round_contrib[p] >= m.to_call
      BY <1>2, <2>1, <2>3, <2>6
    <3>3. m.round_contrib[p] >= m.to_call => ~(m.round_contrib[p] < m.to_call)
      BY <1>1, <2>3 DEF Bettings
    <3> QED
      BY <2>7, <3>1, <3>2, <3>3 DEF Owes, Live
  <2>10. \A q \in Player \ {p} : q \in Live(d) <=> q \in Live(b)
    BY <2>2, <2>5 DEF Live, Active
  <2>11. full <=> m.to_call - b.to_call >= b.min_raise
    BY <1>2, <2>1, <2>3
  <2>12. \A q \in Player \ {p} :
           m.acted[q] <=> b.acted[q] /\ ~(m.to_call - b.to_call >= b.min_raise /\ q \in Live(b))
    BY <2>3, <2>5, <2>10, <2>11
  <2>13. m.to_call >= b.to_call /\ (m.to_call > b.to_call => ~b.acted[p])
    BY <1>2, <2>1, <2>3
  <2>14. Answered(b, m, p)
    BY <1>2, <2>3, <2>4, <2>5, <2>8, <2>9, <2>12, <2>13 DEF Answered
  <2>15. Costs(b, m, p)
    BY <1>2, <2>1, <2>2, <2>3 DEF Costs
  <2>16. Stakes(b, m, p)
    <3>1. ASSUME NEW q \in Player
          PROVE  /\ m.invested[q] + m.stack[q] = b.invested[q] + b.stack[q]
                 /\ m.invested[q] - m.round_contrib[q] = b.invested[q] - b.round_contrib[q]
      <4>1. CASE q = p
        BY <1>2, <2>1, <2>6, <4>1
      <4>2. CASE q # p
        BY <2>4, <4>2
      <4> QED
        BY <4>1, <4>2
    <3>2. m.round_contrib[p] >= b.round_contrib[p]
      BY <1>2, <2>1, <2>6
    <3>3. m.active[p]
      BY <1>2, <2>3
    <3>4. m.to_call > b.to_call => m.round_contrib[p] = m.to_call
      BY <1>2, <2>1, <2>3, <2>6
    <3> QED
      BY <3>1, <3>2, <3>3, <3>4 DEF Stakes
  <2>17. m.active[p]
    BY <1>2, <2>3
  <2> QED
    <3>1. m.pot + Chips(m.stack) = (b.pot + c) + (Chips(b.stack) - c)
      BY <2>2, <2>3
    <3>2. (b.pot + c) + (Chips(b.stack) - c) = b.pot + Chips(b.stack)
      BY <1>2, <2>1
    <3> QED
      BY <1>1, <2>14, <2>15, <2>16, <2>17, <3>1, <3>2
<1> QED
  BY <1>3, <1>4

------------------------------------------------------------------------------
\* Two states that differ in whose turn it is and in what is over at most.
SameHand(b, f) ==
    /\ f.active = b.active /\ f.all_in = b.all_in /\ f.acted = b.acted
    /\ f.stack = b.stack /\ f.round_contrib = b.round_contrib
    /\ f.invested = b.invested /\ f.pot = b.pot
    /\ f.to_call = b.to_call /\ f.current_bet = b.current_bet /\ f.min_raise = b.min_raise

LEMMA SameHandFacts ==
  ASSUME NEW b, NEW f, SameHand(b, f)
  PROVE  /\ Active(f) = Active(b) /\ Live(f) = Live(b) /\ Owes(f) = Owes(b)
         /\ Sound(f) <=> Sound(b)
<1>1. Active(f) = Active(b) /\ Live(f) = Live(b)
  BY DEF SameHand, Active, Live
<1> QED
  BY <1>1 DEF SameHand, Owes, Sound

\* The turn goes to a seat or to nobody.
LEMMA NextActorType ==
  ASSUME NEW b \in Bettings, NEW from \in Player
  PROVE  NextActor(b, from) \in Player \cup {Nobody}
<1>1. CASE Live(b) = {}
  BY <1>1 DEF NextActor
<1>2. CASE Live(b) # {}
  BY <1>2, NextActorIsNearest DEF Live, Active
<1> QED
  BY <1>1, <1>2

\* finish_if_ready ends the hand of a lone player and the round nobody owes;
\* otherwise it changes nothing.
LEMMA FinishFields ==
  ASSUME NEW b \in Bettings, NEW f, f = FinishIfReady(b)
  PROVE  /\ f \in Bettings /\ SameHand(b, f)
         /\ \/ /\ f.round_complete /\ f.to_act = Nobody
               /\ Owes(b) = {} \/ Cardinality(Active(b)) <= 1
               /\ f.terminal <=> b.terminal \/ Cardinality(Active(b)) <= 1
            \/ f = b /\ Owes(b) # {} /\ ~(Cardinality(Active(b)) <= 1)
         /\ Active(b) # {} /\ f.terminal /\ ~b.terminal => f.winner \in Active(b)
<1>1. CASE Cardinality(Active(b)) <= 1
  <2> DEFINE w == IF Active(b) = {} THEN Nobody ELSE CHOOSE p \in Active(b) : TRUE
  <2>1. w \in Player \cup {Nobody} /\ (Active(b) # {} => w \in Active(b))
    BY DEF Active
  <2>2. f = [b EXCEPT !.terminal = TRUE, !.round_complete = TRUE, !.to_act = Nobody, !.winner = w]
    BY <1>1 DEF FinishIfReady
  <2> HIDE DEF w
  <2>3. /\ f \in Bettings /\ SameHand(b, f) /\ f.round_complete /\ f.terminal
        /\ f.to_act = Nobody /\ f.winner = w
    BY <2>1, <2>2 DEF Bettings, SameHand
  <2> QED
    BY <1>1, <2>1, <2>3
<1>2. CASE ~(Cardinality(Active(b)) <= 1) /\ Owes(b) = {}
  <2>1. f = [b EXCEPT !.round_complete = TRUE, !.to_act = Nobody]
    BY <1>2 DEF FinishIfReady
  <2>2. /\ f \in Bettings /\ SameHand(b, f) /\ f.round_complete
        /\ f.to_act = Nobody /\ f.terminal = b.terminal
    BY <2>1 DEF Bettings, SameHand
  <2> QED
    BY <1>2, <2>2
<1>3. CASE ~(Cardinality(Active(b)) <= 1) /\ Owes(b) # {}
  BY <1>3 DEF FinishIfReady, SameHand
<1> QED
  BY <1>1, <1>2, <1>3

\* The order of turns survives a turn: if those who still owe come before those
\* who do not, seen from the actor, then the next one owes, and they still do.
LEMMA TurnPasses ==
  ASSUME NEW m \in Bettings, NEW p \in Player,
         NEW S, S \subseteq Live(m) \ {p}, S # {},
         \A x \in Live(m) \ (S \cup {p}), q \in S : Turns(p, q) < Turns(p, x),
         NEW n, n = NextActor(m, p)
  PROVE  n \in S /\ \A x \in Live(m) \ S, q \in S : x # n /\ Turns(n, q) < Turns(n, x)
<1>1. Live(m) \subseteq Player /\ \A x \in Player : Turns(p, x) \in Int
  BY PlayerCountAssumption DEF Live, Active, Player, Turns
<1>2. n \in Live(m) /\ n # p /\ \A q \in Live(m) \ {p} : Turns(p, n) <= Turns(p, q)
  BY NextActorIsNearest
<1>3. n \in S
  BY <1>1, <1>2
<1>4. ASSUME NEW x \in Live(m) \ S, NEW q \in S
      PROVE  Turns(n, q) < Turns(n, x)
  <2>1. /\ q \in Player /\ n \in Player /\ x \in Player
        /\ Turns(p, q) \in Int /\ Turns(p, n) \in Int /\ Turns(p, x) \in Int
        /\ Turns(p, n) <= Turns(p, q)
    BY <1>1, <1>2
  <2>2. Turns(n, q) = Turns(p, q) - Turns(p, n) /\ Turns(n, q) < Turns(n, p)
    BY <1>2, <2>1, TurnsShift
  <2>3. CASE x = p
    BY <2>2, <2>3
  <2>4. CASE x # p
    <3>1. Turns(p, q) < Turns(p, x) /\ Turns(p, n) <= Turns(p, x)
      BY <1>2, <2>4
    <3>2. Turns(n, x) = Turns(p, x) - Turns(p, n)
      BY <1>2, <2>1, <3>1, TurnsShift
    <3> QED
      BY <2>1, <2>2, <3>1, <3>2
  <2> QED
    BY <2>3, <2>4
<1> QED
  BY <1>3, <1>4

\* A legal action leads to a valid state: what the answer did, and then either
\* the turn of the next actor, who exists, or the end of the round.
LEMMA ActionApplies ==
  ASSUME NEW b \in Bettings, Sound(b), NEW rules \in Rulebooks,
         NEW a, IsAction(a), IsLegal(rules, b, a),
         NEW m, m = Moved(b, a), NEW f, f = ApplyAction(b, a)
  PROVE  /\ f \in Bettings /\ Sound(f) /\ SameHand(m, f) /\ Validate(f)
         /\ \/ /\ f.round_complete /\ f.to_act = Nobody
               /\ Owes(m) = {} \/ Cardinality(Active(m)) <= 1
               /\ f.terminal <=> Cardinality(Active(m)) <= 1
            \/ /\ ~f.round_complete /\ ~f.terminal /\ Owes(m) # {}
               /\ ~(Cardinality(Active(m)) <= 1)
               /\ f.to_act = NextActor(m, b.to_act)
         /\ Active(m) # {} /\ f.terminal => f.winner \in Active(m)
<1> DEFINE p == b.to_act
           t == [m EXCEPT !.to_act = NextActor(m, p)]
<1>1. p \in Player /\ Answered(b, m, p) /\ ~b.terminal /\ ~b.round_complete
  BY MovedAnswers DEF IsLegal, Live, Active
<1>2. m \in Bettings /\ Sound(m) /\ ~m.terminal /\ ~m.round_complete
  BY <1>1 DEF Answered
<1>3. NextActor(m, p) \in Player \cup {Nobody}
  BY <1>1, <1>2, NextActorType
<1>4. /\ t \in Bettings /\ SameHand(m, t) /\ t.to_act = NextActor(m, p)
      /\ t.terminal = m.terminal /\ t.round_complete = m.round_complete
  BY <1>2, <1>3 DEF Bettings, SameHand
<1>5. Active(t) = Active(m) /\ Owes(t) = Owes(m) /\ Sound(t)
  BY <1>2, <1>4, SameHandFacts
<1>6. f = FinishIfReady(t)
  BY DEF ApplyAction
<1> HIDE DEF t
<1>7. /\ f \in Bettings /\ SameHand(t, f)
      /\ \/ /\ f.round_complete /\ f.to_act = Nobody
            /\ Owes(t) = {} \/ Cardinality(Active(t)) <= 1
            /\ f.terminal <=> t.terminal \/ Cardinality(Active(t)) <= 1
         \/ f = t /\ Owes(t) # {} /\ ~(Cardinality(Active(t)) <= 1)
      /\ Active(t) # {} /\ f.terminal /\ ~t.terminal => f.winner \in Active(t)
  BY <1>4, <1>6, FinishFields
<1>8. SameHand(m, f) /\ Sound(f)
  BY <1>4, <1>5, <1>7, SameHandFacts DEF SameHand
<1>9. \/ /\ f.round_complete /\ f.to_act = Nobody
         /\ Owes(m) = {} \/ Cardinality(Active(m)) <= 1
         /\ f.terminal <=> Cardinality(Active(m)) <= 1
      \/ /\ ~f.round_complete /\ ~f.terminal /\ Owes(m) # {}
         /\ ~(Cardinality(Active(m)) <= 1)
         /\ f.to_act = NextActor(m, p)
  BY <1>2, <1>4, <1>5, <1>7
<1>10. Owes(m) # {} => NextActor(m, p) \in Player
  BY <1>1, <1>2, NextActorIsNearest DEF Owes, Live, Active
<1>11. Validate(f)
  <2>1. f.to_call <= f.current_bet
    BY <1>7, <1>8 DEF Bettings, Sound
  <2>2. \A q \in Player : /\ f.stack[q] >= 0
                          /\ f.all_in[q] => f.stack[q] = 0
                          /\ f.round_contrib[q] <= f.invested[q]
    BY <1>7, <1>8 DEF Bettings, Sound
  <2>3. Nobody \notin Player
    BY PlayerCountAssumption DEF Nobody, Player
  <2> QED
    BY <1>9, <1>10, <2>1, <2>2, <2>3 DEF Validate
<1>12. Active(m) # {} /\ f.terminal => f.winner \in Active(m)
  BY <1>2, <1>4, <1>5, <1>7
<1> QED
  BY <1>7, <1>8, <1>9, <1>11, <1>12
===============================================================================
