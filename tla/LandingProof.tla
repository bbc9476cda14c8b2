---------------------------- MODULE LandingProof ----------------------------
(***************************************************************************)
(* One turn of a room that plays is active, and none of one that is        *)
(* finished. The walk to the next turn ends every turn it passes and       *)
(* leaves the one it adds last active, whatever it finds owed; it goes     *)
(* round the table seat by seat, and passes a seat over for a turn it owes *)
(* and no other.                                                           *)
(*                                                                         *)
(* A pending request rests on a landing that is still good, a landing is   *)
(* used by one request at most, and a turn yields one start reward. The    *)
(* landing of a request is fixed when it is filed; what may change under   *)
(* it is its status, so the invariant says when it may not: while a        *)
(* request waits on it (WaitingOnLandings), and after its reward was       *)
(* settled (RewardKept).                                                   *)
(***************************************************************************)
EXTENDS DeedProof

-----------------------------------------------------------------------------
(* The order of the seats *)

\* What is left of a number that is so many times s and a rest.
LEMMA Remainder ==
  ASSUME NEW s \in Nat \ {0}, NEW q \in Nat, NEW r \in 0 .. s - 1
  PROVE  (s * q + r) % s = r
  OBVIOUS

\* The remainder of the next number is the next remainder, round the circle.
LEMMA NextRemainder ==
  ASSUME NEW s \in Nat \ {0}, NEW n \in Nat
  PROVE  /\ n % s \in 0 .. s - 1
         /\ (n + 1) % s = IF n % s = s - 1 THEN 0 ELSE (n % s) + 1
<1>1. n % s \in 0 .. s - 1
  OBVIOUS
<1>2. n \div s \in Nat
  OBVIOUS
<1>3. n % s = n - s * (n \div s)
  OBVIOUS
<1> DEFINE q == n \div s
           r == n % s
<1>4. q \in Nat /\ r \in 0 .. s - 1 /\ n = s * q + r
  BY <1>1, <1>2, <1>3
<1> HIDE DEF q, r
<1>5. CASE r = s - 1
  <2>1. n + 1 = s * (q + 1) + 0
    BY <1>4, <1>5
  <2>2. (s * (q + 1) + 0) % s = 0
    BY <1>4, Remainder
  <2> QED
    BY <1>1, <1>5, <2>1, <2>2 DEF r
<1>6. CASE r # s - 1
  <2>1. n + 1 = s * q + (r + 1)
    BY <1>4
  <2>2. (s * q + (r + 1)) % s = r + 1
    <3>1. r + 1 \in 0 .. s - 1
      BY <1>4, <1>6
    <3> QED
      BY <1>4, <3>1, Remainder
  <2> QED
    BY <1>1, <1>6, <2>1, <2>2 DEF r
<1> QED
  BY <1>5, <1>6

\* Every playable seat has its place in the order.
LEMMA EverySeatInOrder ==
  ASSUME TypeOK, NEW players \in PlayersInOrder, NEW p \in playable
  PROVE  \E i \in 0 .. Seats - 1 : players[i] = p
<1>1. playable \subseteq Nat /\ IsFiniteSet(playable) /\ Seats \in Nat
  BY SeatsType, PlayerAssumption DEF TypeOK
<1>2. /\ players \in [0 .. Seats - 1 -> playable]
      /\ \A i, j \in 0 .. Seats - 1 : i < j => players[i] < players[j]
  BY DEF PlayersInOrder
<1>3. players \in Injection(0 .. Seats - 1, playable)
  <2>1. ASSUME NEW i \in 0 .. Seats - 1, NEW j \in 0 .. Seats - 1, i # j
        PROVE  players[i] # players[j]
    <3>1. players[i] \in Nat /\ players[j] \in Nat
      BY <1>1, <1>2
    <3>2. i < j \/ j < i
      BY <1>1, <2>1
    <3> QED
      BY <1>2, <3>1, <3>2
  <2> QED
    BY <1>2, <2>1 DEF Injection, IsInjective
<1>4. Cardinality(0 .. Seats - 1) = Cardinality(playable)
  BY <1>1, FS_Interval DEF Seats
<1>5. players \in Surjection(0 .. Seats - 1, playable)
  BY <1>1, <1>3, <1>4, FS_Injection
<1> QED
  BY <1>5 DEF Surjection

\* The next seat at the table is the next one in the order.
LEMMA NextInOrder ==
  ASSUME TypeOK, Seats > 0, NEW players \in PlayersInOrder, NEW i \in 0 .. Seats - 1
  PROVE  NextSeat(players[i]) = players[IF i = Seats - 1 THEN 0 ELSE i + 1]
<1>1. playable \subseteq Nat /\ Seats \in Nat
  BY SeatsType, PlayerAssumption DEF TypeOK
<1>2. \A k \in 0 .. Seats - 1 : players[k] \in playable /\ players[k] \in Nat
  BY <1>1 DEF PlayersInOrder
<1>3. ASSUME NEW k \in 0 .. Seats - 1, NEW j \in 0 .. Seats - 1
      PROVE  players[k] < players[j] <=> k < j
  <2>1. k < j => players[k] < players[j]
    BY DEF PlayersInOrder
  <2>2. j < k => players[j] < players[k]
    BY DEF PlayersInOrder
  <2>3. players[k] \in Nat /\ players[j] \in Nat /\ k \in Int /\ j \in Int
    BY <1>2
  <2> QED
    BY <2>1, <2>2, <2>3
<1>4. ASSUME NEW q \in playable PROVE \E j \in 0 .. Seats - 1 : players[j] = q
  BY EverySeatInOrder
<1>5. CASE i = Seats - 1
  <2>1. ASSUME NEW q \in playable PROVE ~ (q > players[i])
    <3>1. PICK j \in 0 .. Seats - 1 : players[j] = q
      BY <1>4
    <3>2. ~ (i < j)
      BY <1>1, <1>5
    <3> QED
      BY <1>2, <1>3, <3>1, <3>2
  <2>2. 0 \in 0 .. Seats - 1
    BY <1>1
  <2>3. ASSUME NEW q \in playable PROVE players[0] <= q
    <3>1. PICK j \in 0 .. Seats - 1 : players[j] = q
      BY <1>4
    <3>2. ~ (players[j] < players[0])
      BY <1>3, <2>2, <3>1
    <3> QED
      BY <1>2, <2>2, <3>1, <3>2
  <2>4. ASSUME NEW q \in playable, \A s \in playable : q <= s PROVE q = players[0]
    BY <1>1, <1>2, <2>2, <2>3, <2>4
  <2> QED
    BY <1>2, <1>5, <2>1, <2>2, <2>3, <2>4 DEF NextSeat
<1>6. CASE i # Seats - 1
  <2>1. i + 1 \in 0 .. Seats - 1
    BY <1>1, <1>6
  <2> DEFINE next == players[i + 1]
  <2>2. next \in playable /\ next > players[i]
    BY <1>2, <1>3, <2>1
  <2>3. ASSUME NEW q \in playable, q > players[i] PROVE next <= q
    <3>1. PICK j \in 0 .. Seats - 1 : players[j] = q
      BY <1>4
    <3>2. i < j
      BY <1>2, <1>3, <2>3, <3>1
    <3>3. ~ (j < i + 1)
      BY <1>1, <3>2
    <3>4. ~ (players[j] < next)
      BY <1>3, <2>1, <3>3
    <3> QED
      BY <1>2, <2>1, <3>1, <3>4
  <2> HIDE DEF next
  <2>4. ASSUME NEW q \in playable, q > players[i],
               \A s \in playable : s > players[i] => q <= s
        PROVE  q = next
    <3>1. q <= next /\ next <= q
      BY <2>2, <2>3, <2>4
    <3> QED
      BY <1>1, <2>2, <3>1
  <2>5. NextSeat(players[i]) = next
    BY <2>2, <2>3, <2>4 DEF NextSeat
  <2> QED
    BY <1>6, <2>5 DEF next
<1> QED
  BY <1>5, <1>6

\* So does the walk: each stop is at the seat after the last.
LEMMA StopAfterStop ==
  ASSUME TypeOK, Seats > 0, NEW players \in PlayersInOrder, NEW k \in Nat
  PROVE  /\ players[k % Seats] \in playable
         /\ players[(k + 1) % Seats] = NextSeat(players[k % Seats])
<1>1. Seats \in Nat \ {0}
  BY SeatsType
<1>2. /\ k % Seats \in 0 .. Seats - 1
      /\ (k + 1) % Seats = IF k % Seats = Seats - 1 THEN 0 ELSE (k % Seats) + 1
  BY <1>1, NextRemainder
<1>3. players[k % Seats] \in playable
  BY <1>2 DEF PlayersInOrder
<1> QED
  BY <1>2, <1>3, NextInOrder

-----------------------------------------------------------------------------
(* One active turn *)

\* Turns begin with the game.
LobbyHasNoTurns == status = "LOBBY" => turn = <<>>

\* The inductive invariant of the turns.
TurnInv == TypeInv /\ OneActiveTurn /\ LobbyHasNoTurns

\* A walk from index `from` that passes over `steps` seats: it adds an ended turn
\* for each of them, then the active one, and takes the visits off the counters.
WalksOver(steps, players, from, rows, owes) ==
  /\ Len(turn') = Len(rows) + steps + 1 /\ DOMAIN turn' = 1 .. Len(turn')
  /\ \A k \in 1 .. Len(rows) : turn'[k] = rows[k]
  /\ \A k \in 0 .. steps :
       /\ turn'[Len(rows) + k + 1].player = players[(from + k) % Seats]
       /\ turn'[Len(rows) + k + 1].status = IF k = steps THEN "ACTIVE" ELSE "ENDED"
  /\ current' = players[(from + steps) % Seats]
  /\ owed' = [q \in Player |-> owes[q] - Visits(players, from, q, steps)]
  /\ Visits(players, from, current', steps) >= owes[current']

\* The walk to the next actionable turn is such a walk.
LEMMA WalkRows ==
  ASSUME TypeOK, NEW players \in PlayersInOrder, NEW from \in Nat, Seats > 0,
         NEW rows \in Seq(TurnRow), NEW owes, NEW units,
         NextActionableTurn(players, from, rows, owes, units)
  PROVE  \E steps \in Nat : WalksOver(steps, players, from, rows, owes)
<1> DEFINE at(k) == players[(from + k) % Seats]
<1>1. PICK steps \in 0 .. MaxTurn :
        /\ Visits(players, from, at(steps), steps) >= owes[at(steps)]
        /\ owed' = [q \in Player |-> owes[q] - Visits(players, from, q, steps)]
        /\ turn' = rows
             \o [k \in 1..steps |-> [player |-> at(k - 1),
                                     status |-> "ENDED", rolled |-> FALSE]]
             \o << [player |-> at(steps), status |-> "ACTIVE", rolled |-> FALSE] >>
        /\ current' = at(steps)
  BY DEF NextActionableTurn
<1>2. steps \in Nat
  BY BoundAssumption
<1>3. \A k \in Nat : at(k) \in Player
  <2> TAKE k \in Nat
  <2> QED
    BY StopType
<1>4. SUFFICES /\ Len(turn') = Len(rows) + steps + 1 /\ DOMAIN turn' = 1 .. Len(turn')
               /\ \A k \in 1 .. Len(rows) : turn'[k] = rows[k]
               /\ \A k \in 0 .. steps :
                    /\ turn'[Len(rows) + k + 1].player = at(k)
                    /\ turn'[Len(rows) + k + 1].status
                         = IF k = steps THEN "ACTIVE" ELSE "ENDED"
  BY <1>1, <1>2 DEF WalksOver
<1> HIDE DEF at
<1> DEFINE passed == [k \in 1..steps |-> [player |-> at(k - 1),
                                          status |-> "ENDED", rolled |-> FALSE]]
           active == [player |-> at(steps), status |-> "ACTIVE", rolled |-> FALSE]
           walked == rows \o passed
<1>5. passed \in Seq(TurnRow) /\ Len(passed) = steps
  <2>1. passed \in [1 .. steps -> TurnRow]
    BY <1>2, <1>3 DEF TurnRow
  <2> QED
    BY <1>2, <2>1
<1>6. \A k \in 0 .. steps - 1 :
        passed[k + 1].player = at(k) /\ passed[k + 1].status = "ENDED"
  BY <1>2
<1>7. active \in TurnRow /\ active.player = at(steps) /\ active.status = "ACTIVE"
  BY <1>2, <1>3 DEF TurnRow
<1>8. turn' = Append(walked, active)
  <2>1. turn' = walked \o << active >>
    BY <1>1
  <2>2. walked \in Seq(TurnRow)
    BY <1>5, ConcatProperties
  <2> HIDE DEF walked, active
  <2> QED
    BY <1>7, <2>1, <2>2
<1> HIDE DEF passed, active
<1>9. /\ walked \in Seq(TurnRow) /\ Len(walked) = Len(rows) + steps
      /\ \A k \in 1 .. Len(rows) + steps :
           walked[k] = IF k <= Len(rows) THEN rows[k] ELSE passed[k - Len(rows)]
  BY <1>2, <1>5, ConcatProperties
<1> HIDE DEF walked
<1>10. /\ Len(turn') = Len(walked) + 1 /\ DOMAIN turn' = 1 .. Len(turn')
       /\ \A k \in 1 .. Len(walked) : turn'[k] = walked[k]
       /\ turn'[Len(walked) + 1] = active
  BY <1>7, <1>8, <1>9, AppendProperties
<1>11. Len(rows) \in Nat
  OBVIOUS
<1>12. ASSUME NEW k \in 1 .. Len(rows) PROVE turn'[k] = rows[k]
  BY <1>2, <1>9, <1>10, <1>11
<1>13. ASSUME NEW k \in 0 .. steps
       PROVE  /\ turn'[Len(rows) + k + 1].player = at(k)
              /\ turn'[Len(rows) + k + 1].status = IF k = steps THEN "ACTIVE" ELSE "ENDED"
  <2>1. CASE k = steps
    BY <1>7, <1>9, <1>10, <2>1
  <2>2. CASE k # steps
    <3>1. k \in 0 .. steps - 1 /\ Len(rows) + k + 1 \in 1 .. Len(rows) + steps
      BY <1>2, <1>11, <2>2
    <3>2. ~ (Len(rows) + k + 1 <= Len(rows)) /\ Len(rows) + k + 1 - Len(rows) = k + 1
      BY <1>2, <1>11
    <3>3. turn'[Len(rows) + k + 1] = passed[k + 1]
      BY <1>9, <1>10, <3>1, <3>2
    <3> QED
      BY <1>6, <2>2, <3>1, <3>3
  <2> QED
    BY <2>1, <2>2
<1> QED
  BY <1>2, <1>9, <1>10, <1>11, <1>12, <1>13

\* What the walk leaves: of turns that have all ended, the one it adds last is
\* active, and it belongs to a playable seat.
LEMMA WalkTurn ==
  ASSUME TypeOK, NEW players \in PlayersInOrder, NEW from \in Nat, Seats > 0,
         NEW rows \in Seq(TurnRow), \A k \in DOMAIN rows : rows[k].status # "ACTIVE",
         NEW owes, NEW units,
         NextActionableTurn(players, from, rows, owes, units)
  PROVE  /\ ActiveTurns' = {Len(turn')}
         /\ current' = turn'[Len(turn')].player
         /\ current' \in playable
         /\ Len(turn') > Len(rows)
<1>1. PICK steps \in Nat : WalksOver(steps, players, from, rows, owes)
  BY WalkRows
<1> DEFINE at(k) == players[(from + k) % Seats]
<1>2. /\ Len(turn') = Len(rows) + steps + 1 /\ DOMAIN turn' = 1 .. Len(turn')
      /\ \A k \in 1 .. Len(rows) : turn'[k] = rows[k]
      /\ \A k \in 0 .. steps :
           /\ turn'[Len(rows) + k + 1].player = at(k)
           /\ turn'[Len(rows) + k + 1].status = IF k = steps THEN "ACTIVE" ELSE "ENDED"
      /\ current' = at(steps)
  BY <1>1 DEF WalksOver
<1>3. current' \in playable
  BY <1>2, StopAfterStop
<1> HIDE DEF at
<1>4. Len(rows) \in Nat /\ DOMAIN rows = 1 .. Len(rows)
  OBVIOUS
<1>5. /\ turn'[Len(turn')].status = "ACTIVE" /\ turn'[Len(turn')].player = at(steps)
      /\ Len(turn') \in DOMAIN turn'
  BY <1>2, <1>4
<1>6. ASSUME NEW k \in DOMAIN turn', k # Len(turn') PROVE turn'[k].status # "ACTIVE"
  <2>1. k \in Nat /\ k > 0 /\ k < Len(rows) + steps + 1
    <3>1. k \in 1 .. Len(rows) + steps + 1 /\ k # Len(rows) + steps + 1
      BY <1>2, <1>6
    <3> QED
      BY <1>4, <3>1
  <2>2. CASE k <= Len(rows)
    BY <1>2, <1>4, <2>1, <2>2
  <2>3. CASE k > Len(rows)
    <3> DEFINE i == k - Len(rows) - 1
    <3>1. i \in 0 .. steps /\ i # steps /\ k = Len(rows) + i + 1
      BY <1>4, <2>1, <2>3
    <3> HIDE DEF i
    <3> QED
      BY <1>2, <3>1
  <2> QED
    BY <1>4, <2>1, <2>2, <2>3
<1>7. ActiveTurns' = {Len(turn')}
  BY <1>5, <1>6 DEF ActiveTurns
<1> QED
  BY <1>2, <1>3, <1>4, <1>5, <1>7

\* Ranges from 1 that are the same set have the same end.
LEMMA SameRange ==
  ASSUME NEW m \in Nat, NEW n \in Nat, 1 .. m = 1 .. n
  PROVE  m = n
<1>1. m < n => n \in 1 .. n /\ n \notin 1 .. m
  OBVIOUS
<1>2. m > n => m \in 1 .. m /\ m \notin 1 .. n
  OBVIOUS
<1> QED
  BY <1>1, <1>2

\* So it is when the only active turn ends first.
LEMMA PassOnTurn ==
  ASSUME TurnInv, status = "PLAYING", DiceMode = "ELECTRONIC",
         NEW n \in ActiveTurns, NEW p, NEW owes, NEW units, PassOn(n, p, owes, units),
         UNCHANGED roomVars
  PROVE  OneActiveTurn' /\ Len(turn') > Len(turn)
<1> DEFINE rows == [turn EXCEPT ![n].status = "ENDED"]
<1>1. PICK players \in PlayersInOrder, i \in 0 .. Seats - 1 :
        NextActionableTurn(players, i + 1, rows, owes, units)
  BY DEF PassOn
<1>2. Seats > 0 /\ i + 1 \in Nat
  BY SeatsType DEF TurnInv, TypeInv
<1>3. rows \in Seq(TurnRow) /\ Len(rows) = Len(turn)
  <2>1. rows \in Seq(TurnRow)
    BY TurnRowChange DEF TurnInv, TypeInv
  <2>2. DOMAIN rows = DOMAIN turn /\ turn \in Seq(TurnRow)
    BY DEF TurnInv, TypeInv, TypeOK
  <2> HIDE DEF rows
  <2>3. DOMAIN rows = 1 .. Len(rows) /\ DOMAIN turn = 1 .. Len(turn)
    BY <2>1, <2>2
  <2>4. Len(rows) \in Nat /\ Len(turn) \in Nat
    BY <2>1, <2>2
  <2> QED
    BY <2>1, <2>2, <2>3, <2>4, SameRange
<1>4. \A k \in DOMAIN rows : rows[k].status # "ACTIVE"
  <2>1. \A k \in DOMAIN turn : turn[k] \in TurnRow
    BY DEF TurnInv, TypeInv, TypeOK
  <2>2. \A k \in DOMAIN turn : k # n => turn[k].status # "ACTIVE"
    BY DEF TurnInv, OneActiveTurn, ActiveTurns
  <2> QED
    BY <2>1, <2>2 DEF TurnRow
<1> HIDE DEF rows
<1>5. /\ ActiveTurns' = {Len(turn')}
      /\ current' = turn'[Len(turn')].player
      /\ current' \in playable
      /\ Len(turn') > Len(rows)
  BY <1>1, <1>2, <1>3, <1>4, WalkTurn DEF TurnInv, TypeInv
<1> QED
  BY <1>3, <1>5 DEF OneActiveTurn, roomVars

\* Most commands leave the turns and the seats alone.
LEMMA TurnsKept ==
  ASSUME TypeInv,
         LandingStep \/ DeedRequestStep \/ CashRequestStep \/ SettleStep
           \/ MoneyStep \/ BankStep
  PROVE  UNCHANGED <<status, playable, current, turn>>
<1>1. CASE LandingStep
  BY <1>1 DEF LandingStep, DeclareLandingOnTurn, DeclareLandingOnBoard,
              DeclareStartOnTurn, DeclareStartOnBoard, ConfirmLanding,
              CancelLandingPropertyActions, roomVars, turnVars
<1>2. CASE DeedRequestStep
  BY <1>2, DeedRequestEffect DEF FilesDeedRequest, FileFor, File, roomVars, turnVars
<1>3. CASE CashRequestStep
  BY <1>3, CashRequestEffect DEF FilesCashRequest, File, roomVars, turnVars
<1>4. CASE SettleStep
  <2>1. ASSUME NEW r \in RequestId, ConfirmTrade(r) \/ Reject(r)
        PROVE  UNCHANGED <<status, playable, current, turn>>
    BY <2>1 DEF ConfirmTrade, Reject, roomVars, turnVars
  <2>2. ASSUME NEW r \in RequestId, ApproveCash(r)
        PROVE  UNCHANGED <<status, playable, current, turn>>
    BY <2>2, ApproveCashEffect DEF ExecutesPlainly, Execute, roomVars
  <2>3. ASSUME NEW r \in RequestId, ApproveDeed(r)
        PROVE  UNCHANGED <<status, playable, current, turn>>
    BY <2>3, ApproveDeedEffect DEF ExecutesDeed, ExecuteDeed, Execute, roomVars, turnVars
  <2> QED
    BY <1>4, <2>1, <2>2, <2>3 DEF SettleStep, Approve, ApproveCash, ApproveDeed
<1>5. CASE MoneyStep
  <2>1. MovesCash \/ ReverseLatest
    BY <1>5, MovesCashEffect DEF MoneyStep
  <2> QED
    BY <2>1 DEF MovesCash, ReverseLatest, roomVars, turnVars
<1>6. CASE BankStep
  BY <1>6 DEF BankStep, AdjustProperty, AddSkipTurns, ConsumeSkip, roomVars, turnVars
<1> QED
  BY <1>1, <1>2, <1>3, <1>4, <1>5, <1>6

\* A step that leaves turns and seats alone leaves the active turn.
LEMMA SameTurns ==
  ASSUME OneActiveTurn, UNCHANGED <<status, playable, current, turn>>
  PROVE  OneActiveTurn'
  BY DEF OneActiveTurn, ActiveTurns

\* Rolling or unrolling a turn leaves it active.
LEMMA RolledTurn ==
  ASSUME TurnInv, NEW n \in ActiveTurns, NEW b \in BOOLEAN,
         turn' = [turn EXCEPT ![n].rolled = b], UNCHANGED <<status, playable, current>>
  PROVE  OneActiveTurn'
<1>1. turn \in Seq(TurnRow) /\ n \in DOMAIN turn
  BY DEF TurnInv, TypeInv, TypeOK, ActiveTurns
<1>2. /\ Len(turn') = Len(turn) /\ DOMAIN turn' = DOMAIN turn
      /\ \A k \in DOMAIN turn : /\ turn'[k].status = turn[k].status
                                /\ turn'[k].player = turn[k].player
  <2>1. \A k \in DOMAIN turn : turn[k] \in TurnRow
    BY <1>1
  <2> QED
    BY <1>1, <2>1 DEF TurnRow
<1>3. ActiveTurns' = ActiveTurns
  BY <1>2 DEF ActiveTurns
<1> HIDE DEF ActiveTurns
<1>4. status = "PLAYING" /\ DiceMode = "ELECTRONIC" => Len(turn) \in DOMAIN turn
  BY DEF TurnInv, OneActiveTurn, ActiveTurns
<1> QED
  BY <1>2, <1>3, <1>4 DEF TurnInv, OneActiveTurn

\* A closed room has no active turn.
LEMMA ClosedTurns ==
  ASSUME TypeInv, CloseRoom
  PROVE  ActiveTurns' = {} /\ OneActiveTurn'
<1>1. \A k \in DOMAIN turn : turn[k] \in TurnRow
  BY DEF TypeInv, TypeOK
<1>2. ActiveTurns' = {}
  BY <1>1 DEF CloseRoom, ActiveTurns, TurnRow
<1> QED
  BY <1>2 DEF CloseRoom, OneActiveTurn

\* The turn commands leave one active turn.
LEMMA TurnStepTurns ==
  ASSUME TurnInv, TurnStep
  PROVE  OneActiveTurn'
<1>1. CASE Start
  <2>1. CASE DiceMode = "ELECTRONIC"
    <3>1. PICK players \in PlayersInOrder :
            NextActionableTurn(players, 0, <<>>, owed, skip)
      BY <1>1, <2>1 DEF Start
    <3>2. Seats > 0
      BY <1>1, SeatsType DEF Start, TurnInv, TypeInv
    <3>3. <<>> \in Seq(TurnRow) /\ DOMAIN <<>> = {}
      OBVIOUS
    <3>4. /\ ActiveTurns' = {Len(turn')}
          /\ current' = turn'[Len(turn')].player
          /\ current' \in playable
      BY <3>1, <3>2, <3>3, WalkTurn DEF TurnInv, TypeInv
    <3> QED
      BY <1>1, <2>1, <3>4 DEF Start, OneActiveTurn
  <2>2. CASE DiceMode # "ELECTRONIC"
    BY <1>1, <2>2 DEF Start, TurnInv, OneActiveTurn, ActiveTurns, turnVars
  <2> QED
    BY <2>1, <2>2
<1>2. ASSUME NEW p \in Player, Roll(p) PROVE OneActiveTurn'
  BY <1>2, RolledTurn DEF Roll, roomVars
<1>3. ASSUME NEW p \in Player, EndTurn(p) PROVE OneActiveTurn'
  BY <1>3, PassOnTurn DEF EndTurn
<1>4. ASSUME NEW p \in Player, SkipTurn(p) PROVE OneActiveTurn'
  BY <1>4, PassOnTurn DEF SkipTurn
<1>5. CASE ForceNext
  BY <1>5, PassOnTurn DEF ForceNext
<1>6. CASE InvalidateRoll
  BY <1>6, RolledTurn DEF InvalidateRoll, roomVars
<1> QED
  BY <1>1, <1>2, <1>3, <1>4, <1>5, <1>6 DEF TurnStep

\* Joining adds a seat, finishing ends every turn.
LEMMA RoomStepTurns ==
  ASSUME TurnInv, RoomStep
  PROVE  OneActiveTurn'
<1>1. CASE SetApprovalMode
  BY <1>1, SameTurns DEF SetApprovalMode, turnVars, TurnInv
<1>2. ASSUME NEW p \in Player, JoinMidgame(p) PROVE OneActiveTurn'
  BY <1>2 DEF JoinMidgame, turnVars, TurnInv, OneActiveTurn, ActiveTurns
<1>3. CASE FinishNormal \/ FinishForced
  BY <1>3, ClosedTurns DEF FinishNormal, FinishForced, TurnInv
<1> QED
  BY <1>1, <1>2, <1>3 DEF RoomStep

\* Only the start of the game gives the lobby turns, and it ends the lobby.
LEMMA LobbyStep ==
  ASSUME TurnInv, Next
  PROVE  LobbyHasNoTurns'
<1>1. CASE TurnStep
  <2>1. CASE Start \/ \E p \in Player : Roll(p) \/ EndTurn(p) \/ SkipTurn(p)
    BY <2>1 DEF Start, Roll, EndTurn, SkipTurn, roomVars, LobbyHasNoTurns
  <2>2. CASE ForceNext
    BY <2>2 DEF ForceNext, roomVars, LobbyHasNoTurns
  <2>3. CASE InvalidateRoll
    BY <2>3 DEF InvalidateRoll, roomVars, LobbyHasNoTurns, TurnInv, OneActiveTurn
  <2> QED
    BY <1>1, <2>1, <2>2, <2>3 DEF TurnStep
<1>2. CASE RoomStep
  BY <1>2 DEF RoomStep, SetApprovalMode, JoinMidgame, FinishNormal, FinishForced, CloseRoom,
              turnVars, LobbyHasNoTurns, TurnInv
<1>3. CASE LandingStep \/ DeedRequestStep \/ CashRequestStep \/ SettleStep \/ MoneyStep
             \/ BankStep
  BY <1>3, TurnsKept DEF TurnInv, LobbyHasNoTurns
<1> QED
  BY <1>1, <1>2, <1>3 DEF Next

\* TurnInv holds in every reachable state of every room.
THEOREM TurnInvariant == Spec => []TurnInv
<1>1. Init => TurnInv
  BY InitTypeInv DEF Init, TurnInv, OneActiveTurn, ActiveTurns, LobbyHasNoTurns
<1>2. TurnInv /\ [Next]_vars => TurnInv'
  <2> SUFFICES ASSUME TurnInv, [Next]_vars PROVE TurnInv'
    OBVIOUS
  <2>1. TypeInv'
    BY TypeInvStep DEF TurnInv
  <2>2. OneActiveTurn'
    BY TurnStepTurns, RoomStepTurns, TurnsKept, SameTurns DEF Next, TurnInv, vars
  <2>3. LobbyHasNoTurns'
    BY LobbyStep DEF TurnInv, LobbyHasNoTurns, vars
  <2> QED
    BY <2>1, <2>2, <2>3 DEF TurnInv
<1> QED
  BY <1>1, <1>2, PTL DEF Spec

\* However turns are rolled, ended, skipped, forced or voided, and whoever
\* joins in between, a running electronic room has one active turn: the
\* newest, of the seated player the room names.
THEOREM TurnsHaveOneActive == Spec => []OneActiveTurn
<1>1. TurnInv => OneActiveTurn
  BY DEF TurnInv
<1> QED
  BY <1>1, TurnInvariant, PTL

-----------------------------------------------------------------------------
(* Turns go round the table *)

\* The walk to the next actionable turn visits the seats one after the other,
\* from the one at its start.
LEMMA WalkGoesRound ==
  ASSUME TypeOK, NEW players \in PlayersInOrder, NEW from \in Nat, Seats > 0,
         NEW rows \in Seq(TurnRow), NEW owes, NEW units,
         NextActionableTurn(players, from, rows, owes, units)
  PROVE  /\ turn'[Len(rows) + 1].player = players[from % Seats]
         /\ \A k \in Len(rows) + 1 .. Len(turn') - 1 :
              turn'[k + 1].player = NextSeat(turn'[k].player)
<1>1. PICK steps \in Nat : WalksOver(steps, players, from, rows, owes)
  BY WalkRows
<1>2. Len(rows) \in Nat /\ Len(turn') = Len(rows) + steps + 1
  BY <1>1 DEF WalksOver
<1>3. ASSUME NEW k \in 0 .. steps
      PROVE  turn'[Len(rows) + k + 1].player = players[(from + k) % Seats]
  BY <1>1 DEF WalksOver
<1>4. turn'[Len(rows) + 1].player = players[from % Seats]
  <2>1. 0 \in 0 .. steps /\ Len(rows) + 0 + 1 = Len(rows) + 1 /\ from + 0 = from
    BY <1>2
  <2> QED
    BY <1>3, <2>1
<1>5. ASSUME NEW k \in Len(rows) + 1 .. Len(turn') - 1
      PROVE  turn'[k + 1].player = NextSeat(turn'[k].player)
  <2> DEFINE i == k - Len(rows) - 1
  <2>1. /\ i \in 0 .. steps /\ i + 1 \in 0 .. steps /\ from + i \in Nat
        /\ Len(rows) + i + 1 = k /\ Len(rows) + (i + 1) + 1 = k + 1
        /\ from + (i + 1) = (from + i) + 1
    BY <1>2
  <2> HIDE DEF i
  <2>2. /\ turn'[k].player = players[(from + i) % Seats]
        /\ turn'[k + 1].player = players[((from + i) + 1) % Seats]
    BY <1>3, <2>1
  <2> QED
    BY <2>1, <2>2, StopAfterStop
<1> QED
  BY <1>4, <1>5

\* As many turns are added ended for a seat as its counter is lowered, and who
\* gets the active turn owes none.
LEMMA WalkPays ==
  ASSUME TypeOK, TypeOK', NEW players \in PlayersInOrder, NEW from \in Nat, Seats > 0,
         NEW rows \in Seq(TurnRow), NEW owes \in [Player -> Int], NEW units,
         NextActionableTurn(players, from, rows, owes, units)
  PROVE  /\ owed'[current'] = 0
         /\ \A p \in Player :
              owed'[p] + Cardinality({k \in Len(rows) + 1 .. Len(turn') :
                                        turn'[k].player = p /\ turn'[k].status = "ENDED"})
                = owes[p]
<1>1. PICK steps \in Nat : WalksOver(steps, players, from, rows, owes)
  BY WalkRows
<1>2. /\ Len(rows) \in Nat /\ Len(turn') = Len(rows) + steps + 1
      /\ \A k \in 0 .. steps :
           /\ turn'[Len(rows) + k + 1].player = players[(from + k) % Seats]
           /\ turn'[Len(rows) + k + 1].status = IF k = steps THEN "ACTIVE" ELSE "ENDED"
  BY <1>1 DEF WalksOver
<1>3. \A q \in Player : /\ Visits(players, from, q, steps) \in Nat
                        /\ owed'[q] = owes[q] - Visits(players, from, q, steps)
                        /\ owes[q] \in Int /\ owed'[q] \in Nat
  BY <1>1, VisitsType DEF TypeOK, WalksOver
<1>4. current' \in Player
  BY <1>1, StopType DEF WalksOver
<1>5. owed'[current'] = 0
  BY <1>1, <1>3, <1>4 DEF WalksOver
<1>6. ASSUME NEW p \in Player
      PROVE  Cardinality({k \in Len(rows) + 1 .. Len(turn') :
                            turn'[k].player = p /\ turn'[k].status = "ENDED"})
               = Visits(players, from, p, steps)
  <2> DEFINE V == {i \in 0 .. steps - 1 : players[(from + i) % Seats] = p}
             E == {k \in Len(rows) + 1 .. Len(turn') :
                     turn'[k].player = p /\ turn'[k].status = "ENDED"}
             f == [i \in V |-> Len(rows) + i + 1]
  <2>1. IsFiniteSet(V)
    <3>1. IsFiniteSet(0 .. steps - 1)
      BY FS_Interval
    <3> QED
      BY <3>1, FS_Subset
  <2>2. ASSUME NEW i \in V PROVE f[i] \in E /\ f[i] = Len(rows) + i + 1
    <3>1. i \in 0 .. steps /\ i # steps /\ Len(rows) + i + 1 \in Len(rows) + 1 .. Len(turn')
      BY <1>2
    <3>2. /\ turn'[Len(rows) + i + 1].player = p
          /\ turn'[Len(rows) + i + 1].status = "ENDED"
      BY <1>2, <3>1
    <3> QED
      BY <3>1, <3>2
  <2>3. ASSUME NEW k \in E PROVE \E i \in V : f[i] = k
    <3> DEFINE i == k - Len(rows) - 1
    <3>1. i \in 0 .. steps /\ Len(rows) + i + 1 = k
      BY <1>2
    <3> HIDE DEF i
    <3>2. i # steps /\ players[(from + i) % Seats] = p
      <4>1. turn'[k].player = p /\ turn'[k].status = "ENDED"
        OBVIOUS
      <4> QED
        BY <1>2, <3>1, <4>1
    <3>3. i \in V
      BY <3>1, <3>2
    <3> QED
      BY <2>2, <3>1, <3>3
  <2>4. ASSUME NEW i \in V, NEW j \in V, f[i] = f[j] PROVE i = j
    <3>1. i \in Int /\ j \in Int /\ Len(rows) + i + 1 = Len(rows) + j + 1
      BY <2>2, <2>4
    <3> QED
      BY <1>2, <3>1
  <2>5. f \in Bijection(V, E)
    <3> f \in [V -> E]
      BY <2>2
    <3> HIDE DEF f, V, E
    <3> QED
      BY <2>3, <2>4 DEF Bijection, Injection, Surjection, IsInjective
  <2>6. Cardinality(E) = Cardinality(V)
    <3> HIDE DEF f, V, E
    <3> QED
      BY <2>1, <2>5, FS_Bijection DEF ExistsBijection
  <2> QED
    BY <2>6 DEF Visits
<1> QED
  BY <1>3, <1>5, <1>6

\* The active turn ends, of the player whose turn it is, and the walk goes on
\* from there, with the counters as the command leaves them.
PassesOn ==
  /\ UNCHANGED roomVars
  /\ \E n \in ActiveTurns : \E owes, units :
       /\ owes = owed \/ owes = [owed EXCEPT ![current] = @ - 1]
       /\ PassOn(n, turn[n].player, owes, units)

\* A step starts the turns, passes the turn on, or adds no turn.
LEMMA TurnsAdded ==
  ASSUME TurnInv, Next
  PROVE  \/ Start /\ DiceMode = "ELECTRONIC"
         \/ status = "PLAYING" /\ DiceMode = "ELECTRONIC" /\ PassesOn
         \/ DOMAIN turn' = DOMAIN turn
<1>1. CASE TurnStep
  <2>1. ASSUME NEW n \in ActiveTurns, status = "PLAYING", DiceMode = "ELECTRONIC"
        PROVE  turn[n].player = current
    BY <2>1 DEF TurnInv, OneActiveTurn
  <2>2. ASSUME NEW p \in Player, EndTurn(p) \/ SkipTurn(p)
        PROVE  status = "PLAYING" /\ DiceMode = "ELECTRONIC" /\ PassesOn
    BY <2>1, <2>2 DEF EndTurn, SkipTurn, PassesOn
  <2>3. CASE ForceNext
    BY <2>3 DEF ForceNext, PassesOn
  <2>4. CASE Start
    BY <2>4 DEF Start, DiceAssumption, turnVars
  <2>5. ASSUME NEW p \in Player, Roll(p) PROVE DOMAIN turn' = DOMAIN turn
    BY <2>5 DEF Roll
  <2>6. CASE InvalidateRoll
    BY <2>6 DEF InvalidateRoll
  <2> QED
    BY <1>1, <2>2, <2>3, <2>4, <2>5, <2>6 DEF TurnStep
<1>2. CASE RoomStep
  BY <1>2 DEF RoomStep, SetApprovalMode, JoinMidgame, FinishNormal, FinishForced, CloseRoom,
              turnVars
<1>3. CASE LandingStep \/ DeedRequestStep \/ CashRequestStep \/ SettleStep \/ MoneyStep
             \/ BankStep
  BY <1>3, TurnsKept DEF TurnInv
<1> QED
  BY <1>1, <1>2, <1>3 DEF Next

\* What TurnsGoRound and PassedOverOnlyIfOwed say of a step.
GoesRound ==
  \A k \in Len(turn) .. Len(turn') - 1 :
    k > 0 => turn'[k + 1].player = NextSeat(turn'[k].player)
PaysForPassing ==
  Len(turn') > Len(turn) =>
    /\ owed'[current'] = 0
    /\ \A p \in Player :
         owed'[p] + NewTurnsOf(p) \in
           {owed[p], IF p = current THEN owed[p] - 1 ELSE owed[p]}

\* So they are for the first turns.
LEMMA StartGoesRound ==
  ASSUME TurnInv, TypeOK', Start, DiceMode = "ELECTRONIC"
  PROVE  GoesRound /\ PaysForPassing
<1>1. PICK players \in PlayersInOrder :
        NextActionableTurn(players, 0, <<>>, owed, skip)
  BY DEF Start
<1>2. TypeOK /\ Seats > 0
  BY SeatsType DEF Start, TurnInv, TypeInv
<1>3. turn = <<>> /\ Len(turn) = 0
  BY DEF Start, TurnInv, LobbyHasNoTurns
<1>4. turn \in Seq(TurnRow) /\ owed \in [Player -> Int]
  BY <1>2 DEF TypeOK
<1>5. NextActionableTurn(players, 0, turn, owed, skip)
  BY <1>1, <1>3
<1>6. \A k \in Len(turn) + 1 .. Len(turn') - 1 :
        turn'[k + 1].player = NextSeat(turn'[k].player)
  BY <1>2, <1>4, <1>5, WalkGoesRound
<1>7. GoesRound
  <2> SUFFICES ASSUME NEW k \in Len(turn) .. Len(turn') - 1, k > 0
               PROVE  turn'[k + 1].player = NextSeat(turn'[k].player)
    BY DEF GoesRound
  <2>1. Len(turn') \in Nat
    BY DEF TypeOK
  <2>2. k \in Len(turn) + 1 .. Len(turn') - 1
    BY <1>3, <2>1
  <2> QED
    BY <1>6, <2>2
<1>8. PaysForPassing
  <2>1. /\ owed'[current'] = 0
        /\ \A p \in Player : owed'[p] + NewTurnsOf(p) = owed[p]
    BY <1>2, <1>4, <1>5, WalkPays DEF NewTurnsOf
  <2> QED
    BY <2>1 DEF PaysForPassing
<1> QED
  BY <1>7, <1>8

\* And when the turn is passed on: the walk starts at the seat after the
\* current one, and a turn that is served costs one.
LEMMA PassingGoesRound ==
  ASSUME TurnInv, TypeOK', status = "PLAYING", DiceMode = "ELECTRONIC", PassesOn
  PROVE  GoesRound /\ PaysForPassing
<1>0. PICK n \in ActiveTurns : \E owes, units :
        /\ owes = owed \/ owes = [owed EXCEPT ![current] = @ - 1]
        /\ PassOn(n, turn[n].player, owes, units)
  BY DEF PassesOn
<1>1. PICK owes, units :
        /\ owes = owed \/ owes = [owed EXCEPT ![current] = @ - 1]
        /\ PassOn(n, turn[n].player, owes, units)
  BY <1>0
<1> DEFINE rows == [turn EXCEPT ![n].status = "ENDED"]
<1>2. PICK players \in PlayersInOrder, i \in 0 .. Seats - 1 :
        /\ players[i] = turn[n].player
        /\ NextActionableTurn(players, i + 1, rows, owes, units)
  BY <1>1 DEF PassOn
<1>3. TypeOK /\ Seats \in Nat /\ Seats > 0 /\ i \in Nat /\ i + 1 \in Nat
  BY SeatsType DEF TurnInv, TypeInv
<1>4. /\ n = Len(turn) /\ n \in DOMAIN turn /\ current = turn[n].player
      /\ turn \in Seq(TurnRow) /\ Len(turn) \in Nat /\ current \in Player
  <2>1. ActiveTurns = {Len(turn)} /\ current = turn[Len(turn)].player /\ current \in playable
    BY DEF TurnInv, OneActiveTurn
  <2>2. n \in DOMAIN turn
    BY DEF ActiveTurns
  <2> QED
    BY <1>3, <2>1, <2>2 DEF TypeOK
<1>5. rows \in Seq(TurnRow) /\ Len(rows) = Len(turn) /\ rows[n].player = turn[n].player
  <2>1. rows \in Seq(TurnRow) /\ DOMAIN rows = DOMAIN turn
    BY <1>3, TurnRowChange
  <2>2. rows[n].player = turn[n].player
    <3>1. turn[n] \in TurnRow /\ rows[n] = [turn[n] EXCEPT !.status = "ENDED"]
      BY <1>4
    <3> QED
      BY <3>1 DEF TurnRow
  <2> HIDE DEF rows
  <2>3. DOMAIN rows = 1 .. Len(rows) /\ DOMAIN turn = 1 .. Len(turn) /\ Len(rows) \in Nat
    BY <1>4, <2>1
  <2> QED
    BY <1>4, <2>1, <2>2, <2>3, SameRange
<1>6. owes \in [Player -> Int]
      /\ \A p \in Player : owes[p] \in {owed[p], IF p = current THEN owed[p] - 1 ELSE owed[p]}
  <2>1. owed \in [Player -> Nat]
    BY <1>3 DEF TypeOK
  <2> QED
    BY <1>1, <1>4, <2>1
<1> HIDE DEF rows
<1>7. PICK steps \in Nat : WalksOver(steps, players, i + 1, rows, owes)
  BY <1>2, <1>3, <1>5, WalkRows
<1>8. Len(turn') \in Nat /\ turn'[Len(turn)].player = turn[n].player
  <2>1. n \in 1 .. Len(rows)
    BY <1>4, <1>5
  <2>2. turn'[n] = rows[n]
    BY <1>7, <2>1 DEF WalksOver
  <2> QED
    BY <1>4, <1>5, <2>2 DEF TypeOK
<1>9. GoesRound
  <2>1. /\ turn'[Len(turn) + 1].player = players[(i + 1) % Seats]
        /\ \A k \in Len(turn) + 1 .. Len(turn') - 1 :
             turn'[k + 1].player = NextSeat(turn'[k].player)
    BY <1>2, <1>3, <1>5, WalkGoesRound
  <2>2. players[(i + 1) % Seats] = NextSeat(turn[n].player)
    <3>1. i % Seats = i
      BY <1>3
    <3> QED
      BY <1>2, <1>3, <3>1, StopAfterStop
  <2> SUFFICES ASSUME NEW k \in Len(turn) .. Len(turn') - 1, k > 0
               PROVE  turn'[k + 1].player = NextSeat(turn'[k].player)
    BY DEF GoesRound
  <2>3. CASE k = Len(turn)
    BY <1>8, <2>1, <2>2, <2>3
  <2>4. CASE k # Len(turn)
    <3>1. k \in Len(turn) + 1 .. Len(turn') - 1
      BY <1>4, <1>8, <2>4
    <3> QED
      BY <2>1, <3>1
  <2> QED
    BY <2>3, <2>4
<1>10. PaysForPassing
  <2>1. /\ owed'[current'] = 0
        /\ \A p \in Player :
             owed'[p] + Cardinality({k \in Len(rows) + 1 .. Len(turn') :
                                       turn'[k].player = p /\ turn'[k].status = "ENDED"})
               = owes[p]
    BY <1>2, <1>3, <1>5, <1>6, WalkPays
  <2>2. \A p \in Player : owed'[p] + NewTurnsOf(p) = owes[p]
    BY <1>5, <2>1 DEF NewTurnsOf
  <2> QED
    BY <1>6, <2>1, <2>2 DEF PaysForPassing
<1> QED
  BY <1>9, <1>10

\* And a step that adds no turn passes nobody over.
LEMMA StepGoesRound ==
  ASSUME TurnInv, TurnInv', [Next]_vars
  PROVE  GoesRound /\ PaysForPassing
<1>1. TypeOK /\ TypeOK'
  BY DEF TurnInv, TypeInv
<1>2. CASE DOMAIN turn' = DOMAIN turn
  <2>1. /\ Len(turn) \in Nat /\ DOMAIN turn = 1 .. Len(turn)
        /\ Len(turn') \in Nat /\ DOMAIN turn' = 1 .. Len(turn')
    BY <1>1 DEF TypeOK
  <2>2. Len(turn') = Len(turn)
    BY <1>2, <2>1, SameRange
  <2> QED
    BY <2>1, <2>2 DEF GoesRound, PaysForPassing
<1>3. CASE UNCHANGED vars
  BY <1>2, <1>3 DEF vars
<1> QED
  BY <1>1, <1>2, <1>3, TurnsAdded, StartGoesRound, PassingGoesRound

\* However many seats are passed over, whoever has joined meanwhile, and
\* whether a turn is ended, served or forced: every new turn is that of the
\* seat after the one before.
THEOREM TurnsFollowTheTable == Spec => TurnsGoRound
<1>1. TurnInv /\ TurnInv' /\ [Next]_vars => GoesRound
  BY StepGoesRound
<1>2. [][GoesRound]_vars => TurnsGoRound
  BY PTL DEF GoesRound, TurnsGoRound
<1> QED
  BY <1>1, <1>2, TurnInvariant, PTL DEF Spec

\* Every turn a player is passed over for is taken off what he owes, once,
\* and whoever gets the turn owes nothing.
THEOREM PassingIsPaid == Spec => PassedOverOnlyIfOwed
<1>1. TurnInv /\ TurnInv' /\ [Next]_vars => PaysForPassing
  BY StepGoesRound
<1>2. [][PaysForPassing]_vars => PassedOverOnlyIfOwed
  BY PTL DEF PaysForPassing, PassedOverOnlyIfOwed
<1> QED
  BY <1>1, <1>2, TurnInvariant, PTL DEF Spec

-----------------------------------------------------------------------------
(* A finished room *)

\* Every command checks the status of the room, and only the two ways of
\* finishing set it to FINISHED.
LEMMA FinishedStops ==
  ASSUME TypeInv, Next
  PROVE  /\ status # "FINISHED"
         /\ status' = "FINISHED" => FinishNormal \/ FinishForced
<1>1. CASE TurnStep
  BY <1>1 DEF TurnStep, Start, Roll, EndTurn, SkipTurn, ForceNext, InvalidateRoll, roomVars
<1>2. CASE LandingStep
  BY <1>2 DEF LandingStep, DeclareLandingOnTurn, DeclareLandingOnBoard,
              DeclareStartOnTurn, DeclareStartOnBoard, ConfirmLanding,
              CancelLandingPropertyActions, roomVars
<1>3. CASE DeedRequestStep
  BY <1>3, DeedRequestEffect DEF FilesDeedRequest, MayFileFor, MayFile, FileFor, File, roomVars
<1>4. CASE CashRequestStep
  BY <1>4, CashRequestEffect DEF FilesCashRequest, File, roomVars
<1>5. CASE SettleStep
  <2>1. status = "PLAYING"
    BY <1>5 DEF SettleStep, ConfirmTrade, Reject, Approve, ApproveBuy, ApproveBuild,
                ApproveSellBuilding, ApproveMortgage, ApproveRedeem, ApproveSellToBank,
                ApproveTrade, ApproveStartReward, ApproveBankPayment, ApproveTransfer,
                ApproveCompanion, ApproveReturnCompanion, ApproveColdPalace,
                ApprovePlotRest, ApproveConsumeSkips, MayApprove
  <2> QED
    BY <1>5, <2>1, TurnsKept
<1>6. CASE MoneyStep
  <2>1. status = "PLAYING"
    BY <1>6 DEF MoneyStep, TransferNow, MayTransfer, PayToll, AdjustBalance, PlotFine,
                ReverseLatest
  <2> QED
    BY <1>6, <2>1, TurnsKept
<1>7. CASE BankStep
  BY <1>7 DEF BankStep, AdjustProperty, AddSkipTurns, ConsumeSkip, roomVars
<1>8. CASE RoomStep
  BY <1>8 DEF RoomStep, SetApprovalMode, JoinMidgame, FinishNormal, FinishForced
<1> QED
  BY <1>1, <1>2, <1>3, <1>4, <1>5, <1>6, <1>7, <1>8 DEF Next

\* Finishing leaves nothing waiting.
LEMMA FinishQuiets ==
  ASSUME TypeInv, FinishNormal \/ FinishForced
  PROVE  FinishedRoomIsQuiet'
<1>1. ActiveTurns' = {}
  BY ClosedTurns DEF FinishNormal, FinishForced
<1>2. CASE FinishNormal
  BY <1>1, <1>2 DEF FinishNormal, Blocked, FinishedRoomIsQuiet, Pending, UnresolvedLandings
<1>3. CASE FinishForced
  <2>1. Pending' = {}
    <3>1. \A r \in RequestId : request[r] \in RequestRow
      BY DEF TypeInv, TypeOK
    <3> QED
      BY <1>3, <3>1 DEF FinishForced, Cancelled, Pending, RequestRow
  <2>2. \A o \in Property : prop'[o].lock = Nil
    <3>1. \A o \in Property : prop[o] \in Deed
      BY DEF TypeInv, TypeOK
    <3> QED
      BY <1>3, <3>1 DEF FinishForced, Deed
  <2>3. UnresolvedLandings' = {}
    <3>1. \A l \in LandingId : landing[l] \in LandingRow
      BY DEF TypeInv, TypeOK
    <3> QED
      BY <1>3, <3>1 DEF FinishForced, UnresolvedLandings, LandingRow
  <2> QED
    BY <1>1, <2>1, <2>2, <2>3 DEF FinishedRoomIsQuiet
<1> QED
  BY <1>2, <1>3

\* A finished room is at rest and stays so: both ways of finishing leave no
\* request waiting, no lock, no active turn and no undecided landing, and no
\* command is accepted afterwards.
THEOREM FinishedRoomsAreQuiet == Spec => []FinishedRoomIsQuiet
<1> DEFINE I == TypeInv /\ FinishedRoomIsQuiet
<1>1. Init => I
  BY InitTypeInv DEF Init, FinishedRoomIsQuiet
<1>2. I /\ [Next]_vars => I'
  <2> SUFFICES ASSUME I, [Next]_vars PROVE I'
    OBVIOUS
  <2>1. TypeInv'
    BY TypeInvStep
  <2>2. CASE UNCHANGED vars
    BY <2>1, <2>2 DEF vars, FinishedRoomIsQuiet, Pending, UnresolvedLandings, ActiveTurns
  <2>3. CASE Next
    BY <2>1, <2>3, FinishedStops, FinishQuiets DEF FinishedRoomIsQuiet
  <2> QED
    BY <2>2, <2>3
<1> QED
  BY <1>1, <1>2, PTL DEF Spec

-----------------------------------------------------------------------------
(* Landings and the requests that depend on them *)

\* Only a landing on a property waits for the bank, and physical landings
\* belong to no turn.
LandingKinds ==
  \A l \in LandingId :
    /\ landing[l].status = "DECLARED" => landing[l].space # Nil
    /\ DiceMode = "PHYSICAL" => landing[l].turn = 0

\* A request names no landing that is still to be declared.
LandingNamed ==
  \A r \in RequestId :
    request[r].landing # Nil => landing[request[r].landing].status # "NONE"

\* A settled start reward leaves no other START landing of its turn confirmed.
RewardKept ==
  \A r \in RequestId, l \in LandingId :
    ( /\ request[r].type = "START_REWARD"
      /\ request[r].status \in {"EXECUTED", "REVERSED"}
      /\ request[r].turn # 0 /\ request[r].turn = landing[l].turn
      /\ landing[l].status = "CONFIRMED" /\ landing[l].space = Nil )
    => request[r].landing = l

\* Request r rests on a landing of its actor on its space and turn that is
\* still good, and the turn is still running.
OnLiveLanding(r) ==
  LET q == request[r]
      l == landing[q.landing]
  IN  /\ q.landing \in LandingId
      /\ DiceMode = "ELECTRONIC" => OnTurn(q.turn, q.actor)
      /\ l.player = q.actor /\ l.space = q.prop /\ l.turn = q.turn
      /\ \/ l.status = "CONFIRMED"
         \/ DiceMode = "PHYSICAL" /\ l.status = "CLOSED"
      /\ q.type # "START_REWARD" => l.resolved /\ ~l.cancelled

\* Request r is waiting and needs such a landing.
NeedsLanding(r) == request[r].status = "PENDING" /\ request[r].type \in LandingRequest

WaitingOnLandings == \A r \in RequestId : NeedsLanding(r) => OnLiveLanding(r)

\* The inductive invariant of landings and the requests that depend on them.
LandingRules == LandingKinds /\ OneLiveLanding
RequestRules == LandingNamed /\ OneUsePerLanding /\ StartRewardOncePerTurn /\ RewardKept
LandingInv == LandingRules /\ RequestRules /\ WaitingOnLandings

\* What a step may do to a landing that is there: confirm it if it is
\* declared, close or void it.
LandingMoved(l) ==
  /\ landing'[l].player = landing[l].player
  /\ landing'[l].space = landing[l].space
  /\ landing'[l].turn = landing[l].turn
  /\ \/ landing'[l].status = landing[l].status
     \/ landing[l].status = "DECLARED" /\ landing'[l].status = "CONFIRMED"
     \/ landing[l].status # "NONE" /\ landing'[l].status \in {"CLOSED", "INVALIDATED"}

\* What a step may do to a request that is filed: settle it, reverse it.
RequestMoved(r) ==
  /\ request'[r].type = request[r].type /\ request'[r].actor = request[r].actor
  /\ request'[r].prop = request[r].prop
  /\ request'[r].amount = request[r].amount /\ request'[r].count = request[r].count
  /\ request'[r].landing = request[r].landing /\ request'[r].turn = request[r].turn
  /\ request'[r].status = "PENDING" => request[r].status = "PENDING"
  /\ request'[r].status = "EXECUTED" => request[r].status \in {"PENDING", "EXECUTED"}
  /\ request'[r].status = "REVERSED" => request[r].status \in {"EXECUTED", "REVERSED"}

\* Landings that stay, or are confirmed, closed or voided, keep their rules.
LEMMA LandingsMove ==
  ASSUME LandingRules, \A l \in LandingId : LandingMoved(l)
  PROVE  LandingRules'
<1>1. LandingKinds'
  BY DEF LandingRules, LandingKinds, LandingMoved
<1>2. OneLiveLanding'
  BY DEF LandingRules, OneLiveLanding, LandingMoved
<1> QED
  BY <1>1, <1>2 DEF LandingRules

\* So they do with a new landing that no live one of its turn, or with
\* physical dice of its player, stands beside.
LEMMA LandingAdded ==
  ASSUME LandingRules, NEW l \in LandingId, NEW p, NEW o, NEW n,
         NEW s \in {"DECLARED", "CONFIRMED"}, s = "DECLARED" => o # Nil,
         DiceMode = "PHYSICAL" => n = 0,
         landing'[l] = NewLanding(p, o, n, s),
         \A k \in LandingId \ {l} : LandingMoved(k),
         \A k \in LandingId \ {l} :
            ~ /\ landing'[k].status \in {"DECLARED", "CONFIRMED"}
              /\ landing[k].turn = n
              /\ n = 0 => landing[k].player = p
  PROVE  LandingRules'
<1>0. /\ landing'[l].status = s /\ landing'[l].player = p /\ landing'[l].space = o
      /\ landing'[l].turn = n
  BY DEF NewLanding
<1>1. LandingKinds'
  BY <1>0 DEF LandingRules, LandingKinds, LandingMoved
<1>2. OneLiveLanding'
  <2>1. ASSUME NEW k \in LandingId \ {l}, NEW j \in LandingId \ {l},
               {landing'[j].status, landing'[k].status} \subseteq {"DECLARED", "CONFIRMED"},
               landing'[j].turn = landing'[k].turn,
               landing'[j].turn = 0 => landing'[j].player = landing'[k].player
        PROVE  j = k
    BY <2>1 DEF LandingRules, OneLiveLanding, LandingMoved
  <2>2. ASSUME NEW k \in LandingId \ {l},
               landing'[k].status \in {"DECLARED", "CONFIRMED"},
               landing'[k].turn = n, n = 0 => landing'[k].player = p
        PROVE  FALSE
    BY <2>2 DEF LandingMoved
  <2> QED
    BY <1>0, <2>1, <2>2 DEF OneLiveLanding
<1> QED
  BY <1>1, <1>2 DEF LandingRules

\* Requests that stay, are settled or reversed, keep their rules; a landing
\* may be declared in the same step.
LEMMA RequestsMove ==
  ASSUME TypeInv, LandingInv, \A r \in RequestId : RequestMoved(r),
         \A l \in LandingId : LandingMoved(l) \/ landing'[l].status = "DECLARED"
  PROVE  RequestRules'
<1>0. \A r \in RequestId : request[r] \in RequestRow
  BY DEF TypeInv, TypeOK
<1>1. LandingNamed'
  <2>1. \A r \in RequestId : request[r].landing \in LandingId \cup {Nil}
    BY <1>0 DEF RequestRow
  <2> QED
    BY <2>1 DEF LandingInv, RequestRules, LandingNamed, RequestMoved, LandingMoved
<1>2. \A r \in RequestId :
         request'[r].status \in {"PENDING", "EXECUTED", "REVERSED"}
           => request[r].status \in {"PENDING", "EXECUTED", "REVERSED"}
  BY DEF RequestMoved
<1>3. OneUsePerLanding'
  BY <1>2 DEF LandingInv, RequestRules, OneUsePerLanding, RequestMoved
<1>4. StartRewardOncePerTurn'
  BY <1>2 DEF LandingInv, RequestRules, StartRewardOncePerTurn, RequestMoved
<1>5. ASSUME NEW r \in RequestId, NEW l \in LandingId,
             request'[r].type = "START_REWARD",
             request'[r].status \in {"EXECUTED", "REVERSED"},
             request'[r].turn # 0, request'[r].turn = landing'[l].turn,
             landing'[l].status = "CONFIRMED", landing'[l].space = Nil
      PROVE  request'[r].landing = l
  <2>1. /\ LandingMoved(l) /\ landing[l].status = "CONFIRMED" /\ landing[l].space = Nil
        /\ landing[l].turn = request[r].turn
    BY <1>5 DEF LandingMoved, RequestMoved, LandingInv, LandingRules, LandingKinds
  <2>2. CASE request[r].status = "PENDING"
    <3>1. OnLiveLanding(r)
      BY <1>5, <2>2 DEF RequestMoved, LandingInv, WaitingOnLandings, NeedsLanding,
                        LandingRequest
    <3>2. DiceMode = "ELECTRONIC"
      BY <1>5, <2>1, DiceAssumption DEF RequestMoved, LandingInv, LandingRules, LandingKinds
    <3>3. /\ request[r].landing \in LandingId
          /\ landing[request[r].landing].status = "CONFIRMED"
          /\ landing[request[r].landing].turn = landing[l].turn
          /\ landing[l].turn # 0
      BY <1>5, <2>1, <3>1, <3>2 DEF OnLiveLanding, RequestMoved
    <3> QED
      BY <1>5, <2>1, <3>3 DEF LandingInv, LandingRules, OneLiveLanding, RequestMoved
  <2>3. CASE request[r].status \in {"EXECUTED", "REVERSED"}
    BY <1>5, <2>1, <2>3 DEF RequestMoved, LandingInv, RequestRules, RewardKept
  <2> QED
    BY <1>5, <2>2, <2>3 DEF RequestMoved
<1>6. RewardKept'
  BY <1>5 DEF RewardKept
<1> QED
  BY <1>1, <1>3, <1>4, <1>6 DEF RequestRules

\* Filing a request keeps the rules: one that needs a landing finds it
\* unused, and a start reward finds it confirmed.
LEMMA RequestFiled ==
  ASSUME TypeInv, LandingInv, UNCHANGED landing,
         NEW r \in RequestId, request[r].status = "NONE",
         \A s \in RequestId \ {r} : request'[s] = request[s],
         request'[r].status = "PENDING",
         IF request'[r].type \in LandingRequest
           THEN /\ request'[r].landing \in LandingId
                /\ landing[request'[r].landing].status = "CONFIRMED"
                /\ landing[request'[r].landing].turn = request'[r].turn
                /\ request'[r].type = "START_REWARD" =>
                     landing[request'[r].landing].space = Nil
                /\ ~LandingUsed(request'[r].landing)
           ELSE request'[r].landing = Nil
  PROVE  RequestRules'
<1>1. LandingNamed'
  BY DEF LandingInv, RequestRules, LandingNamed
<1>2. OneUsePerLanding'
  <2>1. ASSUME NEW s \in RequestId \ {r}, request[s].type \in LandingRequest,
               request[s].status \in {"PENDING", "EXECUTED", "REVERSED"},
               request'[r].type \in LandingRequest
        PROVE  request[s].landing # request'[r].landing
    BY <2>1 DEF LandingUsed
  <2>2. ASSUME NEW s \in RequestId \ {r}, NEW t \in RequestId \ {r}, s # t,
               {request'[s].type, request'[t].type} \subseteq LandingRequest,
               {request'[s].status, request'[t].status}
                 \subseteq {"PENDING", "EXECUTED", "REVERSED"}
        PROVE  request'[s].landing # request'[t].landing
    BY <2>2 DEF LandingInv, RequestRules, OneUsePerLanding
  <2> QED
    BY <2>1, <2>2 DEF OneUsePerLanding
<1>3. StartRewardOncePerTurn'
  <2>1. ASSUME NEW s \in RequestId \ {r},
               request[s].type = "START_REWARD", request'[r].type = "START_REWARD",
               request[s].status \in {"PENDING", "EXECUTED", "REVERSED"},
               request[s].turn = request'[r].turn, request[s].turn # 0
        PROVE  FALSE
    <3> DEFINE l == request'[r].landing
    <3>1. /\ l \in LandingId /\ landing[l].status = "CONFIRMED" /\ landing[l].space = Nil
          /\ landing[l].turn = request[s].turn /\ ~LandingUsed(l)
      BY <2>1 DEF LandingRequest
    <3> HIDE DEF l
    <3>2. DiceMode = "ELECTRONIC"
      BY <2>1, <3>1, DiceAssumption DEF LandingInv, LandingRules, LandingKinds
    <3>3. request[s].landing = l
      <4>1. CASE request[s].status = "PENDING"
        <5>1. OnLiveLanding(s)
          BY <2>1, <4>1 DEF LandingInv, WaitingOnLandings, NeedsLanding, LandingRequest
        <5>2. /\ request[s].landing \in LandingId
              /\ landing[request[s].landing].status = "CONFIRMED"
              /\ landing[request[s].landing].turn = landing[l].turn
          BY <3>1, <3>2, <5>1 DEF OnLiveLanding
        <5> QED
          BY <2>1, <3>1, <5>2 DEF LandingInv, LandingRules, OneLiveLanding
      <4>2. CASE request[s].status # "PENDING"
        BY <2>1, <3>1, <4>2 DEF LandingInv, RequestRules, RewardKept
      <4> QED
        BY <4>1, <4>2
    <3> QED
      BY <2>1, <3>1, <3>3 DEF LandingUsed, LandingRequest
  <2>2. ASSUME NEW s \in RequestId \ {r}, NEW t \in RequestId \ {r},
               request'[s].type = "START_REWARD", request'[t].type = "START_REWARD",
               request'[s].turn # 0, request'[s].turn = request'[t].turn,
               {request'[s].status, request'[t].status}
                 \subseteq {"PENDING", "EXECUTED", "REVERSED"}
        PROVE  s = t
    BY <2>2 DEF LandingInv, RequestRules, StartRewardOncePerTurn
  <2> QED
    BY <2>1, <2>2 DEF StartRewardOncePerTurn
<1>4. RewardKept'
  BY DEF LandingInv, RequestRules, RewardKept
<1> QED
  BY <1>1, <1>2, <1>3, <1>4 DEF RequestRules

\* So they do when a START landing is declared with its reward, after every
\* other confirmed landing of the turn has been voided.
LEMMA RewardDeclared ==
  ASSUME TypeInv, LandingInv,
         NEW l \in LandingId, landing[l].status = "NONE",
         \A k \in LandingId \ {l} : LandingMoved(k),
         landing'[l].status = "CONFIRMED", landing'[l].turn \in Nat,
         NEW r \in RequestId, request[r].status = "NONE",
         \A s \in RequestId \ {r} : RequestMoved(s),
         request'[r].status = "PENDING", request'[r].type = "START_REWARD",
         request'[r].landing = l, request'[r].turn = landing'[l].turn,
         landing'[l].turn # 0 =>
           \A s \in RequestId \ {r} :
             ~ /\ request'[s].turn = landing'[l].turn
               /\ request'[s].type = "START_REWARD"
               /\ request'[s].status \in {"PENDING", "EXECUTED", "REVERSED"}
  PROVE  RequestRules'
<1>0. \A s \in RequestId : request[s].landing \in LandingId \cup {Nil}
  BY DEF TypeInv, TypeOK, RequestRow
<1>1. LandingNamed'
  BY <1>0 DEF LandingInv, RequestRules, LandingNamed, RequestMoved, LandingMoved
<1>a. \A s \in RequestId \ {r} :
         request'[s].status \in {"PENDING", "EXECUTED", "REVERSED"}
           => request[s].status \in {"PENDING", "EXECUTED", "REVERSED"}
  BY DEF RequestMoved
<1>2. OneUsePerLanding'
  <2>1. ASSUME NEW s \in RequestId \ {r} PROVE request'[s].landing # l
    BY NilAssumption DEF RequestMoved, LandingInv, RequestRules, LandingNamed
  <2>2. ASSUME NEW s \in RequestId \ {r}, NEW t \in RequestId \ {r}, s # t,
               {request'[s].type, request'[t].type} \subseteq LandingRequest,
               {request'[s].status, request'[t].status}
                 \subseteq {"PENDING", "EXECUTED", "REVERSED"}
        PROVE  request'[s].landing # request'[t].landing
    BY <1>a, <2>2 DEF LandingInv, RequestRules, OneUsePerLanding, RequestMoved
  <2> QED
    BY <2>1, <2>2 DEF OneUsePerLanding
<1>3. StartRewardOncePerTurn'
  <2>1. ASSUME NEW s \in RequestId \ {r}, NEW t \in RequestId \ {r},
               request'[s].type = "START_REWARD", request'[t].type = "START_REWARD",
               request'[s].turn # 0, request'[s].turn = request'[t].turn,
               {request'[s].status, request'[t].status}
                 \subseteq {"PENDING", "EXECUTED", "REVERSED"}
        PROVE  s = t
    BY <1>a, <2>1 DEF LandingInv, RequestRules, StartRewardOncePerTurn, RequestMoved
  <2> QED
    BY <2>1 DEF StartRewardOncePerTurn
<1>4. RewardKept'
  <2>1. ASSUME NEW s \in RequestId, NEW k \in LandingId,
               request'[s].type = "START_REWARD",
               request'[s].status \in {"EXECUTED", "REVERSED"},
               request'[s].turn # 0, request'[s].turn = landing'[k].turn,
               landing'[k].status = "CONFIRMED", landing'[k].space = Nil
        PROVE  request'[s].landing = k
    <3>1. s # r /\ k # l
      BY <2>1
    <3>2. LandingMoved(k)
      BY <3>1
    <3>3. /\ landing[k].status = "CONFIRMED" /\ landing[k].space = Nil
          /\ landing[k].turn = request[s].turn /\ request[s].turn # 0
          /\ request[s].type = "START_REWARD" /\ request'[s].landing = request[s].landing
      BY <2>1, <3>1, <3>2 DEF LandingMoved, RequestMoved, LandingInv, LandingRules, LandingKinds
    <3>4. CASE request[s].status = "PENDING"
      <4>1. OnLiveLanding(s)
        BY <3>3, <3>4 DEF LandingInv, WaitingOnLandings, NeedsLanding, LandingRequest
      <4>2. DiceMode = "ELECTRONIC"
        BY <3>3, DiceAssumption DEF LandingInv, LandingRules, LandingKinds
      <4>3. /\ request[s].landing \in LandingId
            /\ landing[request[s].landing].status = "CONFIRMED"
            /\ landing[request[s].landing].turn = landing[k].turn
            /\ landing[k].turn # 0
        BY <3>3, <4>1, <4>2 DEF OnLiveLanding
      <4> QED
        BY <3>3, <4>3 DEF LandingInv, LandingRules, OneLiveLanding
    <3>5. CASE request[s].status # "PENDING"
      BY <2>1, <3>1, <3>3, <3>5 DEF RequestMoved, LandingInv, RequestRules, RewardKept
    <3> QED
      BY <3>4, <3>5
  <2> QED
    BY <2>1 DEF RewardKept
<1> QED
  BY <1>1, <1>2, <1>3, <1>4 DEF RequestRules

\* A waiting request goes on resting on its landing if turn and landing are
\* as they were, or the landing was closed with physical dice.
LEMMA WaitsOn ==
  ASSUME LandingInv, UNCHANGED <<current, turn>>,
         NEW r \in RequestId, RequestMoved(r),
         LET l == request[r].landing IN
           NeedsLanding(r) /\ OnLiveLanding(r) /\ NeedsLanding(r)' =>
             \/ landing'[l] = landing[l]
             \/ /\ DiceMode = "PHYSICAL" /\ landing'[l].status = "CLOSED"
                /\ landing'[l].player = landing[l].player
                /\ landing'[l].space = landing[l].space
                /\ landing'[l].turn = landing[l].turn
                /\ landing'[l].resolved = landing[l].resolved
                /\ landing'[l].cancelled = landing[l].cancelled
  PROVE  NeedsLanding(r)' => OnLiveLanding(r)'
<1> SUFFICES ASSUME NeedsLanding(r)' PROVE OnLiveLanding(r)'
  OBVIOUS
<1>1. NeedsLanding(r)
  BY DEF NeedsLanding, RequestMoved
<1>2. OnLiveLanding(r)
  BY <1>1 DEF LandingInv, WaitingOnLandings
<1>3. /\ request'[r].landing = request[r].landing /\ request'[r].turn = request[r].turn
      /\ request'[r].actor = request[r].actor /\ request'[r].prop = request[r].prop
      /\ request'[r].type = request[r].type
  BY DEF RequestMoved
<1>4. DiceMode = "ELECTRONIC" => OnTurn(request[r].turn, request[r].actor)'
  BY <1>2, <1>3 DEF OnLiveLanding, OnTurn, ActiveTurns
<1> QED
  BY <1>1, <1>2, <1>3, <1>4, DiceAssumption DEF OnLiveLanding

-----------------------------------------------------------------------------
(* How requests and landings move *)

\* Cancelling moves requests.
LEMMA CancelMoves ==
  ASSUME TypeInv, NEW S \in SUBSET Pending, NEW r \in RequestId,
         request'[r] = Cancelled(S)[r]
  PROVE  /\ RequestMoved(r)
         /\ r \in S => request'[r].status = "CANCELLED"
         /\ r \notin S => request'[r] = request[r]
<1>1. request[r] \in RequestRow
  BY DEF TypeInv, TypeOK
<1> QED
  BY <1>1 DEF Cancelled, Pending, RequestRow, RequestMoved

\* Voiding landings moves them.
LEMMA VoidMoves ==
  ASSUME TypeInv, NEW L, NEW l \in LandingId, landing[l].status # "NONE" \/ l \notin L,
         landing'[l] = WithStatus(L, "INVALIDATED")[l]
  PROVE  /\ LandingMoved(l)
         /\ l \in L => landing'[l].status = "INVALIDATED"
         /\ l \notin L => landing'[l] = landing[l]
<1>1. landing[l] \in LandingRow
  BY DEF TypeInv, TypeOK
<1> QED
  BY <1>1 DEF WithStatus, LandingRow, LandingMoved

\* So does advancing the landings of a player with physical dice.
LEMMA AdvanceMoves ==
  ASSUME TypeInv, NEW p \in Player, NEW l \in LandingId,
         landing'[l] = AdvancedLandings(p)[l]
  PROVE  /\ LandingMoved(l)
         /\ l \in LiveLandingsOf(p) /\ landing[l].status = "DECLARED"
              => landing'[l].status = "INVALIDATED"
         /\ l \in LiveLandingsOf(p) /\ landing[l].status = "CONFIRMED"
              => /\ landing'[l].status = "CLOSED"
                 /\ landing'[l].resolved = landing[l].resolved
                 /\ landing'[l].cancelled = landing[l].cancelled
         /\ l \notin LiveLandingsOf(p) => landing'[l] = landing[l]
<1>1. landing[l] \in LandingRow
  BY DEF TypeInv, TypeOK
<1>2. CASE l \in LiveLandingsOf(p) /\ landing[l].status = "DECLARED"
  <2>1. landing'[l] = [landing[l] EXCEPT !.status = "INVALIDATED"]
    BY <1>2 DEF AdvancedLandings
  <2> QED
    BY <1>1, <1>2, <2>1 DEF LandingRow, LandingMoved
<1>3. CASE l \in LiveLandingsOf(p) /\ landing[l].status = "CONFIRMED"
  <2>1. landing'[l] = [landing[l] EXCEPT !.status = "CLOSED"]
    BY <1>3 DEF AdvancedLandings
  <2> QED
    BY <1>1, <1>3, <2>1 DEF LandingRow, LandingMoved
<1>4. CASE l \notin LiveLandingsOf(p)
  <2>1. landing'[l] = landing[l]
    BY <1>4 DEF AdvancedLandings
  <2> QED
    BY <1>4, <2>1 DEF LandingMoved
<1> QED
  BY <1>2, <1>3, <1>4 DEF LiveLandingsOf

\* A landing that stays has not moved.
LEMMA SameLanding ==
  ASSUME NEW l \in LandingId, landing'[l] = landing[l]
  PROVE  LandingMoved(l)
  BY DEF LandingMoved

\* Nor has a request that stays.
LEMMA SameRequest ==
  ASSUME NEW r \in RequestId, request'[r] = request[r]
  PROVE  RequestMoved(r)
  BY DEF RequestMoved

-----------------------------------------------------------------------------
(* The commands *)

\* A step that only settles or reverses requests keeps LandingInv.
LEMMA SettlingKeeps ==
  ASSUME TypeInv, LandingInv, UNCHANGED <<current, turn, landing>>,
         \A r \in RequestId : RequestMoved(r)
  PROVE  LandingInv'
<1>1. LandingRules'
  BY SameLanding, LandingsMove DEF LandingInv
<1>2. RequestRules'
  BY SameLanding, RequestsMove
<1>3. WaitingOnLandings'
  BY WaitsOn DEF WaitingOnLandings
<1> QED
  BY <1>1, <1>2, <1>3 DEF LandingInv

\* So does one after which no request waits that needs a landing.
LEMMA NobodyWaits ==
  ASSUME TypeInv, LandingInv, \A l \in LandingId : LandingMoved(l),
         \A r \in RequestId : RequestMoved(r),
         \A r \in RequestId : ~NeedsLanding(r)'
  PROVE  LandingInv'
<1>1. LandingRules'
  BY LandingsMove DEF LandingInv
<1>2. RequestRules'
  BY RequestsMove
<1>3. WaitingOnLandings'
  BY DEF WaitingOnLandings
<1> QED
  BY <1>1, <1>2, <1>3 DEF LandingInv

\* A request that needs a landing belongs to the active turn of an electronic
\* room, which has been rolled.
LEMMA WaitsOnTurn ==
  ASSUME OneActiveTurn, LandingInv, DiceMode = "ELECTRONIC",
         NEW r \in RequestId, NeedsLanding(r)
  PROVE  /\ ActiveTurns = {request[r].turn}
         /\ turn[request[r].turn].rolled
         /\ turn[request[r].turn].player = request[r].actor
<1>1. OnTurn(request[r].turn, request[r].actor)
  BY DEF LandingInv, WaitingOnLandings, OnLiveLanding
<1> QED
  BY <1>1 DEF OnTurn, OneActiveTurn

\* Turns start and end with nobody waiting on a landing.
LEMMA TurnStepLandings ==
  ASSUME TypeInv, OneActiveTurn, LandingInv, TurnStep
  PROVE  LandingInv'
<1>1. CASE Start
  <2>1. UNCHANGED <<landing, request>>
    BY <1>1 DEF Start
  <2>2. CASE DiceMode = "ELECTRONIC"
    <3>1. ActiveTurns = {}
      BY <1>1 DEF Start, OneActiveTurn
    <3>2. \A r \in RequestId : ~NeedsLanding(r)
      BY <2>2, <3>1, WaitsOnTurn
    <3>3. \A r \in RequestId : ~NeedsLanding(r)'
      BY <2>1, <3>2 DEF NeedsLanding
    <3> QED
      BY <2>1, <3>3, SameLanding, SameRequest, NobodyWaits
  <2>3. CASE DiceMode # "ELECTRONIC"
    BY <1>1, <2>1, <2>3, SameRequest, SettlingKeeps DEF Start, turnVars
  <2> QED
    BY <2>2, <2>3
<1>2. ASSUME NEW p \in Player, Roll(p) \/ SkipTurn(p)
      PROVE  LandingInv'
  <2>1. UNCHANGED <<landing, request>> /\ DiceMode = "ELECTRONIC"
    BY <1>2 DEF Roll, SkipTurn
  <2>2. PICK n \in ActiveTurns : ~turn[n].rolled
    BY <1>2 DEF Roll, SkipTurn
  <2>3. \A r \in RequestId : ~NeedsLanding(r)
    BY <2>1, <2>2, WaitsOnTurn
  <2>4. \A r \in RequestId : ~NeedsLanding(r)'
    BY <2>1, <2>3 DEF NeedsLanding
  <2> QED
    BY <2>1, <2>4, SameLanding, SameRequest, NobodyWaits
<1>3. ASSUME NEW n \in ActiveTurns, request' = Cancelled(PendingOfTurn(n))
      PROVE  /\ \A r \in RequestId : RequestMoved(r)
             /\ \A r \in RequestId : ~NeedsLanding(r)'
  <2>1. PendingOfTurn(n) \in SUBSET Pending
    BY DEF PendingOfTurn
  <2>2. DiceMode = "ELECTRONIC"
    BY DEF OneActiveTurn
  <2>3. ASSUME NEW r \in RequestId, NeedsLanding(r) PROVE r \in PendingOfTurn(n)
    BY <2>2, <2>3, WaitsOnTurn DEF PendingOfTurn, Pending, NeedsLanding
  <2> QED
    BY <1>3, <2>1, <2>3, CancelMoves DEF NeedsLanding
<1>4. ASSUME NEW p \in Player, EndTurn(p)
      PROVE  LandingInv'
  BY <1>3, <1>4, SameLanding, NobodyWaits DEF EndTurn, CancelRequests
<1>5. CASE ForceNext
  BY <1>3, <1>5, SameLanding, NobodyWaits DEF ForceNext, CancelRequests
<1>6. CASE InvalidateRoll
  <2>1. PICK n \in ActiveTurns :
          /\ request' = Cancelled(PendingOfTurn(n))
          /\ landing' = WithStatus(LandingsOf(n, {"DECLARED", "CONFIRMED"}), "INVALIDATED")
    BY <1>6 DEF InvalidateRoll, CancelRequests
  <2>2. \A l \in LandingId : LandingMoved(l)
    BY <2>1, VoidMoves DEF LandingsOf
  <2> QED
    BY <1>3, <2>1, <2>2, NobodyWaits
<1> QED
  BY <1>1, <1>2, <1>4, <1>5, <1>6 DEF TurnStep

\* Joining leaves landings alone, finishing leaves nobody waiting.
LEMMA RoomStepLandings ==
  ASSUME TypeInv, LandingInv, RoomStep
  PROVE  LandingInv'
<1>1. CASE SetApprovalMode
  BY <1>1, SameRequest, SettlingKeeps DEF SetApprovalMode, turnVars
<1>2. ASSUME NEW p \in Player, JoinMidgame(p) PROVE LandingInv'
  BY <1>2, SameRequest, SettlingKeeps DEF JoinMidgame, turnVars
<1>3. CASE FinishNormal
  <2>1. UNCHANGED <<landing, request>> /\ Pending = {}
    BY <1>3 DEF FinishNormal, Blocked
  <2>2. \A r \in RequestId : ~NeedsLanding(r)'
    BY <2>1 DEF NeedsLanding, Pending
  <2> QED
    BY <2>1, <2>2, SameLanding, SameRequest, NobodyWaits
<1>4. CASE FinishForced
  <2>1. request' = Cancelled(Pending)
    BY <1>4 DEF FinishForced
  <2>2. \A r \in RequestId : RequestMoved(r) /\ ~NeedsLanding(r)'
    BY <2>1, CancelMoves DEF NeedsLanding, Pending
  <2>3. ASSUME NEW l \in LandingId PROVE LandingMoved(l)
    <3>1. landing[l] \in LandingRow
      BY DEF TypeInv, TypeOK
    <3> QED
      BY <1>4, <3>1 DEF FinishForced, UnresolvedLandings, LandingRow, LandingMoved
  <2> QED
    BY <2>2, <2>3, NobodyWaits
<1> QED
  BY <1>1, <1>2, <1>3, <1>4 DEF RoomStep

\* Settling and reversing only move requests.
LEMMA SettlingMoves ==
  ASSUME LockInv, SettleStep \/ MoneyStep \/ BankStep
  PROVE  /\ UNCHANGED <<current, turn, landing>>
         /\ \A r \in RequestId : RequestMoved(r)
<1>0. \A r \in RequestId : request[r] \in RequestRow
  BY DEF LockInv, TypeInv, TypeOK
<1>1. UNCHANGED <<current, turn>>
  BY TurnsKept DEF LockInv
<1>2. ASSUME NEW r \in RequestId, request[r].status = "PENDING",
             \/ request' = [request EXCEPT ![r].confirmed = TRUE]
             \/ request' = [request EXCEPT ![r].status = "REJECTED"]
             \/ request' = [request EXCEPT ![r].status = "EXECUTED"]
      PROVE  \A s \in RequestId : RequestMoved(s)
  <2>1. /\ \A s \in RequestId \ {r} : request'[s] = request[s]
        /\ \/ request'[r] = [request[r] EXCEPT !.confirmed = TRUE]
           \/ request'[r] = [request[r] EXCEPT !.status = "REJECTED"]
           \/ request'[r] = [request[r] EXCEPT !.status = "EXECUTED"]
    BY <1>2 DEF LockInv, TypeInv, TypeOK
  <2>2. RequestMoved(r)
    BY <1>0, <1>2, <2>1 DEF RequestMoved, RequestRow
  <2> QED
    BY <2>1, <2>2, SameRequest
<1>3. CASE SettleStep
  <2>1. ASSUME NEW r \in RequestId, ConfirmTrade(r) \/ Reject(r)
        PROVE  UNCHANGED landing /\ \A s \in RequestId : RequestMoved(s)
    BY <1>2, <2>1 DEF ConfirmTrade, Reject
  <2>2. ASSUME NEW r \in RequestId, ApproveCash(r)
        PROVE  UNCHANGED landing /\ \A s \in RequestId : RequestMoved(s)
    BY <1>2, <2>2, ApproveCashEffect DEF LockInv, ExecutesPlainly, Execute
  <2>3. ASSUME NEW r \in RequestId, ApproveDeed(r)
        PROVE  UNCHANGED landing /\ \A s \in RequestId : RequestMoved(s)
    <3>1. ExecutesDeed(r)
      BY <2>3, ApproveDeedEffect DEF LockInv
    <3>2. request' = [request EXCEPT ![r].status = "EXECUTED"] /\ UNCHANGED landing
      BY <3>1 DEF ExecutesDeed, ExecuteDeed, Execute
    <3> QED
      BY <1>2, <3>1, <3>2 DEF ExecutesDeed
  <2> QED
    BY <1>1, <1>3, <2>1, <2>2, <2>3 DEF SettleStep, Approve, ApproveCash, ApproveDeed
<1>4. CASE MoneyStep
  <2>1. MovesCash \/ ReverseLatest
    BY <1>4, MovesCashEffect DEF MoneyStep, LockInv
  <2>2. CASE MovesCash
    BY <1>1, <2>2, SameRequest DEF MovesCash
  <2>3. CASE ReverseLatest
    <3>1. PICK i \in DOMAIN log : Undoable(i) /\ request' = RequestReversed(log[i])
      BY <2>3 DEF ReverseLatest
    <3>2. log[i] \in TransactionRow
      BY DEF LockInv, TypeInv, TypeOK
    <3>3. ASSUME NEW r \in RequestId PROVE RequestMoved(r)
      <4>1. CASE log[i].request = r
        <5>1. r # Nil
          BY NilAssumption
        <5>2. request[r].status = "EXECUTED"
          BY <3>1, <4>1, <5>1 DEF LockInv, RequestReceipts, Undoable
        <5>3. request'[r] = [request[r] EXCEPT !.status = "REVERSED"]
          BY <3>1, <4>1, <5>1 DEF RequestReversed, LockInv, TypeInv, TypeOK
        <5> QED
          BY <1>0, <5>2, <5>3 DEF RequestMoved, RequestRow
      <4>2. CASE log[i].request # r
        BY <3>1, <3>2, <4>2, SameRequest DEF RequestReversed, LockInv, TypeInv, TypeOK
      <4> QED
        BY <4>1, <4>2
    <3> QED
      BY <1>1, <2>3, <3>3 DEF ReverseLatest
  <2> QED
    BY <2>1, <2>2, <2>3
<1>5. CASE BankStep
  <2>1. UNCHANGED <<landing, request>>
    BY <1>5 DEF BankStep, AdjustProperty, AddSkipTurns, ConsumeSkip
  <2> QED
    BY <1>1, <2>1, SameRequest
<1> QED
  BY <1>3, <1>4, <1>5

\* A request that needs a landing is filed for one that is good.
LEMMA RequestStepLandings ==
  ASSUME TypeInv, LandingInv, DeedRequestStep \/ CashRequestStep
  PROVE  LandingInv'
<1>0. request \in [RequestId -> RequestRow] /\ Nil \notin LandingId
  BY NilAssumption DEF TypeInv, TypeOK
<1>1. UNCHANGED <<current, turn>>
  BY TurnsKept
<1>a. ASSUME UNCHANGED landing,
             NEW r \in RequestId, request[r].status = "NONE", NEW row,
             request' = [request EXCEPT ![r] = row],
             RequestRules', row.status = "PENDING",
             NeedsLanding(r)' => OnLiveLanding(r)'
      PROVE  LandingInv'
  <2>1. LandingRules'
    BY <1>a, SameLanding, LandingsMove DEF LandingInv
  <2>2. ASSUME NEW s \in RequestId \ {r} PROVE NeedsLanding(s)' => OnLiveLanding(s)'
    <3>1. request'[s] = request[s]
      BY <1>0, <1>a
    <3> QED
      BY <1>1, <1>a, <3>1, SameRequest, WaitsOn
  <2> QED
    BY <1>a, <2>1, <2>2 DEF LandingInv, WaitingOnLandings
<1>2. CASE FilesDeedRequest
  <2>1. PICK p \in Player, o \in Property, r \in RequestId, row \in RequestRow :
          /\ MayFileFor(p, o, r)
          /\ row.type \in DeedRequest /\ row.status = "PENDING" /\ row.actor = p
          /\ BasedOnLanding(row, p, o)
          /\ FileFor(o, r, row)
    BY <1>2 DEF FilesDeedRequest
  <2> DEFINE new == [row EXCEPT !.prop = o, !.mortgaged = prop[o].mortgaged]
  <2>2. /\ new.type = row.type /\ new.status = "PENDING" /\ new.actor = p /\ new.prop = o
        /\ new.landing = row.landing /\ new.turn = row.turn
    BY <2>1 DEF RequestRow
  <2>3. request' = [request EXCEPT ![r] = new] /\ request[r].status = "NONE"
        /\ UNCHANGED landing
    BY <2>1 DEF FileFor, File, MayFileFor, MayFile
  <2> HIDE DEF new
  <2>4. row.type \in LandingRequest <=> row.type \in {"BUY_PROPERTY", "BUILD_PROPERTY"}
    BY <2>1 DEF LandingRequest, DeedRequest
  <2>5. row.type \in LandingRequest =>
          /\ row.landing \in LandingId
          /\ ActionLanding(row.landing, row.turn, p, o)
    BY <2>1, <2>4 DEF BasedOnLanding
  <2>6. row.type \notin LandingRequest => row.landing = Nil
    BY <2>1, <2>4 DEF BasedOnLanding
  <2>7. request'[r] = new /\ \A s \in RequestId \ {r} : request'[s] = request[s]
    BY <1>0, <2>3
  <2>8. row.type # "START_REWARD"
    BY <2>1 DEF DeedRequest
  <2>9. RequestRules'
    BY <2>2, <2>3, <2>5, <2>6, <2>7, <2>8, RequestFiled DEF ActionLanding, Usable
  <2>10. ASSUME NeedsLanding(r)' PROVE OnLiveLanding(r)'
    <3>1. ActionLanding(row.landing, row.turn, p, o) /\ row.landing \in LandingId
      BY <2>2, <2>5, <2>7, <2>10 DEF NeedsLanding
    <3>2. DiceMode = "ELECTRONIC" => OnTurn(request[r].turn, request[r].actor)'
      BY <1>1, <2>2, <2>7, <3>1 DEF ActionLanding, OnTurn, ActiveTurns
    <3> DEFINE l == landing[row.landing]
    <3>3. /\ l.player = p /\ l.space = o /\ l.turn = row.turn
          /\ l.status = "CONFIRMED" /\ l.resolved /\ ~l.cancelled
      BY <3>1 DEF ActionLanding, Usable
    <3>4. landing'[request'[r].landing] = l
      BY <2>2, <2>3, <2>7
    <3> HIDE DEF l
    <3> QED
      BY <2>2, <2>7, <3>1, <3>2, <3>3, <3>4 DEF OnLiveLanding
  <2> QED
    BY <1>a, <2>2, <2>3, <2>9, <2>10
<1>3. CASE FilesCashRequest
  <2>1. PICK r \in RequestId, row \in RequestRow :
          /\ request[r].status = "NONE"
          /\ row.type \in RequestType \ DeedRequest /\ row.status = "PENDING"
          /\ row.prop = Nil
          /\ RewardOnLanding(row)
          /\ File(r, row)
    BY <1>3 DEF FilesCashRequest
  <2>2. request' = [request EXCEPT ![r] = row] /\ UNCHANGED landing
    BY <2>1 DEF File
  <2>3. request'[r] = row /\ \A s \in RequestId \ {r} : request'[s] = request[s]
    BY <1>0, <2>2
  <2>4. row.type \in LandingRequest <=> row.type = "START_REWARD"
    BY <2>1 DEF LandingRequest, DeedRequest
  <2>5. RequestRules'
    BY <2>1, <2>2, <2>3, <2>4, RequestFiled DEF RewardOnLanding
  <2>6. ASSUME NeedsLanding(r)' PROVE OnLiveLanding(r)'
    <3>1. row.type = "START_REWARD"
      BY <2>3, <2>4, <2>6 DEF NeedsLanding
    <3>2. DiceMode = "ELECTRONIC" => OnTurn(request[r].turn, request[r].actor)'
      BY <1>1, <2>1, <2>3, <3>1 DEF RewardOnLanding, OnTurn, ActiveTurns
    <3> DEFINE l == landing[row.landing]
    <3>3. /\ row.landing \in LandingId
          /\ l.player = row.actor /\ l.space = Nil /\ l.turn = row.turn
          /\ l.status = "CONFIRMED"
      BY <2>1, <3>1 DEF RewardOnLanding
    <3>4. landing'[request'[r].landing] = l
      BY <2>2, <2>3
    <3> HIDE DEF l
    <3> QED
      BY <2>1, <2>3, <3>1, <3>2, <3>3, <3>4 DEF OnLiveLanding
  <2> QED
    BY <1>a, <2>1, <2>2, <2>5, <2>6
<1> QED
  BY <1>2, <1>3, DeedRequestEffect, CashRequestEffect

\* Declaring a landing on one's turn voids only declared ones, on which no
\* request rests.
LEMMA DeclareOnTurnKeeps ==
  ASSUME TypeInv, LandingInv, NEW p \in Player, NEW o \in Property, NEW l \in LandingId,
         DeclareLandingOnTurn(p, o, l)
  PROVE  LandingInv'
<1>1. PICK n \in DOMAIN turn :
        /\ LandingsOf(n, {"CONFIRMED"}) = {}
        /\ landing' = [WithStatus(LandingsOf(n, {"DECLARED"}), "INVALIDATED")
                         EXCEPT ![l] = NewLanding(p, o, n, "DECLARED")]
  BY DEF DeclareLandingOnTurn
<1>2. /\ landing[l].status = "NONE" /\ DiceMode = "ELECTRONIC"
      /\ UNCHANGED <<current, turn, request>>
  BY DEF DeclareLandingOnTurn, turnVars
<1>3. n \in Nat /\ n # 0
  BY DEF TypeInv, TypeOK
<1>4. /\ landing'[l] = NewLanding(p, o, n, "DECLARED")
      /\ \A k \in LandingId \ {l} :
           landing'[k] = WithStatus(LandingsOf(n, {"DECLARED"}), "INVALIDATED")[k]
  BY <1>1 DEF WithStatus
<1>5. \A k \in LandingId \ {l} :
        /\ LandingMoved(k)
        /\ k \in LandingsOf(n, {"DECLARED"}) => landing'[k].status = "INVALIDATED"
        /\ k \notin LandingsOf(n, {"DECLARED"}) => landing'[k] = landing[k]
  BY <1>4, VoidMoves DEF LandingsOf
<1>6. LandingRules'
  <2>1. \A k \in LandingId \ {l} :
          ~(landing'[k].status \in {"DECLARED", "CONFIRMED"} /\ landing[k].turn = n)
    BY <1>1, <1>5 DEF LandingsOf
  <2>2. o # Nil /\ "DECLARED" \in {"DECLARED", "CONFIRMED"}
    BY NilAssumption
  <2> QED
    BY <1>2, <1>4, <1>5, <2>1, <2>2, LandingAdded DEF LandingInv
<1>7. RequestRules'
  BY <1>2, <1>4, <1>5, SameRequest, RequestsMove DEF NewLanding
<1>8. WaitingOnLandings'
  <2>1. ASSUME NEW r \in RequestId, OnLiveLanding(r)
        PROVE  landing'[request[r].landing] = landing[request[r].landing]
    BY <1>2, <1>5, <2>1 DEF OnLiveLanding, LandingsOf
  <2> QED
    BY <1>2, <2>1, SameRequest, WaitsOn DEF WaitingOnLandings
<1> QED
  BY <1>6, <1>7, <1>8 DEF LandingInv

\* With physical dice the landings of the player a new one finds are voided
\* or closed.
LEMMA BoardAdvanced ==
  ASSUME TypeInv, LandingInv, DiceMode = "PHYSICAL", NEW p \in Player, NEW l \in LandingId,
         landing[l].status = "NONE", NEW o, NEW s \in {"DECLARED", "CONFIRMED"},
         s = "DECLARED" => o # Nil,
         landing' = [AdvancedLandings(p) EXCEPT ![l] = NewLanding(p, o, 0, s)]
  PROVE  /\ LandingRules'
         /\ landing'[l] = NewLanding(p, o, 0, s)
         /\ \A k \in LandingId \ {l} : LandingMoved(k)
         /\ \A r \in RequestId : OnLiveLanding(r) =>
              LET k == request[r].landing IN
              \/ landing'[k] = landing[k]
              \/ /\ DiceMode = "PHYSICAL" /\ landing'[k].status = "CLOSED"
                 /\ landing'[k].player = landing[k].player
                 /\ landing'[k].space = landing[k].space
                 /\ landing'[k].turn = landing[k].turn
                 /\ landing'[k].resolved = landing[k].resolved
                 /\ landing'[k].cancelled = landing[k].cancelled
<1>1. /\ landing'[l] = NewLanding(p, o, 0, s)
      /\ \A k \in LandingId \ {l} : landing'[k] = AdvancedLandings(p)[k]
  BY DEF AdvancedLandings
<1>2. ASSUME NEW k \in LandingId \ {l}
      PROVE  /\ LandingMoved(k)
             /\ k \in LiveLandingsOf(p) /\ landing[k].status = "DECLARED"
                  => landing'[k].status = "INVALIDATED"
             /\ k \in LiveLandingsOf(p) /\ landing[k].status = "CONFIRMED"
                  => /\ landing'[k].status = "CLOSED"
                     /\ landing'[k].resolved = landing[k].resolved
                     /\ landing'[k].cancelled = landing[k].cancelled
             /\ k \notin LiveLandingsOf(p) => landing'[k] = landing[k]
  BY <1>1, AdvanceMoves
<1>3. LandingRules'
  <2>1. \A k \in LandingId \ {l} :
          ~(/\ landing'[k].status \in {"DECLARED", "CONFIRMED"}
            /\ landing[k].turn = 0 /\ landing[k].player = p)
    BY <1>2 DEF LiveLandingsOf
  <2> QED
    BY <1>1, <1>2, <2>1, LandingAdded DEF LandingInv
<1>4. ASSUME NEW r \in RequestId, OnLiveLanding(r)
      PROVE  LET k == request[r].landing IN
             \/ landing'[k] = landing[k]
             \/ /\ DiceMode = "PHYSICAL" /\ landing'[k].status = "CLOSED"
                /\ landing'[k].player = landing[k].player
                /\ landing'[k].space = landing[k].space
                /\ landing'[k].turn = landing[k].turn
                /\ landing'[k].resolved = landing[k].resolved
                /\ landing'[k].cancelled = landing[k].cancelled
  <2> DEFINE k == request[r].landing
  <2>1. k \in LandingId \ {l} /\ landing[k].status \in {"CONFIRMED", "CLOSED"}
    BY <1>4 DEF OnLiveLanding
  <2> HIDE DEF k
  <2>2. \/ landing'[k] = landing[k]
        \/ /\ DiceMode = "PHYSICAL" /\ landing'[k].status = "CLOSED"
           /\ landing'[k].player = landing[k].player
           /\ landing'[k].space = landing[k].space
           /\ landing'[k].turn = landing[k].turn
           /\ landing'[k].resolved = landing[k].resolved
           /\ landing'[k].cancelled = landing[k].cancelled
    BY <1>2, <2>1 DEF LandingMoved, LiveLandingsOf
  <2> QED
    BY <2>2 DEF k
<1> QED
  BY <1>1, <1>2, <1>3, <1>4

\* Declaring a landing with physical dice keeps LandingInv.
LEMMA DeclareOnBoardKeeps ==
  ASSUME TypeInv, LandingInv, NEW p \in Player, NEW o \in Property, NEW l \in LandingId,
         DeclareLandingOnBoard(p, o, l)
  PROVE  LandingInv'
<1>1. /\ DiceMode = "PHYSICAL" /\ landing[l].status = "NONE"
      /\ landing' = [AdvancedLandings(p) EXCEPT ![l] = NewLanding(p, o, 0, "DECLARED")]
      /\ request' = Cancelled(PendingOfLandings(CorrectedLandings(p)))
      /\ UNCHANGED <<current, turn>>
  BY DEF DeclareLandingOnBoard, CancelRequests, turnVars
<1>2. PendingOfLandings(CorrectedLandings(p)) \in SUBSET Pending
  BY DEF PendingOfLandings
<1>3. \A r \in RequestId : RequestMoved(r)
  BY <1>1, <1>2, CancelMoves
<1>4. o # Nil /\ "DECLARED" \in {"DECLARED", "CONFIRMED"}
  BY NilAssumption
<1>5. LandingRules' /\ landing'[l].status = "DECLARED"
      /\ \A k \in LandingId \ {l} : LandingMoved(k)
  <2>1. /\ LandingRules' /\ landing'[l] = NewLanding(p, o, 0, "DECLARED")
        /\ \A k \in LandingId \ {l} : LandingMoved(k)
    BY <1>1, <1>4, BoardAdvanced
  <2> QED
    BY <2>1 DEF NewLanding
<1>6. RequestRules'
  BY <1>3, <1>5, RequestsMove
<1>7. WaitingOnLandings'
  BY <1>1, <1>3, <1>4, BoardAdvanced, WaitsOn DEF WaitingOnLandings
<1> QED
  BY <1>5, <1>6, <1>7 DEF LandingInv

\* The start reward filed with a START landing rests on it.
LEMMA StartRewardFields ==
  ASSUME NEW p, NEW l, NEW n
  PROVE  LET row == StartRewardRequest(p, l, n) IN
         /\ row.type = "START_REWARD" /\ row.status = "PENDING" /\ row.actor = p
         /\ row.prop = Nil /\ row.landing = l /\ row.turn = n
  BY DEF StartRewardRequest, NoRequest

\* A START landing declared on one's turn voids every other live landing of
\* the turn and cancels what rested on it.
LEMMA DeclareStartOnTurnKeeps ==
  ASSUME TypeInv, OneActiveTurn, LandingInv,
         NEW p \in Player, NEW l \in LandingId, NEW r \in RequestId,
         DeclareStartOnTurn(p, l, r)
  PROVE  LandingInv'
<1>1. PICK n \in DOMAIN turn :
        LET dropped == PendingOfLandings(LandingsOf(n, {"CONFIRMED"})) IN
        /\ OnTurn(n, p)
        /\ ~RewardSettled(n)
        /\ request' = [Cancelled(dropped) EXCEPT ![r] = StartRewardRequest(p, l, n)]
        /\ landing' = [WithStatus(LandingsOf(n, {"DECLARED", "CONFIRMED"}), "INVALIDATED")
                         EXCEPT ![l] = NewLanding(p, Nil, n, "CONFIRMED")]
  BY DEF DeclareStartOnTurn
<1> DEFINE dropped == PendingOfLandings(LandingsOf(n, {"CONFIRMED"}))
           old == LandingsOf(n, {"DECLARED", "CONFIRMED"})
<1>2. /\ landing[l].status = "NONE" /\ request[r].status = "NONE" /\ DiceMode = "ELECTRONIC"
      /\ UNCHANGED <<current, turn>>
  BY DEF DeclareStartOnTurn, turnVars
<1>3. n \in Nat /\ n # 0 /\ dropped \in SUBSET Pending
  BY DEF TypeInv, TypeOK, PendingOfLandings
<1>4. /\ landing'[l] = NewLanding(p, Nil, n, "CONFIRMED")
      /\ \A k \in LandingId \ {l} : landing'[k] = WithStatus(old, "INVALIDATED")[k]
      /\ request'[r] = StartRewardRequest(p, l, n)
      /\ \A s \in RequestId \ {r} : request'[s] = Cancelled(dropped)[s]
  BY <1>1 DEF WithStatus, Cancelled
<1> HIDE DEF dropped, old
<1>5. \A k \in LandingId \ {l} :
        /\ LandingMoved(k)
        /\ k \in old => landing'[k].status = "INVALIDATED"
        /\ k \notin old => landing'[k] = landing[k]
  BY <1>4, VoidMoves DEF LandingsOf, old
<1>6. \A s \in RequestId \ {r} :
        /\ RequestMoved(s)
        /\ s \in dropped => request'[s].status = "CANCELLED"
  BY <1>3, <1>4, CancelMoves
<1>7. LandingRules'
  <2>1. \A k \in LandingId \ {l} :
          ~(landing'[k].status \in {"DECLARED", "CONFIRMED"} /\ landing[k].turn = n)
    BY <1>5 DEF LandingsOf, old
  <2>2. "CONFIRMED" \in {"DECLARED", "CONFIRMED"} /\ "CONFIRMED" # "DECLARED"
    OBVIOUS
  <2> QED
    BY <1>2, <1>4, <1>5, <2>1, <2>2, LandingAdded DEF LandingInv
<1>8. ASSUME NEW s \in RequestId \ {r} PROVE ~NeedsLanding(s)'
  <2> SUFFICES ASSUME NeedsLanding(s)' PROVE FALSE
    OBVIOUS
  <2>1. NeedsLanding(s) /\ s \notin dropped
    BY <1>6 DEF NeedsLanding, RequestMoved
  <2>2. ActiveTurns = {request[s].turn}
    BY <1>2, <2>1, WaitsOnTurn
  <2>3. request[s].turn = n
    BY <1>1, <2>2 DEF OnTurn
  <2>4. OnLiveLanding(s)
    BY <2>1 DEF LandingInv, WaitingOnLandings
  <2>5. request[s].landing \in LandingsOf(n, {"CONFIRMED"})
    BY <1>2, <2>3, <2>4 DEF OnLiveLanding, LandingsOf
  <2> QED
    BY <2>1, <2>5 DEF dropped, PendingOfLandings, Pending, NeedsLanding
<1>9. RequestRules'
  <2>1. /\ landing'[l].status = "CONFIRMED" /\ landing'[l].turn = n
        /\ request'[r].status = "PENDING" /\ request'[r].type = "START_REWARD"
        /\ request'[r].landing = l /\ request'[r].turn = n
    BY <1>4, StartRewardFields DEF NewLanding
  <2>2. ASSUME NEW s \in RequestId \ {r}, request'[s].turn = n,
               request'[s].type = "START_REWARD",
               request'[s].status \in {"PENDING", "EXECUTED", "REVERSED"}
        PROVE  FALSE
    <3>1. request'[s].status # "PENDING"
      BY <1>8, <2>2 DEF NeedsLanding, LandingRequest
    <3>2. /\ request[s].turn = n /\ request[s].type = "START_REWARD"
          /\ request[s].status \in {"PENDING", "EXECUTED", "REVERSED"}
      BY <1>6, <2>2, <3>1 DEF RequestMoved
    <3>3. request[s].status \in {"EXECUTED", "REVERSED"}
      <4>1. s \in Pending => request'[s].status \in {"PENDING", "CANCELLED"}
        BY <1>4 DEF Cancelled, Pending, TypeInv, TypeOK, RequestRow
      <4> QED
        BY <2>2, <3>1, <3>2, <4>1 DEF Pending
    <3> QED
      BY <1>1, <3>2, <3>3 DEF RewardSettled
  <2> QED
    BY <1>2, <1>3, <1>5, <1>6, <2>1, <2>2, RewardDeclared
<1>10. OnLiveLanding(r)'
  <2>1. OnTurn(request[r].turn, request[r].actor)'
    BY <1>1, <1>2, <1>4, StartRewardFields DEF OnTurn, ActiveTurns
  <2> QED
    BY <1>4, <2>1, StartRewardFields DEF OnLiveLanding, NewLanding
<1>11. WaitingOnLandings'
  BY <1>8, <1>10 DEF WaitingOnLandings
<1> QED
  BY <1>7, <1>9, <1>11 DEF LandingInv

\* Declaring START with physical dice keeps LandingInv.
LEMMA DeclareStartOnBoardKeeps ==
  ASSUME TypeInv, LandingInv, NEW p \in Player, NEW l \in LandingId, NEW r \in RequestId,
         DeclareStartOnBoard(p, l, r)
  PROVE  LandingInv'
<1> DEFINE dropped == PendingOfLandings(CorrectedLandings(p))
<1>1. /\ DiceMode = "PHYSICAL" /\ landing[l].status = "NONE" /\ request[r].status = "NONE"
      /\ landing' = [AdvancedLandings(p) EXCEPT ![l] = NewLanding(p, Nil, 0, "CONFIRMED")]
      /\ request' = [Cancelled(dropped) EXCEPT ![r] = StartRewardRequest(p, l, 0)]
      /\ UNCHANGED <<current, turn>>
  BY DEF DeclareStartOnBoard, turnVars
<1>2. dropped \in SUBSET Pending
  BY DEF PendingOfLandings
<1>3. /\ request'[r] = StartRewardRequest(p, l, 0)
      /\ \A s \in RequestId \ {r} : request'[s] = Cancelled(dropped)[s]
  BY <1>1 DEF Cancelled
<1> HIDE DEF dropped
<1>4. \A s \in RequestId \ {r} : RequestMoved(s)
  BY <1>2, <1>3, CancelMoves
<1>5. "CONFIRMED" \in {"DECLARED", "CONFIRMED"} /\ "CONFIRMED" # "DECLARED"
  OBVIOUS
<1>6. /\ LandingRules' /\ landing'[l] = NewLanding(p, Nil, 0, "CONFIRMED")
      /\ \A k \in LandingId \ {l} : LandingMoved(k)
  BY <1>1, <1>5, BoardAdvanced
<1>7. RequestRules'
  <2>1. /\ landing'[l].status = "CONFIRMED" /\ landing'[l].turn = 0
        /\ request'[r].status = "PENDING" /\ request'[r].type = "START_REWARD"
        /\ request'[r].landing = l /\ request'[r].turn = 0
    BY <1>3, <1>6, StartRewardFields DEF NewLanding
  <2> QED
    BY <1>1, <1>4, <1>6, <2>1, RewardDeclared
<1>8. WaitingOnLandings'
  <2>1. OnLiveLanding(r)'
    BY <1>1, <1>3, <1>6, StartRewardFields DEF OnLiveLanding, NewLanding
  <2>2. ASSUME NEW s \in RequestId \ {r} PROVE NeedsLanding(s)' => OnLiveLanding(s)'
    BY <1>1, <1>4, <1>5, BoardAdvanced, WaitsOn
  <2> QED
    BY <2>1, <2>2 DEF WaitingOnLandings
<1> QED
  BY <1>6, <1>7, <1>8 DEF LandingInv

\* The landing commands keep LandingInv.
LEMMA LandingStepLandings ==
  ASSUME TypeInv, OneActiveTurn, LandingInv, LandingStep
  PROVE  LandingInv'
<1>1. ASSUME NEW l \in LandingId, NEW b \in BOOLEAN, ConfirmLanding(l, b)
      PROVE  LandingInv'
  <2>1. /\ landing[l].status = "DECLARED" /\ UNCHANGED <<current, turn, request>>
        /\ landing' = [landing EXCEPT ![l].status = "CONFIRMED", ![l].resolved = b]
    BY <1>1 DEF ConfirmLanding, turnVars
  <2>2. \A k \in LandingId : landing[k] \in LandingRow
    BY DEF TypeInv, TypeOK
  <2>3. \A k \in LandingId \ {l} : landing'[k] = landing[k]
    BY <2>1 DEF TypeInv, TypeOK
  <2>4. LandingMoved(l)
    BY <2>1, <2>2 DEF LandingMoved, TypeInv, TypeOK, LandingRow
  <2>5. \A k \in LandingId : LandingMoved(k)
    BY <2>3, <2>4, SameLanding
  <2>6. ASSUME NEW r \in RequestId, OnLiveLanding(r)
        PROVE  landing'[request[r].landing] = landing[request[r].landing]
    BY <2>1, <2>3, <2>6 DEF OnLiveLanding
  <2>7. WaitingOnLandings'
    BY <2>1, <2>6, SameRequest, WaitsOn DEF WaitingOnLandings
  <2> QED
    BY <2>1, <2>5, <2>7, LandingsMove, SameRequest, RequestsMove DEF LandingInv
<1>2. ASSUME NEW l \in LandingId, CancelLandingPropertyActions(l)
      PROVE  LandingInv'
  <2>1. /\ landing[l].status # "NONE" /\ UNCHANGED <<current, turn>>
        /\ request' = Cancelled(PendingOfLandings({l}))
        /\ landing' = [landing EXCEPT ![l].status = "INVALIDATED",
                                      ![l].cancelled = TRUE, ![l].resolved = TRUE]
    BY <1>2 DEF CancelLandingPropertyActions, CancelRequests, turnVars
  <2>2. \A k \in LandingId : landing[k] \in LandingRow
    BY DEF TypeInv, TypeOK
  <2>3. \A k \in LandingId \ {l} : landing'[k] = landing[k]
    BY <2>1 DEF TypeInv, TypeOK
  <2>4. LandingMoved(l)
    BY <2>1, <2>2 DEF LandingMoved, TypeInv, TypeOK, LandingRow
  <2>5. \A k \in LandingId : LandingMoved(k)
    BY <2>3, <2>4, SameLanding
  <2>6. PendingOfLandings({l}) \in SUBSET Pending
    BY DEF PendingOfLandings
  <2>7. \A r \in RequestId :
          /\ RequestMoved(r)
          /\ r \in PendingOfLandings({l}) => request'[r].status = "CANCELLED"
    BY <2>1, <2>6, CancelMoves
  <2>8. ASSUME NEW r \in RequestId, OnLiveLanding(r), NeedsLanding(r), NeedsLanding(r)'
        PROVE  landing'[request[r].landing] = landing[request[r].landing]
    <3>1. request[r].landing # l
      BY <2>7, <2>8 DEF PendingOfLandings, Pending, NeedsLanding
    <3> QED
      BY <2>3, <2>8, <3>1 DEF OnLiveLanding
  <2>9. WaitingOnLandings'
    BY <2>1, <2>7, <2>8, WaitsOn DEF WaitingOnLandings
  <2> QED
    BY <2>5, <2>7, <2>9, LandingsMove, RequestsMove DEF LandingInv
<1> QED
  BY <1>1, <1>2, DeclareOnTurnKeeps, DeclareOnBoardKeeps, DeclareStartOnTurnKeeps,
     DeclareStartOnBoardKeeps DEF LandingStep

-----------------------------------------------------------------------------
(* The theorems *)

\* No landing is declared and no request filed when the room is created.
LEMMA InitLandingInv == Init => LandingInv
<1> SUFFICES ASSUME Init PROVE LandingInv
  OBVIOUS
<1>1. /\ \A l \in LandingId : landing[l].status = "NONE" /\ landing[l].turn = 0
      /\ \A r \in RequestId : request[r].status = "NONE" /\ request[r].landing = Nil
  BY DEF Init, NoLanding, NoRequest
<1>2. LandingRules
  BY <1>1 DEF LandingRules, LandingKinds, OneLiveLanding
<1>3. RequestRules
  BY <1>1 DEF RequestRules, LandingNamed, OneUsePerLanding, StartRewardOncePerTurn, RewardKept
<1>4. WaitingOnLandings
  BY <1>1 DEF WaitingOnLandings, NeedsLanding
<1> QED
  BY <1>2, <1>3, <1>4 DEF LandingInv

\* LandingInv holds in every reachable state of every room.
THEOREM LandingInvariant == Spec => []LandingInv
<1>1. LockInv /\ OneActiveTurn /\ LandingInv /\ [Next]_vars => LandingInv'
  <2> SUFFICES ASSUME LockInv, OneActiveTurn, LandingInv, [Next]_vars PROVE LandingInv'
    OBVIOUS
  <2>1. TypeInv
    BY DEF LockInv
  <2>2. CASE UNCHANGED vars
    BY <2>1, <2>2, SameRequest, SettlingKeeps DEF vars
  <2>3. CASE SettleStep \/ MoneyStep \/ BankStep
    BY <2>1, <2>3, SettlingMoves, SettlingKeeps
  <2>4. CASE TurnStep \/ LandingStep
    BY <2>1, <2>4, TurnStepLandings, LandingStepLandings
  <2>5. CASE DeedRequestStep \/ CashRequestStep
    BY <2>1, <2>5, RequestStepLandings
  <2>6. CASE RoomStep
    BY <2>1, <2>6, RoomStepLandings
  <2> QED
    BY <2>2, <2>3, <2>4, <2>5, <2>6 DEF Next
<1> QED
  BY <1>1, InitLandingInv, LockInvariant, TurnsHaveOneActive, PTL DEF Spec

\* Of the landings of a turn, or of a player with physical dice, at most one
\* is undecided or confirmed, however landings are declared again, corrected,
\* confirmed and voided: the query for the current landing has no choice.
THEOREM LandingsHaveOneLive == Spec => []OneLiveLanding
<1>1. LandingInv => OneLiveLanding
  BY DEF LandingInv, LandingRules
<1> QED
  BY <1>1, LandingInvariant, PTL

\* Whatever voids a landing or ends a turn takes along the requests that rest
\* on it, so the bank never finds a waiting purchase, upgrade or start reward
\* whose landing or turn is gone.
THEOREM PendingRestOnLiveLandings == Spec => []PendingOnLiveLanding
<1>1. TypeInv /\ LandingInv => PendingOnLiveLanding
  <2> SUFFICES ASSUME TypeInv, LandingInv, NEW r \in Pending
               PROVE  /\ request[r].type \in {"BUY_PROPERTY", "BUILD_PROPERTY"}
                           => StillOnLanding(r)
                      /\ request[r].type = "START_REWARD" =>
                           /\ landing[request[r].landing].status # "INVALIDATED"
                           /\ DiceMode = "ELECTRONIC"
                                => OnTurn(request[r].turn, request[r].actor)
    BY DEF PendingOnLiveLanding
  <2>1. request[r].type \in LandingRequest => OnLiveLanding(r)
    BY DEF LandingInv, WaitingOnLandings, NeedsLanding, Pending
  <2>2. CASE request[r].type \in {"BUY_PROPERTY", "BUILD_PROPERTY"}
    <3>1. OnLiveLanding(r)
      BY <2>1, <2>2 DEF LandingRequest
    <3>2. DiceMode = "PHYSICAL" => landing[request[r].landing].turn = 0
      BY <3>1 DEF LandingInv, LandingRules, LandingKinds, OnLiveLanding
    <3> QED
      BY <2>2, <3>1, <3>2, DiceAssumption DEF OnLiveLanding, StillOnLanding
  <2>3. CASE request[r].type = "START_REWARD"
    BY <2>1, <2>3 DEF LandingRequest, OnLiveLanding
  <2> QED
    BY <2>2, <2>3
<1> QED
  BY <1>1, TypeInvariant, LandingInvariant, PTL

\* A landing carries one purchase, upgrade or start reward: a second one is
\* refused while the first waits, after it was executed and after it was
\* reversed.
THEOREM LandingsAreUsedOnce == Spec => []OneUsePerLanding
<1>1. LandingInv => OneUsePerLanding
  BY DEF LandingInv, RequestRules
<1> QED
  BY <1>1, LandingInvariant, PTL

\* An electronic turn yields one start reward at most, however often its
\* START landing is replaced, cancelled or refiled: the database's trigger
\* never fires.
THEOREM TurnsYieldOneStartReward == Spec => []StartRewardOncePerTurn
<1>1. LandingInv => StartRewardOncePerTurn
  BY DEF LandingInv, RequestRules
<1> QED
  BY <1>1, LandingInvariant, PTL

-----------------------------------------------------------------------------
(* A waiting property request still fits its deed *)

\* The step files r, and the deed it leaves fits what r asks for.
FiledToFit(r) == DeedFits(request'[r], request'[r].prop, prop'[request'[r].prop])

\* Whether a deed fits a request is a question of the fields that stay.
LEMMA FitsFields ==
  ASSUME NEW q, NEW r, NEW d, NEW e, NEW o, DeedFits(q, o, d), SameFace(d, e),
         r.type = q.type, r.actor = q.actor, r.amount = q.amount, r.count = q.count
  PROVE  DeedFits(r, o, e)
  BY DEF DeedFits, SameFace

\* Any deed fits a request about none.
LEMMA FitsAny ==
  ASSUME NEW q, q.type \notin DeedRequest, NEW o, NEW d
  PROVE  DeedFits(q, o, d)
  BY DEF DeedFits, DeedRequest

\* Every step moves a request or files it with a deed that fits.
LEMMA RequestsMoveOrFit ==
  ASSUME LockInv, Next, NEW r \in RequestId
  PROVE  RequestMoved(r) \/ FiledToFit(r)
<1>0. TypeInv /\ request \in [RequestId -> RequestRow]
  BY DEF LockInv, TypeInv, TypeOK
<1>1. ASSUME NEW S \in SUBSET Pending, request' = Cancelled(S) PROVE RequestMoved(r)
  BY <1>0, <1>1, CancelMoves
<1>2. \A L : PendingOfLandings(L) \in SUBSET Pending
  BY DEF PendingOfLandings
<1>3. CASE TurnStep
  <2>1. \/ request' = request
        \/ \E S \in SUBSET Pending : request' = Cancelled(S)
    <3>1. \A n : PendingOfTurn(n) \in SUBSET Pending
      BY DEF PendingOfTurn
    <3> QED
      BY <1>3, <3>1 DEF TurnStep, Start, Roll, SkipTurn, EndTurn, ForceNext,
                        InvalidateRoll, CancelRequests
  <2> QED
    BY <1>1, <2>1, SameRequest
<1>4. CASE LandingStep
  <2>1. \/ request' = request
        \/ \E S \in SUBSET Pending : request' = Cancelled(S)
        \/ \E S \in SUBSET Pending, s \in RequestId : \E p, l, n :
             request' = [Cancelled(S) EXCEPT ![s] = StartRewardRequest(p, l, n)]
    BY <1>2, <1>4 DEF LandingStep, DeclareLandingOnTurn, DeclareLandingOnBoard,
                      DeclareStartOnTurn, DeclareStartOnBoard, ConfirmLanding,
                      CancelLandingPropertyActions, CancelRequests
  <2>2. ASSUME NEW S \in SUBSET Pending, NEW s \in RequestId, NEW p, NEW l, NEW n,
               request' = [Cancelled(S) EXCEPT ![s] = StartRewardRequest(p, l, n)]
        PROVE  RequestMoved(r) \/ FiledToFit(r)
    <3>1. request'[r] = IF r = s THEN StartRewardRequest(p, l, n) ELSE Cancelled(S)[r]
      BY <2>2 DEF Cancelled
    <3>2. StartRewardRequest(p, l, n).type \notin DeedRequest
      BY StartRewardFields DEF DeedRequest
    <3> QED
      BY <1>0, <3>1, <3>2, CancelMoves, FitsAny DEF FiledToFit
  <2> QED
    BY <1>1, <2>1, <2>2, SameRequest
<1>5. CASE DeedRequestStep
  <2>1. PICK p \in Player, o \in Property, s \in RequestId, row \in RequestRow :
          DeedFits(row, o, prop[o]) /\ FileFor(o, s, row)
    BY <1>0, <1>5, DeedRequestEffect DEF FilesDeedRequest
  <2> DEFINE new == [row EXCEPT !.prop = o, !.mortgaged = prop[o].mortgaged]
  <2>2. request' = [request EXCEPT ![s] = new] /\ prop' = [prop EXCEPT ![o].lock = s]
    BY <2>1 DEF FileFor, File
  <2>3. /\ new.type = row.type /\ new.actor = row.actor /\ new.prop = o
        /\ new.amount = row.amount /\ new.count = row.count
    BY DEF RequestRow
  <2>4. SameFace(prop[o], prop'[o])
    BY <1>0, <2>2 DEF SameFace, TypeInv, TypeOK, Deed
  <2> HIDE DEF new
  <2>5. CASE r = s
    <3>1. DeedFits(new, o, prop'[o])
      BY <2>1, <2>3, <2>4, FitsFields
    <3> QED
      BY <1>0, <2>2, <2>3, <2>5, <3>1 DEF FiledToFit
  <2>6. CASE r # s
    BY <1>0, <2>2, <2>6, SameRequest
  <2> QED
    BY <2>5, <2>6
<1>6. CASE CashRequestStep
  <2>1. PICK s \in RequestId, row \in RequestRow :
          row.type \notin DeedRequest /\ request' = [request EXCEPT ![s] = row]
    BY <1>0, <1>6, CashRequestEffect DEF FilesCashRequest, File
  <2>2. request'[r] = IF r = s THEN row ELSE request[r]
    BY <1>0, <2>1
  <2> QED
    BY <2>1, <2>2, SameRequest, FitsAny DEF FiledToFit
<1>7. CASE SettleStep \/ MoneyStep \/ BankStep
  BY <1>7, SettlingMoves
<1>8. CASE RoomStep
  <2>1. \/ request' = request
        \/ request' = Cancelled(Pending)
    BY <1>8 DEF RoomStep, SetApprovalMode, JoinMidgame, FinishNormal, FinishForced
  <2> QED
    BY <1>1, <2>1, SameRequest
<1> QED
  BY <1>3, <1>4, <1>5, <1>6, <1>7, <1>8 DEF Next

\* So a waiting request keeps fitting: the deed it locks stays as it is.
LEMMA FitsStep ==
  ASSUME LockInv, TypeInv', FinishedRoomIsQuiet', PendingDeedStillValid, [Next]_vars
  PROVE  PendingDeedStillValid'
<1> SUFFICES ASSUME NEW r \in RequestId, request'[r].status = "PENDING"
             PROVE  FiledToFit(r)
  BY DEF PendingDeedStillValid, Pending, FiledToFit, DeedFits
<1>1. CASE FiledToFit(r)
  BY <1>1
<1>2. CASE RequestMoved(r) /\ request[r].type \notin DeedRequest
  BY <1>2, FitsAny DEF FiledToFit, RequestMoved
<1>3. CASE RequestMoved(r) /\ request[r].type \in DeedRequest
  <2> DEFINE o == request[r].prop
  <2>1. request[r].status = "PENDING" /\ request'[r].prop = o
    BY <1>3 DEF RequestMoved
  <2>2. o \in Property
    BY <1>3 DEF LockInv, TypeInv, TypeOK, RequestShape, RowShape, RequestRow
  <2>3. prop[o].lock = r /\ r # Nil
    BY <2>1, <2>2, NilAssumption DEF LockInv, LockMatchesRequest
  <2>4. status' # "FINISHED"
    BY DEF FinishedRoomIsQuiet, Pending
  <2>5. LockedFrozen
    BY LockedFrozenStep DEF LockInv
  <2>6. FaceOf(prop'[o]) = FaceOf(prop[o])
    BY <2>2, <2>3, <2>4, <2>5 DEF LockedFrozen
  <2>7. SameFace(prop[o], prop'[o])
    BY <2>6, FaceFields
  <2>8. DeedFits(request[r], o, prop[o])
    BY <2>1 DEF PendingDeedStillValid, Pending, DeedFits
  <2> HIDE DEF o
  <2> QED
    BY <1>3, <2>1, <2>7, <2>8, FitsFields DEF FiledToFit, RequestMoved
<1>4. CASE UNCHANGED vars
  BY <1>4, SameRequest, <1>2, <1>3 DEF vars
<1> QED
  BY <1>1, <1>2, <1>3, <1>4, RequestsMoveOrFit

\* What was checked when a property request was filed (owner, mortgage, level,
\* the number of buildings, the price offered) still holds when the bank comes
\* to it: approving never fails because the deed has changed in the meantime.
THEOREM PendingDeedsStayValid == Spec => []PendingDeedStillValid
<1>1. Init => PendingDeedStillValid
  BY DEF Init, PendingDeedStillValid, Pending, NoRequest
<1> QED
  BY <1>1, FitsStep, LockInvariant, TypeInvariant, FinishedRoomsAreQuiet, PTL DEF Spec

=============================================================================
