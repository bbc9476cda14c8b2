----------------------------- MODULE RoomTurns -----------------------------
(***************************************************************************)
(* The turn and landing commands of PrismaGameService: starting the room,  *)
(* rolling, ending, skipping and forcing turns, voiding a roll, and the    *)
(* life of a landing in both dice modes.                                   *)
(***************************************************************************)
EXTENDS RoomState

-----------------------------------------------------------------------------
(* createNextActionableTurn walks the playable seats in turn order.  A      *)
(* seat that still owes a skip turn when the walk reaches it gets an ENDED  *)
(* turn and one of its skip units is consumed; the first seat that owes     *)
(* none gets the ACTIVE turn.                                               *)

Seats == Cardinality(playable)

\* playablePlayers(), ordered by turnOrder (the set has one element)
PlayersUnordered == {s \in [0 .. Seats - 1 -> playable] :
                       \A i, j \in 0 .. Seats - 1 : i # j => s[i] # s[j]}
PlayersInOrder == {s \in [0 .. Seats - 1 -> playable] :
                     \A i, j \in 0 .. Seats - 1 : i < j => s[i] < s[j]}

\* how often seat q was visited in the first k stops of the walk
VisitsAfterFirst(players, from, q, k) ==
    Cardinality({i \in 1 .. k - 1 : players[(from + i) % Seats] = q})
Visits(players, from, q, k) ==
    Cardinality({i \in 0 .. k - 1 : players[(from + i) % Seats] = q})

\* the walk starts at index `from`, passes over `steps` seats and stops;
\* rows, owes and units are the tables as the caller left them
NextActionableTurn(players, from, rows, owes, units) ==
    \E steps \in 0 .. MaxTurn :
        LET at(k) == players[(from + k) % Seats]
            taken(q, k) == Visits(players, from, q, k)
        IN  /\ Len(rows) + steps < MaxTurn
            /\ \A k \in 0 .. steps - 1 : taken(at(k), k) < owes[at(k)]
            /\ taken(at(steps), steps) >= owes[at(steps)]
            /\ \A q \in Player : taken(q, steps) <= Len(units[q])   \* SKIP_ENTRY_MISSING
            /\ owed' = [q \in Player |-> owes[q] - taken(q, steps)]
            /\ skip' = [q \in Player |->
                          SubSeq(units[q], taken(q, steps) + 1, Len(units[q]))]
            /\ turn' = rows
                 \o [k \in 1..steps |-> [player |-> at(k - 1),
                                         status |-> "ENDED", rolled |-> FALSE]]
                 \o << [player |-> at(steps), status |-> "ACTIVE", rolled |-> FALSE] >>
            /\ current' = at(steps)

\* turn n of player p ends and the walk starts at the seat after p's
PassOnKeepingTurn(n, p, owes, units) ==
    \E players \in PlayersInOrder :
        \E i \in 0 .. Seats - 1 :
            /\ players[i] = p
            /\ NextActionableTurn(players, i + 1, turn, owes, units)
PassOn(n, p, owes, units) ==
    \E players \in PlayersInOrder :
        \E i \in 0 .. Seats - 1 :
            /\ players[i] = p
            /\ NextActionableTurn(players, i + 1,
                                  [turn EXCEPT ![n].status = "ENDED"], owes, units)

\* start(): at least two playable players; physical rooms have no turns
Start ==
    /\ status = "LOBBY"
    /\ Seats >= 2
    /\ status' = "PLAYING"
    /\ IF DiceMode = "ELECTRONIC"
         THEN \E players \in PlayersInOrder :
                NextActionableTurn(players, 0, <<>>, owed, skip)
         ELSE UNCHANGED turnVars
    /\ UNCHANGED <<approval, playable, moneyVars, prop, landing, request, settled>>

\* roll(): a player who owes skip turns may not roll
Roll(p) ==
    /\ status = "PLAYING"
    /\ DiceMode = "ELECTRONIC"
    /\ current = p
    /\ p \in playable
    /\ \E n \in ActiveTurns :
         /\ owed[turn[n].player] = 0
         /\ ~turn[n].rolled
         /\ turn' = [turn EXCEPT ![n].rolled = TRUE]
    /\ UNCHANGED <<roomVars, current, owed, skip, moneyVars, prop, landing,
                   request, settled>>

-----------------------------------------------------------------------------
(* Ending a turn *)

\* the landing whose toll endTurn() asks for
TollLandings(n, p) ==
    {l \in LandingId : /\ landing[l].turn = n
                       /\ landing[l].space \in Property
                       /\ Usable(l, p, landing[l].space)}

TollDue(l, p) ==
    LET deed == prop[landing[l].space] IN
    /\ deed.owner \in playable \ {p}
    /\ ~deed.mortgaged
    /\ ~CollectionBlocked(deed.owner)
    /\ ~TollCommitted(l)

\* tolls in force become irreversible when their turn ends
Frozen(L) ==
    [i \in DOMAIN log |->
        IF \E l \in L : TollCommitted(l) /\ settled[l] = i
          THEN [log[i] EXCEPT !.reversible = FALSE] ELSE log[i]]

EndTurn(p) ==
    /\ status = "PLAYING"
    /\ DiceMode = "ELECTRONIC"
    /\ current = p
    /\ \E n \in ActiveTurns :
         /\ turn[n].rolled
         /\ \A l \in TollLandings(n, p) : ~TollDue(l, p)      \* TOLL_REQUIRED
         /\ log' = Frozen(TollLandings(n, p))
         /\ CancelRequests(PendingOfTurn(n))
         /\ PassOn(n, p, owed, skip)
    /\ UNCHANGED <<roomVars, balance, landing, settled>>

\* skipTurn(): the current player serves one owed turn instead of rolling
SkipTurn(p) ==
    /\ status = "PLAYING"
    /\ DiceMode = "ELECTRONIC"
    /\ current = p
    /\ p \in playable
    /\ \E n \in ActiveTurns :
         /\ turn[n].player = p
         /\ ~turn[n].rolled
         /\ owed[p] > 0 /\ Len(skip[p]) > 0
         /\ PassOn(n, p, [owed EXCEPT ![p] = @ - 1], [skip EXCEPT ![p] = Tail(@)])
    /\ UNCHANGED <<roomVars, moneyVars, prop, landing, request, settled>>

\* forceNext(): the bank ends the turn whatever its state
ForceNext ==
    /\ status = "PLAYING"
    /\ DiceMode = "ELECTRONIC"
    /\ \E n \in ActiveTurns :
         /\ CancelRequests(PendingOfTurn(n))
         /\ PassOn(n, turn[n].player, owed, skip)
    /\ UNCHANGED <<roomVars, moneyVars, landing, settled>>

\* assertRollHasNoSettledActions
RollHasSettledActions(n) ==
    \/ \E r \in RequestId : request[r].turn = n /\ request[r].status = "EXECUTED"
    \/ \E l \in LandingId : landing[l].turn = n /\ TollCommitted(l)

\* invalidateRoll(): the roll and what was declared after it are void
InvalidateRoll ==
    /\ status # "FINISHED"
    /\ \E n \in ActiveTurns :
         /\ turn[n].rolled
         /\ ~RollHasSettledActions(n)
         /\ CancelRequests(PendingOfTurn(n))
         /\ landing' = WithStatus(LandingsOf(n, {"DECLARED", "CONFIRMED"}),
                                  "INVALIDATED")
         /\ turn' = [turn EXCEPT ![n].rolled = FALSE]
    /\ UNCHANGED <<roomVars, current, owed, skip, moneyVars, settled>>

-----------------------------------------------------------------------------
(* Landings *)

NewLanding(p, o, n, s) ==
    [status |-> s, player |-> p, space |-> o, turn |-> n,
     resolved |-> s = "CONFIRMED", cancelled |-> FALSE]

VoidedLandings(p) == WithStatus(LiveLandingsOf(p), "INVALIDATED")

\* advancePhysicalLanding: a declared landing is corrected, a confirmed one is closed
AdvancedLandings(p) ==
    [l \in LandingId |->
        CASE l \in LiveLandingsOf(p) /\ landing[l].status = "DECLARED"
               -> [landing[l] EXCEPT !.status = "INVALIDATED"]
          [] l \in LiveLandingsOf(p) /\ landing[l].status = "CONFIRMED"
               -> [landing[l] EXCEPT !.status = "CLOSED"]
          [] OTHER -> landing[l]]
CorrectedLandings(p) == {l \in LiveLandingsOf(p) : landing[l].status = "DECLARED"}

\* declareLanding() with electronic dice: it may replace a declared landing
\* of the turn, never a confirmed one
DeclareLandingOnTurn(p, o, l) ==
    /\ status = "PLAYING"
    /\ DiceMode = "ELECTRONIC"
    /\ p \in playable
    /\ landing[l].status = "NONE"
    /\ \E n \in DOMAIN turn :
         /\ OnTurn(n, p)
         /\ LandingsOf(n, {"CONFIRMED"}) = {}
         /\ landing' = [WithStatus(LandingsOf(n, {"DECLARED"}), "INVALIDATED")
                          EXCEPT ![l] = NewLanding(p, o, n, "DECLARED")]
    /\ UNCHANGED <<roomVars, turnVars, moneyVars, prop, request, settled>>

\* declareLanding() with physical dice
DeclareLandingOnBoard(p, o, l) ==
    /\ status = "PLAYING"
    /\ DiceMode = "PHYSICAL"
    /\ p \in playable
    /\ landing[l].status = "NONE"
    /\ CancelRequests(PendingOfLandings(CorrectedLandings(p)))
    /\ landing' = [AdvancedLandings(p)
                     EXCEPT ![l] = NewLanding(p, o, 0, "DECLARED")]
    /\ UNCHANGED <<roomVars, turnVars, moneyVars, settled>>

\* the START_REWARD request declareStartLanding() files with the landing
StartRewardRequest(p, l, n) ==
    [NoRequest EXCEPT !.type = "START_REWARD", !.status = "PENDING", !.actor = p,
                      !.landing = l, !.turn = n, !.amount = StartReward]

\* START_REWARD_ALREADY_SETTLED
RewardExecuted(n) ==
    \E q \in RequestId : /\ request[q].turn = n
                         /\ request[q].type = "START_REWARD"
                         /\ request[q].status = "EXECUTED"
RewardSettled(n) ==
    \E q \in RequestId : /\ request[q].turn = n
                         /\ request[q].type = "START_REWARD"
                         /\ request[q].status \in {"EXECUTED", "REVERSED"}

\* declareStartLanding() with electronic dice: replaceElectronicStartLanding
\* lets a new START landing replace one whose reward is not settled
DeclareStartOnTurn(p, l, r) ==
    /\ status = "PLAYING"
    /\ DiceMode = "ELECTRONIC"
    /\ p \in playable
    /\ landing[l].status = "NONE"
    /\ request[r].status = "NONE"
    /\ \E n \in DOMAIN turn :
         LET confirmed == LandingsOf(n, {"CONFIRMED"})
             dropped == PendingOfLandings(confirmed)
         IN /\ OnTurn(n, p)
            /\ ~RewardSettled(n)
            /\ \A c \in confirmed : landing[c].space = Nil
            /\ prop' = Unlocked(dropped)
            /\ request' = [Cancelled(dropped) EXCEPT ![r] = StartRewardRequest(p, l, n)]
            /\ landing' = [WithStatus(LandingsOf(n, {"DECLARED", "CONFIRMED"}),
                                      "INVALIDATED")
                             EXCEPT ![l] = NewLanding(p, Nil, n, "CONFIRMED")]
    /\ UNCHANGED <<roomVars, turnVars, moneyVars, settled>>

\* declareStartLanding() with physical dice
DeclareStartOnBoard(p, l, r) ==
    /\ status = "PLAYING"
    /\ DiceMode = "PHYSICAL"
    /\ p \in playable
    /\ landing[l].status = "NONE"
    /\ request[r].status = "NONE"
    /\ LET dropped == PendingOfLandings(CorrectedLandings(p)) IN
         /\ prop' = Unlocked(dropped)
         /\ request' = [Cancelled(dropped) EXCEPT ![r] = StartRewardRequest(p, l, 0)]
    /\ landing' = [AdvancedLandings(p)
                     EXCEPT ![l] = NewLanding(p, Nil, 0, "CONFIRMED")]
    /\ UNCHANGED <<roomVars, turnVars, moneyVars, settled>>

\* confirmLanding(): the bank also says whether the story of the plot is settled
ConfirmLanding(l, plotResolved) ==
    /\ status = "PLAYING"
    /\ landing[l].status = "DECLARED"
    /\ landing[l].player \in playable
    /\ DiceMode = "ELECTRONIC" => OnTurn(landing[l].turn, landing[l].player)
    /\ landing' = [landing EXCEPT ![l].status = "CONFIRMED",
                                  ![l].resolved = plotResolved]
    /\ UNCHANGED <<roomVars, turnVars, moneyVars, prop, request, settled>>

\* cancelLandingPropertyActions(): the bank voids a landing in any status
CancelLandingPropertyActions(l) ==
    /\ status = "PLAYING"
    /\ landing[l].status # "NONE"
    /\ CancelRequests(PendingOfLandings({l}))
    /\ landing' = [landing EXCEPT ![l].status = "INVALIDATED",
                                  ![l].cancelled = TRUE, ![l].resolved = TRUE]
    /\ UNCHANGED <<roomVars, turnVars, moneyVars, settled>>
=============================================================================
