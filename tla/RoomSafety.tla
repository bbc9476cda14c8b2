----------------------------- MODULE RoomSafety -----------------------------
(***************************************************************************)
(* What must hold of a room whatever commands are sent to it, in whatever  *)
(* order.                                                                  *)
(***************************************************************************)
EXTENDS GameRoom

\* Every column holds a value of its type; cash and skip counters are never
\* negative (the database's Player_balance_check).
TypeOK ==
    /\ status \in {"LOBBY", "PLAYING", "FINISHED"}
    /\ approval \in BOOLEAN
    /\ playable \in SUBSET Player
    /\ current \in Player \cup {Nil}
    /\ turn \in Seq(TurnRow)
    /\ owed \in [Player -> Nat]
    /\ skip \in [Player -> Seq(BOOLEAN)]
    /\ balance \in [Player -> Nat]
    /\ prop \in [Property -> Deed]
    /\ landing \in [LandingId -> LandingRow]
    /\ request \in [RequestId -> RequestRow]
    /\ log \in Seq(TransactionRow)
    /\ settled \in [LandingId -> Nat]

-----------------------------------------------------------------------------
(* Properties and the requests that lock them *)

\* A deed without an owner carries no building and no mortgage, and a
\* mortgaged deed no building (RoomProperty_owner_check and
\* RoomProperty_mortgage_check): approvals, reversals and the bank's own
\* changes all have to keep it.
DeedShape ==
    \A o \in Property :
        /\ prop[o].owner = Nil => prop[o].level = 0 /\ ~prop[o].mortgaged
        /\ prop[o].mortgaged => prop[o].level = 0

\* A property is locked by r exactly while r is a pending request about it:
\* no lock outlives its request, and no two requests wait on one property.
\* Filing, approval, rejection and the five ways of cancelling must agree.
LockMatchesRequest ==
    \A o \in Property, r \in RequestId :
        prop[o].lock = r <=> request[r].status = "PENDING" /\ request[r].prop = o

\* While a request locks a property, only the execution of that request may
\* change the deed: neither another command nor a reversal gets between
\* filing and approval (a forced finish only raises the version).
LockedDeedFrozen ==
    [][\A o \in Property :
         /\ prop[o].lock # Nil
         /\ FaceOf(prop[o]) # FaceOf(prop'[o])
         => \/ request'[prop[o].lock].status = "EXECUTED"
            \/ status' = "FINISHED" /\ prop'[o].owner = prop[o].owner]_vars

\* The conditions checked when a property request was filed still hold while
\* it waits, so approve() can never answer PROPERTY_STATE_CHANGED.
PendingDeedStillValid ==
    \A r \in Pending :
        LET q == request[r]
            d == prop[q.prop]
        IN  /\ q.type = "BUY_PROPERTY" => d.owner = Nil
            /\ q.type \in DeedRequest \ {"BUY_PROPERTY"} => d.owner = q.actor
            /\ q.type \in {"BUILD_PROPERTY", "MORTGAGE_PROPERTY", "TRADE_PROPERTY"}
                 => ~d.mortgaged
            /\ q.type = "BUILD_PROPERTY" => d.level < 5
            /\ q.type = "SELL_BUILDING" =>
                 q.count <= d.level /\ q.amount = q.count * Price[q.prop].sell
            /\ q.type = "REDEEM_PROPERTY" => d.mortgaged
            /\ q.type \in {"MORTGAGE_PROPERTY", "SELL_PROPERTY_TO_BANK", "TRADE_PROPERTY"}
                 => d.level = 0
            /\ q.type = "SELL_PROPERTY_TO_BANK" =>
                 q.amount = BankSaleAmount(q.prop, d.mortgaged)

\* If the version of a deed is the one a transaction recorded, the deed is in
\* the recorded state: the version check of reverseLatest() is sound.
VersionNamesDeed ==
    \A i \in DOMAIN log :
        LET t == log[i] IN
        (t.prop # Nil /\ prop[t.prop].version = t.after.version)
            => FaceOf(prop[t.prop]) = t.after

-----------------------------------------------------------------------------
(* Landings, turns and the requests bound to them *)

\* A pending purchase, upgrade or start reward is still on a landing and a
\* turn that approve() accepts: whatever invalidates a landing or ends a turn
\* takes the requests that depend on it along.
PendingOnLiveLanding ==
    \A r \in Pending :
        LET q == request[r] IN
        /\ q.type \in {"BUY_PROPERTY", "BUILD_PROPERTY"} => StillOnLanding(r)
        /\ q.type = "START_REWARD" =>
             /\ landing[q.landing].status # "INVALIDATED"
             /\ DiceMode = "ELECTRONIC" => OnTurn(q.turn, q.actor)

\* A landing supports one purchase, upgrade or start reward: filed again only
\* after a rejection or a cancellation, not after a reversal.
OneUsePerLanding ==
    \A r, s \in RequestId :
        ( /\ r # s
          /\ {request[r].type, request[s].type} \subseteq LandingRequest
          /\ {request[r].status, request[s].status}
                \subseteq {"PENDING", "EXECUTED", "REVERSED"} )
        => request[r].landing # request[s].landing

\* An electronic turn yields at most one start reward, however often the START
\* landing is replaced, cancelled or refiled (the database's trigger
\* GameRequest_one_start_reward_per_turn).
StartRewardOncePerTurn ==
    \A r, s \in RequestId :
        ( /\ request[r].type = "START_REWARD" /\ request[s].type = "START_REWARD"
          /\ request[r].turn # 0 /\ request[r].turn = request[s].turn
          /\ {request[r].status, request[s].status}
                \subseteq {"PENDING", "EXECUTED", "REVERSED"} )
        => r = s

\* Of the landings of one electronic turn, or of one player with physical
\* dice, at most one is declared or confirmed: landingEvent.findFirst() has no
\* choice (the index active_turn_landing).
OneLiveLanding ==
    \A l, k \in LandingId :
        ( /\ {landing[l].status, landing[k].status} \subseteq {"DECLARED", "CONFIRMED"}
          /\ landing[l].turn = landing[k].turn
          /\ landing[l].turn = 0 => landing[l].player = landing[k].player )
        => l = k

\* A running electronic room has exactly one active turn: the newest, of a
\* playable player, the one the room names; any other room has none.
OneActiveTurn ==
    IF status = "PLAYING" /\ DiceMode = "ELECTRONIC"
      THEN /\ ActiveTurns = {Len(turn)}
           /\ current = turn[Len(turn)].player
           /\ current \in playable
      ELSE ActiveTurns = {} /\ current = Nil

-----------------------------------------------------------------------------
(* Turn order and skip turns *)

\* remainingSkipTurns is the number of units left in the skip entries, so
\* neither walk ever meets SKIP_ENTRY_MISSING.
SkipCounterMatches == \A p \in Player : owed[p] = Len(skip[p])

NextSeat(p) ==
    IF \E q \in playable : q > p
      THEN CHOOSE q \in playable : q > p /\ \A s \in playable : s > p => q <= s
      ELSE CHOOSE q \in playable : \A s \in playable : q <= s

\* Turns go round the table: each new turn belongs to the seat after the
\* previous one, no seat is left out and none plays twice, even when a player
\* joins or owes several rounds.
TurnsGoRound ==
    [][\A k \in Len(turn) .. Len(turn') - 1 :
         k > 0 => turn'[k + 1].player = NextSeat(turn'[k].player)]_vars

NewTurnsOf(p) ==
    Cardinality({k \in Len(turn) + 1 .. Len(turn') :
                   turn'[k].player = p /\ turn'[k].status = "ENDED"})

\* A seat is passed over only for a turn it owes, and pays one for each time;
\* whoever gets the active turn owes nothing.
PassedOverOnlyIfOwed ==
    [][Len(turn') > Len(turn) =>
         /\ owed'[current'] = 0
         /\ \A p \in Player :
              owed'[p] + NewTurnsOf(p) \in
                  {owed[p], IF p = current THEN owed[p] - 1 ELSE owed[p]}]_vars

-----------------------------------------------------------------------------
(* Money *)

\* Every toll in force is the one its landing points to, so a landing is never
\* charged twice: paying, reversing and paying again keep one toll in force.
TollOnce ==
    \A i \in DOMAIN log :
        (log[i].type = "TOLL" /\ log[i].status = "COMMITTED")
            => settled[log[i].landing] = i

\* Once the turn of a toll has ended, or its landing was closed or voided, the
\* toll stands: endTurn() freezes it, and where no endTurn() ran (a forced
\* turn, physical dice) the candidate search must refuse it.
TollStands ==
    [][\A l \in LandingId :
         ( /\ TollCommitted(l)
           /\ \/ landing[l].status # "CONFIRMED"
              \/ landing[l].turn # 0 /\ landing[l].turn \notin ActiveTurns )
         => TollCommitted(l)']_vars

\* A transaction is reversed once, by one later transaction that moves exactly
\* the opposite sums and can itself not be reversed.
ReversalExact ==
    /\ \A i \in DOMAIN log :
         log[i].status = "REVERSED" =>
            \E j \in DOMAIN log : log[j].undoes = i
    /\ \A j \in DOMAIN log :
         log[j].undoes # 0 =>
            LET i == log[j].undoes IN
            /\ i < j
            /\ log[i].status = "REVERSED" /\ log[j].status = "COMMITTED"
            /\ ~log[j].reversible
            /\ \A p \in Player : log[j].delta[p] = -log[i].delta[p]
            /\ \A k \in DOMAIN log : log[k].undoes = i => k = j

\* The ledger explains every balance: what a player holds is what he was seated
\* with plus all the entries of all transactions, reversed and reversing ones
\* included.
LedgerSum(p) ==
    LET total[n \in 0 .. Len(log)] ==
          IF n = 0 THEN 0 ELSE total[n - 1] + log[n].delta[p]
    IN  total[Len(log)]
LedgerExplainsBalances ==
    \A p \in Player : balance[p] = InitialBalance[p] + LedgerSum(p)

\* The requests of the room implement RequestLifecycle: filed once, settled
\* once, and in force (one committed transaction) exactly while EXECUTED.
InForce(r) == Cardinality({i \in DOMAIN log :
                             log[i].request = r /\ log[i].status = "COMMITTED"})
Lifecycle == INSTANCE RequestLifecycle
    WITH phase <- [r \in RequestId |-> request[r].status],
         effect <- [r \in RequestId |-> InForce(r)]
RequestsKeepLifecycle == Lifecycle!Spec

\* A finished room is at rest: no request waits, nothing is locked, no turn is
\* active and no landing waits for the bank.
FinishedRoomIsQuiet ==
    status = "FINISHED" =>
        /\ Pending = {}
        /\ \A o \in Property : prop[o].lock = Nil
        /\ UnresolvedLandings = {}
        /\ ActiveTurns = {}

-----------------------------------------------------------------------------
(* What the proofs rest on besides the properties themselves *)

\* The requests about a property are exactly those of a type in DeedRequest; a
\* waiting request has an actor, and a trade has a buyer.
RowShape(q) ==
    /\ q.type \in DeedRequest <=> q.prop # Nil
    /\ q.status = "PENDING" => q.actor # Nil
    /\ q.type = "TRADE_PROPERTY" => q.target # Nil
RequestShape == \A r \in RequestId : RowShape(request[r])

\* A reversal puts back a deed of the shape DeedShape asks for.
FaceShape(f) ==
    /\ f.owner = Nil => f.level = 0 /\ ~f.mortgaged
    /\ f.mortgaged => f.level = 0
RecordedShape == \A i \in DOMAIN log : log[i].prop # Nil => FaceShape(log[i].before)

\* A request is executed by at most one transaction and has the status that
\* transaction gives it, so neither approving nor reversing can touch a request
\* somebody is still waiting for.
RequestReceipts ==
    \A i \in DOMAIN log :
        log[i].request # Nil =>
            /\ request[log[i].request].status =
                 IF log[i].status = "COMMITTED" THEN "EXECUTED" ELSE "REVERSED"
            /\ \A j \in DOMAIN log : log[j].request = log[i].request => j = i

-----------------------------------------------------------------------------
(* What a document says and the code does not do *)

\* The landing design document calls CLOSED the normal end of a landing's
\* life, with no transition out of it.
ClosedLandingStaysClosed ==
    [][\A l \in LandingId :
         landing[l].status = "CLOSED" => landing'[l].status = "CLOSED"]_vars
=============================================================================
