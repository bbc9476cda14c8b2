----------------------------- MODULE RoomState -----------------------------
(***************************************************************************)
(* The rows one room owns in PostgreSQL and the private helpers of         *)
(* PrismaGameService that read and write them.                             *)
(*                                                                         *)
(* Every command of the service locks the room row (SELECT ... FOR UPDATE) *)
(* inside one serializable transaction, so a committed command is one step *)
(* of this model and a failed one is no step at all.  Player p is the      *)
(* character seated at turnOrder p.  Ids of landings and requests are      *)
(* drawn from finite sets, an unused id has a row with status "NONE";      *)
(* turns and transactions are sequences in the order of turnNumber and of  *)
(* createdAt.                                                              *)
(***************************************************************************)
EXTENDS Integers, Sequences, FiniteSets

CONSTANTS
    Player,          \* seats, as turn orders 1, 2, ...
    Property,        \* the RoomProperty rows
    LandingId,       \* ids a LandingEvent may get
    RequestId,       \* ids a GameRequest may get
    Nil,             \* SQL NULL
    DiceMode,        \* "ELECTRONIC" or "PHYSICAL"
    SeatedInLobby,   \* players seated when the bank starts the room
    InitialBalance,  \* cash of each player when first seated
    InitialOwner,    \* owner of each property in the lobby
    Skill,           \* skillCode of each player's character
    SkillConfig,     \* the numbers of the skills
    Price,           \* PropertyDefinition: prices and tolls
    StartReward, RedemptionFee,
    MaxTurn, MaxLog, MaxOwed, MaxVersion   \* bounds of the exploration

ReturnCompanionReward == 500

SkillCode == {"NONE", "PLOT_FINE_REDUCTION", "BUILD_DISCOUNT", "TOLL_BONUS",
              "COLD_PALACE_RELIEF", "COMPANION_REWARD"}

PriceRow == [purchase : Nat, mortgage : Nat, build : Nat, sell : Nat,
             toll : [0..5 -> Nat]]

ASSUME PlayerAssumption ==
    /\ Player \subseteq Nat \ {0}
    /\ IsFiniteSet(Player)
    /\ SeatedInLobby \subseteq Player

ASSUME NilAssumption ==
    Nil \notin Player \cup Property \cup LandingId \cup RequestId

ASSUME DiceAssumption == DiceMode \in {"ELECTRONIC", "PHYSICAL"}

ASSUME SetupAssumption ==
    /\ InitialBalance \in [Player -> Nat]
    /\ InitialOwner \in [Property -> SeatedInLobby \cup {Nil}]
    /\ Skill \in [Player -> SkillCode]

ASSUME PriceAssumption ==
    /\ Price \in [Property -> PriceRow]
    /\ StartReward \in Nat
    /\ RedemptionFee \in Nat
    /\ SkillConfig \in [reduction : Nat, discount : Nat, bonus : Nat,
                        skipTurnsReduction : Nat, palaceReward : Nat,
                        companionReward : Nat]

ASSUME BoundAssumption ==
    /\ MaxTurn \in Nat
    /\ MaxLog \in Nat
    /\ MaxOwed \in Nat
    /\ MaxVersion \in Nat

VARIABLES
    status,     \* Room.status
    approval,   \* Room.transferApprovalRequired
    playable,   \* the active players whose character matches their membership
    current,    \* Room.currentTurnPlayerId
    turn,       \* Turn rows, by turnNumber
    owed,       \* Player.remainingSkipTurns
    skip,       \* SkipTurnEntry rows: one flag (blocksTollCollection) per owed turn, oldest first
    balance,    \* Player.balance
    prop,       \* RoomProperty rows
    landing,    \* LandingEvent rows
    request,    \* GameRequest rows
    log,        \* GameTransaction rows with their ledger entries, by createdAt
    settled     \* IdempotencyRecord "landing:<id>:toll": position of the toll in log, 0 if none

roomVars  == <<status, approval, playable>>
turnVars  == <<current, turn, owed, skip>>
moneyVars == <<balance, log>>
vars == <<status, approval, playable, current, turn, owed, skip, balance,
          prop, landing, request, log, settled>>

-----------------------------------------------------------------------------
(* Rows *)

TurnRow == [player : Player, status : {"ACTIVE", "ENDED"}, rolled : BOOLEAN]

Deed == [owner : Player \cup {Nil}, level : 0..5, mortgaged : BOOLEAN,
         lock : RequestId \cup {Nil}, version : Nat]

\* propertyBefore and propertyAfter of a transaction's metadata
Face == [owner : Player \cup {Nil}, level : 0..5, mortgaged : BOOLEAN,
         version : Nat]

LandingRow == [status : {"NONE", "DECLARED", "CONFIRMED", "CLOSED", "INVALIDATED"},
               player : Player \cup {Nil},
               space : Property \cup {Nil},    \* Nil is the START space
               turn : Nat,                     \* 0 is NULL (physical dice)
               resolved : BOOLEAN,             \* plotResolved
               cancelled : BOOLEAN]            \* propertyActionsCancelled

DeedRequest == {"BUY_PROPERTY", "BUILD_PROPERTY", "SELL_BUILDING",
                "MORTGAGE_PROPERTY", "REDEEM_PROPERTY",
                "SELL_PROPERTY_TO_BANK", "TRADE_PROPERTY"}
LandingRequest == {"BUY_PROPERTY", "BUILD_PROPERTY", "START_REWARD"}
RequestType == DeedRequest \cup
    {"START_REWARD", "BANK_PAYMENT", "PLAYER_TRANSFER", "COMPANION_EVENT",
     "RETURN_COMPANION_EVENT", "COLD_PALACE_EVENT", "PLOT_REST_EVENT",
     "CONSUME_SKIP_TURNS"}

RequestRow == [type : RequestType \cup {"NONE"},
               status : {"NONE", "PENDING", "EXECUTED", "REJECTED",
                         "CANCELLED", "REVERSED"},
               actor : Player \cup {Nil}, target : Player \cup {Nil},
               prop : Property \cup {Nil}, landing : LandingId \cup {Nil},
               turn : Nat,
               amount : Nat,
               original : Nat,                 \* payload.originalAmount
               count : Nat,                    \* quantity
               mortgaged : BOOLEAN,            \* payload.propertyMortgaged
               confirmed : BOOLEAN,            \* payload.buyerConfirmed
               fine : BOOLEAN]                 \* payload.isPlotFine

TransactionType == RequestType \cup
    {"TOLL", "PLOT_FINE", "PLAYER_BANK_PAYMENT", "MANUAL_BALANCE_CHANGE",
     "REVERSAL"}

TransactionRow == [type : TransactionType,
                   request : RequestId \cup {Nil},
                   landing : LandingId \cup {Nil},
                   delta : [Player -> Int],    \* its ledger entries
                   prop : Property \cup {Nil},
                   before : Face, after : Face,
                   status : {"COMMITTED", "REVERSED"},
                   reversible : BOOLEAN,
                   undoes : Nat]               \* reversesTransactionId, 0 if none

NoLanding == [status |-> "NONE", player |-> Nil, space |-> Nil, turn |-> 0,
              resolved |-> FALSE, cancelled |-> FALSE]
NoRequest == [type |-> "NONE", status |-> "NONE", actor |-> Nil, target |-> Nil,
              prop |-> Nil, landing |-> Nil, turn |-> 0, amount |-> 0,
              original |-> 0, count |-> 0, mortgaged |-> FALSE,
              confirmed |-> FALSE, fine |-> FALSE]
NoFace == [owner |-> Nil, level |-> 0, mortgaged |-> FALSE, version |-> 0]

Init ==
    /\ status = "LOBBY"
    /\ approval \in BOOLEAN
    /\ playable = SeatedInLobby
    /\ current = Nil
    /\ turn = <<>>
    /\ owed = [p \in Player |-> 0]
    /\ skip = [p \in Player |-> <<>>]
    /\ balance = InitialBalance
    /\ prop = [o \in Property |->
                 [owner |-> InitialOwner[o], level |-> 0, mortgaged |-> FALSE,
                  lock |-> Nil, version |-> 0]]
    /\ landing = [l \in LandingId |-> NoLanding]
    /\ request = [r \in RequestId |-> NoRequest]
    /\ log = <<>>
    /\ settled = [l \in LandingId |-> 0]

-----------------------------------------------------------------------------
(* Money: changeBalance and recordTransaction *)

NoDelta == [p \in Player |-> 0]

\* a paid by `from` to `to`; Nil is the bank, whose cash is unlimited
Flow(from, to, a) ==
    [p \in Player |-> (IF p = to THEN a ELSE 0) - (IF p = from THEN a ELSE 0)]

Transaction(type, delta) ==
    [type |-> type, request |-> Nil, landing |-> Nil, delta |-> delta,
     prop |-> Nil, before |-> NoFace, after |-> NoFace,
     status |-> "COMMITTED", reversible |-> TRUE, undoes |-> 0]

\* changeBalance refuses an effect that would leave a negative balance
Affordable(delta) == \A p \in Player : balance[p] + delta[p] >= 0
CreditForgotten(delta) ==
    balance' = [p \in Player |-> IF delta[p] < 0 THEN balance[p] + delta[p] ELSE balance[p]]
ApplyToBalances(delta) == balance' = [p \in Player |-> balance[p] + delta[p]]

Commit(tx) ==
    /\ Len(log) < MaxLog
    /\ Affordable(tx.delta)
    /\ ApplyToBalances(tx.delta)
    /\ log' = Append(log, tx)

SkillBonus(p, code, a) == IF Skill[p] = code THEN a ELSE 0
NotCutOff(a) == a
AtLeastZero(a) == IF a < 0 THEN 0 ELSE a

\* transferAmounts: what the payer is really charged
ActualAmount(p, a, fine) ==
    AtLeastZero(a - (IF fine THEN SkillBonus(p, "PLOT_FINE_REDUCTION",
                                             SkillConfig.reduction)
                             ELSE 0))

-----------------------------------------------------------------------------
(* Skip turns *)

Owe(p, n, blocks) ==
    /\ owed[p] + n <= MaxOwed
    /\ owed' = [owed EXCEPT ![p] = @ + n]
    /\ skip' = [skip EXCEPT ![p] = @ \o [i \in 1..n |-> blocks]]

\* consumeSkipTurns takes the oldest entries first
ConsumeCounterOnly(p, n) ==
    /\ n > 0
    /\ owed[p] >= n
    /\ owed' = [owed EXCEPT ![p] = @ - n]
    /\ UNCHANGED skip
Consume(p, n) ==
    /\ n > 0
    /\ owed[p] >= n
    /\ Len(skip[p]) >= n
    /\ owed' = [owed EXCEPT ![p] = @ - n]
    /\ skip' = [skip EXCEPT ![p] = SubSeq(@, n + 1, Len(@))]

\* an owner with a cold-palace entry left collects no toll
CollectionBlocked(p) == \E i \in 1..Len(skip[p]) : skip[p][i]

-----------------------------------------------------------------------------
(* Requests, locks and landings *)

Pending == {r \in RequestId : request[r].status = "PENDING"}
AnyOfTurn(n) == {r \in RequestId : request[r].turn = n}
PendingPurchasesOfTurn(n) ==
    {r \in Pending : request[r].turn = n /\ request[r].type = "BUY_PROPERTY"}
PendingOfTurn(n) == {r \in Pending : request[r].turn = n}
PendingOfLandings(L) == {r \in Pending : request[r].landing \in L}

\* cancelPendingRequests: unlock what the requests lock, then cancel them
LocksForgotten(S) == prop
Unlocked(S) == [o \in Property |->
                  IF prop[o].lock \in S THEN [prop[o] EXCEPT !.lock = Nil]
                                        ELSE prop[o]]
Cancelled(S) == [r \in RequestId |->
                  IF r \in S THEN [request[r] EXCEPT !.status = "CANCELLED"]
                             ELSE request[r]]
CancelRequests(S) == prop' = Unlocked(S) /\ request' = Cancelled(S)

WithStatus(L, s) == [l \in LandingId |->
                      IF l \in L THEN [landing[l] EXCEPT !.status = s]
                                 ELSE landing[l]]

ActiveTurns == {n \in DOMAIN turn : turn[n].status = "ACTIVE"}

\* the rolled, active turn n of player p whose turn it is
OnTurn(n, p) ==
    /\ n \in ActiveTurns
    /\ turn[n].player = p
    /\ turn[n].rolled
    /\ current = p

LandingsOf(n, S) == {l \in LandingId : landing[l].turn = n /\ landing[l].status \in S}
DeclaredLandingsOf(p) == {l \in LandingId : /\ landing[l].player = p
                                            /\ landing[l].turn = 0
                                            /\ landing[l].status = "DECLARED"}
LiveLandingsOf(p) == {l \in LandingId : /\ landing[l].player = p
                                        /\ landing[l].turn = 0
                                        /\ landing[l].status \in {"DECLARED", "CONFIRMED"}}

\* a landing that property actions and tolls may use
Usable(l, p, o) ==
    /\ landing[l].player = p
    /\ landing[l].space = o
    /\ landing[l].status = "CONFIRMED"
    /\ landing[l].resolved
    /\ ~landing[l].cancelled

\* tollSettlementState: the recorded toll of a landing is in force
TollCommitted(l) == settled[l] # 0 /\ log[settled[l]].status = "COMMITTED"
=============================================================================
