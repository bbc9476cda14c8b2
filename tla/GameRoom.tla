------------------------------ MODULE GameRoom ------------------------------
(***************************************************************************)
(* One room of the game: every command that changes the rows of RoomState, *)
(* in any order and by any player, the bank or an administrator.  Each     *)
(* instance chooses the commands it explores with the constant Commands.   *)
(***************************************************************************)
EXTENDS RoomTurns, RoomMoney

CONSTANTS
    Commands,    \* names of the commands this instance explores
    Amount,      \* sums a player or the bank may enter
    Correction,  \* corrections of a balance the bank may enter
    Count,       \* numbers of skip turns or buildings entered
    Level        \* building levels the bank may set

ASSUME InputAssumption ==
    /\ Amount \subseteq Nat
    /\ Correction \subseteq Int
    /\ Count \subseteq Nat
    /\ Level \subseteq 0..5

-----------------------------------------------------------------------------
(* Joining and finishing: the commands of AccountRoomService that touch the *)
(* rows of a running game                                                   *)

\* joinRoom() while the game is on: any turn order that is free, the first one
\* or the old one of a player who returns
JoinMidgame(p) ==
    /\ status = "PLAYING"
    /\ p \in Player \ playable
    /\ playable' = playable \cup {p}
    /\ UNCHANGED <<status, approval, turnVars, moneyVars, prop, landing, request,
                   settled>>

UnresolvedLandings ==
    {l \in LandingId : /\ landing[l].status \in {"DECLARED", "CONFIRMED"}
                       /\ ~landing[l].resolved
                       /\ ~landing[l].cancelled}

\* isPristineSettlementTurn: nothing was rolled or declared on the turn
Pristine(n) ==
    /\ ~turn[n].rolled
    /\ \A l \in LandingId : landing[l].turn # n

BlockedByRequests ==
    \/ Pending # {}
    \/ \E o \in Property : prop[o].lock # Nil
Blocked ==
    \/ Pending # {}
    \/ \E o \in Property : prop[o].lock # Nil
    \/ UnresolvedLandings # {}
    \/ \E n \in ActiveTurns : ~Pristine(n)

CloseRoom ==
    /\ status' = "FINISHED"
    /\ current' = Nil
    /\ turn' = [n \in DOMAIN turn |-> [turn[n] EXCEPT !.status = "ENDED"]]
    /\ UNCHANGED <<approval, playable, owed, skip, moneyVars, settled>>

\* finishRoom() by the bank
FinishNormal ==
    /\ status = "PLAYING"
    /\ playable # {}
    /\ ~Blocked
    /\ CloseRoom
    /\ UNCHANGED <<prop, landing, request>>

\* finishRoom() forced by an administrator, from the lobby too
FinishForced ==
    /\ status \in {"LOBBY", "PLAYING"}
    /\ request' = Cancelled(Pending)
    /\ prop' = [o \in Property |->
                  IF prop[o].lock = Nil THEN prop[o]
                  ELSE [prop[o] EXCEPT !.lock = Nil, !.version = @ + 1]]
    /\ landing' = [l \in LandingId |->
                    IF l \in UnresolvedLandings
                      THEN [landing[l] EXCEPT !.status = "INVALIDATED",
                                              !.cancelled = TRUE]
                      ELSE landing[l]]
    /\ CloseRoom

-----------------------------------------------------------------------------
On(name) == name \in Commands

TurnStep ==
    \/ On("Start") /\ Start
    \/ \E p \in Player : \/ On("Roll") /\ Roll(p)
                         \/ On("EndTurn") /\ EndTurn(p)
                         \/ On("SkipTurn") /\ SkipTurn(p)
    \/ On("ForceNext") /\ ForceNext
    \/ On("InvalidateRoll") /\ InvalidateRoll

LandingStep ==
    \E l \in LandingId :
        \/ On("DeclareLanding") /\ \E p \in Player, o \in Property :
             \/ DeclareLandingOnTurn(p, o, l)
             \/ DeclareLandingOnBoard(p, o, l)
        \/ On("DeclareStart") /\ \E p \in Player, r \in RequestId :
             \/ DeclareStartOnTurn(p, l, r)
             \/ DeclareStartOnBoard(p, l, r)
        \/ On("ConfirmLanding") /\ \E b \in BOOLEAN : ConfirmLanding(l, b)
        \/ On("CancelLanding") /\ CancelLandingPropertyActions(l)

DeedRequestStep ==
    \E p \in Player, o \in Property, r \in RequestId :
        \/ On("Buy") /\ RequestBuy(p, o, r)
        \/ On("Build") /\ RequestBuild(p, o, r)
        \/ On("SellBuilding") /\ \E n \in Count : RequestSellBuilding(p, o, n, r)
        \/ On("Mortgage") /\ RequestMortgage(p, o, r)
        \/ On("Redeem") /\ RequestRedeem(p, o, r)
        \/ On("SellToBank") /\ RequestSellToBank(p, o, r)
        \/ On("Trade") /\ \E b \in Player, a \in Amount : RequestTrade(p, o, b, a, r)

CashRequestStep ==
    \E p \in Player, r \in RequestId :
        \/ On("StartReward") /\ \E l \in LandingId : RequestStartReward(p, l, r)
        \/ On("ColdPalace") /\ \E n \in Count : RequestCount(p, "COLD_PALACE_EVENT", n, r)
        \/ On("PlotRest") /\ \E n \in Count : RequestCount(p, "PLOT_REST_EVENT", n, r)
        \/ On("ConsumeSkips") /\ \E n \in Count : RequestCount(p, "CONSUME_SKIP_TURNS", n, r)
        \/ On("Companion") /\ RequestCompanion(p, r)
        \/ On("ReturnCompanion") /\ RequestReturnCompanion(p, r)
        \/ On("BankPayment") /\ \E a \in Amount : a > 0 /\ RequestBankPayment(p, a, r)
        \/ On("Transfer") /\ \E q \in Player \cup {Nil}, a \in Amount, f \in BOOLEAN :
             RequestTransfer(p, q, a, f, r)

SettleStep ==
    \E r \in RequestId :
        \/ On("ConfirmTrade") /\ ConfirmTrade(r)
        \/ On("Approve") /\ Approve(r)
        \/ On("Reject") /\ Reject(r)

MoneyStep ==
    \/ On("Transfer") /\ \E p \in Player, q \in Player \cup {Nil}, a \in Amount, f \in BOOLEAN :
         TransferNow(p, q, a, f)
    \/ On("PayToll") /\ \E p \in Player, o \in Property : PayToll(p, o)
    \/ On("AdjustBalance") /\ \E p \in Player, a \in Correction : AdjustBalance(p, a)
    \/ On("PlotFine") /\ \E p \in Player, a \in Amount : PlotFine(p, a)
    \/ On("ReverseLatest") /\ ReverseLatest

BankStep ==
    \/ On("AdjustProperty") /\ \E o \in Property, owner \in Player \cup {Nil},
                                  level \in Level, m \in BOOLEAN :
         AdjustProperty(o, owner, level, m)
    \/ On("AddSkipTurns") /\ \E p \in Player, n \in Count, palace \in BOOLEAN :
         AddSkipTurns(p, n, palace)
    \/ On("ConsumeSkip") /\ \E p \in Player, n \in Count : ConsumeSkip(p, n)

RoomStep ==
    \/ On("SetApprovalMode") /\ SetApprovalMode
    \/ On("JoinMidgame") /\ \E p \in Player : JoinMidgame(p)
    \/ On("FinishNormal") /\ FinishNormal
    \/ On("FinishForced") /\ FinishForced

Next ==
    \/ TurnStep
    \/ LandingStep
    \/ DeedRequestStep
    \/ CashRequestStep
    \/ SettleStep
    \/ MoneyStep
    \/ BankStep
    \/ RoomStep

Spec == Init /\ [][Next]_vars
=============================================================================
