----------------------------- MODULE MCGameRoom -----------------------------
(***************************************************************************)
(* Small rooms for TLC.  Each configuration picks the players, the rows    *)
(* that may be created and the commands that are sent.                     *)
(***************************************************************************)
EXTENDS RoomSafety, TLC

CONSTANTS o1, o2

TwoPlayers == {1, 2}
ThreePlayers == {1, 2, 3}
FirstTwo == {1, 2}

\* purchase - mortgage - fee is negative: the bank's offer for a mortgaged
\* deed is cut off at zero
CheapDeed == [purchase |-> 2, mortgage |-> 2, build |-> 2, sell |-> 1,
              toll |-> [k \in 0..5 |-> k + 1]]
Prices == [o \in Property |-> CheapDeed]

Skills == [reduction |-> 1, discount |-> 3, bonus |-> 1, skipTurnsReduction |-> 1,
           palaceReward |-> 1, companionReward |-> 1]
NoSkill == [p \in Player |-> "NONE"]
BuilderAndCollector ==
    [p \in Player |-> IF p = 1 THEN "BUILD_DISCOUNT" ELSE "TOLL_BONUS"]
CashSkills ==
    [p \in Player |-> IF p = 1 THEN "PLOT_FINE_REDUCTION" ELSE "COLD_PALACE_RELIEF"]

Rich == [p \in Player |-> 5]
Poor == [p \in Player |-> IF p = 1 THEN 2 ELSE 1]
Latecomer == [p \in Player |-> IF p = 3 THEN 0 ELSE 2]

Unowned == [o \in Property |-> Nil]
OwnedBySecond == [o \in Property |-> IF o = o1 THEN 2 ELSE Nil]
OwnedByFirst == [o \in Property |-> 1]

TurnCommands == {"Start", "Roll", "EndTurn"}
LandingCommands == {"DeclareLanding", "DeclareStart", "ConfirmLanding", "CancelLanding"}
LandCommands == TurnCommands \cup LandingCommands \cup
    {"ForceNext", "InvalidateRoll", "Buy", "Build", "StartReward", "Approve",
     "Reject", "ReverseLatest", "FinishNormal", "FinishForced"}
TollCommands == TurnCommands \cup
    {"ForceNext", "InvalidateRoll", "DeclareLanding", "ConfirmLanding",
     "CancelLanding", "PayToll", "ReverseLatest", "AddSkipTurns", "AdjustBalance"}
BoardCommands == LandingCommands \cup
    {"Start", "Buy", "StartReward", "PayToll", "Approve", "Reject", "ReverseLatest"}
DeedCommands ==
    {"Start", "SellBuilding", "Mortgage", "Redeem", "SellToBank", "Trade",
     "ConfirmTrade", "AdjustProperty", "Approve", "Reject", "ReverseLatest"}
SkipCommands == TurnCommands \cup
    {"SkipTurn", "AddSkipTurns", "ConsumeSkip", "JoinMidgame", "ForceNext"}
CashCommands ==
    {"Start", "Transfer", "SetApprovalMode", "BankPayment", "Companion",
     "ReturnCompanion", "PlotFine", "AdjustBalance", "ColdPalace", "PlotRest",
     "ConsumeSkips", "AddSkipTurns", "Approve", "Reject", "ReverseLatest"}
ClosedCommands == {"Start", "DeclareLanding", "ConfirmLanding", "CancelLanding"}

Losses == {-1}
Symmetry == Permutations(LandingId) \cup Permutations(RequestId)
=============================================================================
