SPECIFICATION Spec

CONSTANTS
    Player <- TwoPlayers
    Property = {o1}
    LandingId = {l1, l2}
    RequestId = {r1}
    Nil = Nil
    DiceMode = "ELECTRONIC"
    SeatedInLobby <- FirstTwo
    InitialBalance <- Rich
    InitialOwner <- OwnedBySecond
    Skill <- BuilderAndCollector
    SkillConfig <- Skills
    Price <- Prices
    StartReward = 2
    RedemptionFee = 1
    MaxTurn = 3
    MaxLog = 3
    MaxOwed = 1
    MaxVersion = 3
    Commands <- TollCommands
    Amount = {1, 2}
    Correction <- Losses
    Count = {1}
    Level = {0, 1}
    o1 = o1
    o2 = o2
    l1 = l1
    l2 = l2
    r1 = r1

SYMMETRY Symmetry

CHECK_DEADLOCK FALSE

INVARIANT TollOnce
INVARIANT ReversalExact
PROPERTY TollStands
