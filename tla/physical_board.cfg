SPECIFICATION Spec

CONSTANTS
    Player <- TwoPlayers
    Property = {o1}
    LandingId = {l1, l2, l3}
    RequestId = {r1, r2}
    Nil = Nil
    DiceMode = "PHYSICAL"
    SeatedInLobby <- FirstTwo
    InitialBalance <- Rich
    InitialOwner <- Unowned
    Skill <- NoSkill
    SkillConfig <- Skills
    Price <- Prices
    StartReward = 2
    RedemptionFee = 1
    MaxTurn = 3
    MaxLog = 3
    MaxOwed = 2
    MaxVersion = 3
    Commands <- BoardCommands
    Amount = {1, 2}
    Correction = {}
    Count = {1}
    Level = {0, 1}
    o1 = o1
    o2 = o2
    l1 = l1
    l2 = l2
    l3 = l3
    r1 = r1
    r2 = r2

SYMMETRY Symmetry

CHECK_DEADLOCK FALSE

INVARIANT OneLiveLanding
INVARIANT PendingOnLiveLanding
PROPERTY TollStands
