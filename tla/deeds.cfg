SPECIFICATION Spec

CONSTANTS
    Player <- TwoPlayers
    Property = {o1}
    LandingId = {l1}
    RequestId = {r1, r2}
    Nil = Nil
    DiceMode = "PHYSICAL"
    SeatedInLobby <- FirstTwo
    InitialBalance <- Rich
    InitialOwner <- OwnedByFirst
    Skill <- NoSkill
    SkillConfig <- Skills
    Price <- Prices
    StartReward = 2
    RedemptionFee = 1
    MaxTurn = 3
    MaxLog = 3
    MaxOwed = 2
    MaxVersion = 3
    Commands <- DeedCommands
    Amount = {0, 2}
    Correction = {}
    Count = {1, 5}
    Level = {0, 1, 5}
    o1 = o1
    o2 = o2
    l1 = l1
    r1 = r1
    r2 = r2

SYMMETRY Symmetry

CHECK_DEADLOCK FALSE

INVARIANT DeedShape
INVARIANT PendingDeedStillValid
INVARIANT VersionNamesDeed
PROPERTY LockedDeedFrozen
