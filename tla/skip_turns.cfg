SPECIFICATION Spec

CONSTANTS
    Player <- ThreePlayers
    Property = {o1}
    LandingId = {l1}
    RequestId = {r1}
    Nil = Nil
    DiceMode = "ELECTRONIC"
    SeatedInLobby <- FirstTwo
    InitialBalance <- Latecomer
    InitialOwner <- Unowned
    Skill <- NoSkill
    SkillConfig <- Skills
    Price <- Prices
    StartReward = 2
    RedemptionFee = 1
    MaxTurn = 6
    MaxLog = 0
    MaxOwed = 2
    MaxVersion = 3
    Commands <- SkipCommands
    Amount = {1, 2}
    Correction = {}
    Count = {1, 2}
    Level = {0, 1}
    o1 = o1
    o2 = o2
    l1 = l1
    r1 = r1

SYMMETRY Symmetry

CHECK_DEADLOCK FALSE

INVARIANT SkipCounterMatches
INVARIANT OneActiveTurn
PROPERTY TurnsGoRound
PROPERTY PassedOverOnlyIfOwed
