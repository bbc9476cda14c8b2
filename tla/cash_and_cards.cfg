SPECIFICATION Spec

CONSTANTS
    Player <- TwoPlayers
    Property = {o1}
    LandingId = {l1}
    RequestId = {r1}
    Nil = Nil
    DiceMode = "PHYSICAL"
    SeatedInLobby <- FirstTwo
    InitialBalance <- Poor
    InitialOwner <- Unowned
    Skill <- CashSkills
    SkillConfig <- Skills
    Price <- Prices
    StartReward = 2
    RedemptionFee = 1
    MaxTurn = 3
    MaxLog = 2
    MaxOwed = 2
    MaxVersion = 3
    Commands <- CashCommands
    Amount = {2}
    Correction <- Losses
    Count = {1, 2}
    Level = {0, 1}
    o1 = o1
    o2 = o2
    l1 = l1
    r1 = r1

SYMMETRY Symmetry

CHECK_DEADLOCK FALSE

INVARIANT LedgerExplainsBalances
