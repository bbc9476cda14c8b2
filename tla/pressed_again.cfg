SPECIFICATION MCSpec

CONSTANTS
    Tab = {t1}
    Intent <- GameAndSeat
    Call = {x1, x2}
    NoCall = NoCall
    Attempts = 1
    Reads = 2
    MaxKeys = 2
    MaxPages = 1
    MaxOthers = 0
    Transfer = {transfer}
    Payer = payer
    Receiver = receiver
    MaxTries = 2
    MaxBreaks = 1
    t1 = t1
    x1 = x1
    x2 = x2
    transfer = transfer
    payer = payer
    receiver = receiver

SYMMETRY Symmetry

CHECK_DEADLOCK FALSE

INVARIANT LaterKeyMeansApplied
INVARIANT MoneyToldOnce
INVARIANT OutcomeTold
