SPECIFICATION Spec

CONSTANTS
    Tab = {t1}
    MaxVersion = 2
    MaxIntents = 1
    MaxDrops = 0
    MaxEvictions = 0
    MaxPresses = 1
    t1 = t1

CHECK_DEADLOCK FALSE

INVARIANT EveryNoticeIsRead
