SPECIFICATION Spec

CONSTANTS
    Member = {m1, m2, m3}
    Character = {c1, c2, c3}
    Nobody = Nobody
    NoCharacter = NoCharacter
    PlayerLimit = 3
    MaxSwaps = 2
    m1 = m1
    m2 = m2
    m3 = m3
    c1 = c1
    c2 = c2
    c3 = c3

SYMMETRY Symmetry
CHECK_DEADLOCK FALSE

INVARIANT SeatsAgree
INVARIANT OneBank
INVARIANT PalaceFollowsCharacter
PROPERTY SwapIsWhatWasAgreed
