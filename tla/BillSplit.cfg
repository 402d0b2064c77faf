\* Two splits of two parts that may differ, two requests that create them, and three
\* attempts to pay the parts.
SPECIFICATION Spec
CONSTANTS
    Splits = {s1, s2}
    Parts = {p1, p2}
    Attempts = {a1, a2, a3}
    Creators = {c1, c2}
    Charged = 3
    Tips = {1}
    MaxOther = 1
    NoPart = NoPart
SYMMETRY Symmetry
CONSTRAINT ThirdAttemptAlone
INVARIANTS
    SplitFollowsParts
    OneActiveSplit
    EmbeddedPaysPartOnce
    PartPaidInFull
    PartsCoverRemaining
\* Once the attempts and the splits run out everything rests.
CHECK_DEADLOCK FALSE
