SPECIFICATION FairSpec
CONSTANTS
    Audio = {off, long}
    Off = off
    LongAudio = {long}
    DefaultAudio = long
    Vrr = {0, 2}
    Game = {0, 2}
    Empty = empty
    NONE = none
    MaxWrites = 1
INVARIANTS
    GameModeApplied
CHECK_DEADLOCK FALSE
