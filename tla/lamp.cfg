SPECIFICATION FairSpec
CONSTANTS
    PIXEL_MAX = 3
    Strengths <- MCStrengths
    Configs <- MCConfigs
    FirstHour = 21
    MaxCommands = 3
    MaxHours = 3
    MaxPauses = 1
INVARIANTS TypeOK RefreshIsWhole
PROPERTY StripSettles
