SPECIFICATION Spec
CONSTANTS
    PIXEL_MAX = 3
    Strengths <- MCStrengths
    Configs <- MCConfigs
    FirstHour = 21
    MaxCommands = 1
    MaxHours = 3
    MaxPauses = 1
INVARIANT NightIsLit
