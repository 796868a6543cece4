CONSTANTS
    People = {a1}
    Plans = {s1}
SPECIFICATION SettingsSpec
PROPERTY PatchKeepsTheRest
CHECK_DEADLOCK FALSE
