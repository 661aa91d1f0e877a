SPECIFICATION StreamSpec
CONSTANTS
    TextLength = 8
    MaxMatchBytes = 3
    MaxDelta = 3
    MaxOthers = 0
    Rules <- MCRules
    Texts <- LookbehindTexts
INVARIANT
    SplitIsCaught
CHECK_DEADLOCK FALSE
