CONSTANTS
    MatchDepth = 8
    PatternChars = {"a", "b"}
    PathChars = {"a", "b"}
    MaxPattern = 4
    MaxPath = 3
    InitPatterns <- EmptyAltPatterns
    AllowEmptyAlternatives = TRUE
SPECIFICATION Spec
INVARIANT MatchMeetsSpec
CHECK_DEADLOCK FALSE
