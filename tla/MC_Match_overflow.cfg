CONSTANTS
    MatchDepth = 8
    PatternChars = {"a"}
    PathChars = {"a", "b"}
    MaxPattern = 12
    MaxPath = 3
    InitPatterns <- OverflowPatterns
    AllowEmptyAlternatives = FALSE
SPECIFICATION Spec
INVARIANT MatchMeetsSpec
CHECK_DEADLOCK FALSE
