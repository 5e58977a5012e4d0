CONSTANTS
    MatchDepth = 8
    PatternChars = {"a", "/", "*", "?", "|", "["}
    PathChars = {"a", "b"}
    MaxPattern = 4
    MaxPath = 4
    InitPatterns <- SingleCharPatterns
    AllowEmptyAlternatives = FALSE
SPECIFICATION Spec
INVARIANT MatchMeetsSpec
CHECK_DEADLOCK FALSE
