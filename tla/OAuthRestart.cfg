SPECIFICATION OAuthSpec
CONSTANTS
    Callers = {r1, r2}
    MaxTokens = 3
INVARIANT StoredSurvives
CHECK_DEADLOCK FALSE
