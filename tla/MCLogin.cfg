SPECIFICATION FairSpec
CONSTANTS
    Settings <- LoginSettings
    MaxLogins = 3
    MaxChallenges = 3
    Nil = Nil
    u1 = u1
    u2 = u2
INVARIANTS
    HandlerAtMostOnce
    ChallengeUsedOnce
    TokenFromOwnPage
PROPERTIES
    HandlersCalled
    UserSwitchNeedsLogOut
